--------------------------- MODULE ScanControlProofs ---------------------------
(***************************************************************************)
(* Proofs about ScanControl, for every set of files, every tree of         *)
(* directories, every buffer, concurrency and batch size, and any number   *)
(* of scans and requests; and, at the end, about RuntimeSettings, for any  *)
(* number of changes and of scans the scheduler starts.                    *)
(***************************************************************************)
EXTENDS ScanControl, RuntimeSettings, SequenceTheorems, FiniteSetTheorems, TLAPS

-------------------------------------------------------------------------------
(* The inductive invariant.                                                    *)

Walking == {"root", "walk", "recv"}             \* the loop over the roots
Sifting == {"load", "filter", "drain", "enqueue"}

(* What the guard and the progress of a scan have to do with its control point. *)
FrameInv ==
    /\ GuardCoversScan
    /\ scan.pc \in {"off", "reserved", "settled", "cleared"} => stage # "working"
    /\ scan.pc \in {"ending", "settled", "cleared"} => scan.result \in Outcomes
    /\ scan.pc \in Walking \union Sifting => scan.result = "none"

(* How far a walking thread is; one that is heard ended because its listing did, or  *)
(* because a cancel that was asked for stopped it.                                   *)
ThreadFits(thread, wanted) ==
    LET listing == Tree[thread.root] IN
    /\ thread.at \in 1..(Len(listing) + 1)
    /\ thread.pc = "spawned" => thread.at = 1
    /\ thread.look => thread.pc = "check" /\ thread.at \in DOMAIN listing
    /\ thread.pc = "send" => thread.at \in DOMAIN listing /\ listing[thread.at] # "other"
    /\ thread.heard /\ thread.pc = "done" /\ ~thread.stopped => thread.at > Len(listing)
    /\ thread.heard /\ thread.stopped => wanted

WalkFits(w) ==
    /\ ThreadFits(walk[w], asked)
    /\ w > spawned => walk[w] = FreshWalk /\ chan[w] = <<>>

WalksInv == \A w \in Walks : WalkFits(w)

(* How many walks the scan may still start. *)
ToWalk == CASE scan.pc = "reserved"         -> Len(Tree)
            [] scan.pc = "root"             -> (Len(Tree) + 1) - scan.root
            [] scan.pc \in {"walk", "recv"} -> Len(Tree) - scan.root
            [] OTHER                        -> 0

(* The last walk is that of the root the scan is at, and there is room for the others. *)
RootInv ==
    /\ scan.pc \in Walking => scan.root <= Len(Tree)
    /\ scan.pc \in Sifting => scan.root = Len(Tree) + 1
    /\ scan.pc \in {"walk", "recv"} =>
          spawned # 0 /\ walk[spawned].heard /\ walk[spawned].root = scan.root
    /\ spawned + ToWalk <= scans * Len(Tree)

Distinct(seq)  == \A i, j \in DOMAIN seq : seq[i] = seq[j] => i = j
Occurring(seq) == {seq[i] : i \in DOMAIN seq}

(* The events of the roots before one, and those that came out of a channel: those of    *)
(* earlier roots, and those of this one that were met before position "at" and are not   *)
(* at one of the positions still in the channel.                                         *)
Before(root) == {e \in Events : e[1] < root}

Received(root, at, pos) ==
    {e \in Events : \/ e[1] < root
                    \/ e[1] = root /\ e[2] < at /\ e[2] \notin Occurring(pos)}

NamesOf(got) == {Tree[e[1]][e[2]] : e \in got}

(* Each event that was received is a candidate, skipped or failed, and each file that was *)
(* met is a candidate once.                                                               *)
Tally(found, skipped, failed, got) ==
    /\ IsFiniteSet(got)
    /\ Cardinality(got) = Len(found) + skipped + failed
    /\ Distinct(found)
    /\ Occurring(found) = NamesOf(got) \ {"broken"}

(* pos: where in the listing the entries were met that are in the channel. *)
InTransit(root, at, events, pos) ==
    /\ Len(pos) = Len(events)
    /\ Distinct(pos)
    /\ \A i \in DOMAIN pos : /\ pos[i] \in DOMAIN Tree[root] /\ pos[i] < at
                             /\ events[i] = Tree[root][pos[i]] /\ events[i] # "other"

(* What is in the channel is what the thread met and the scan did not receive. *)
Arrived(root, at, events, found, skipped, failed) ==
    \E pos \in Seq(Nat) : /\ InTransit(root, at, events, pos)
                          /\ Tally(found, skipped, failed, Received(root, at, pos))

TallyInv ==
    /\ scan.pc = "root" => Tally(scan.found, scan.skipped, scan.failed, Before(scan.root))
    /\ scan.pc \in {"walk", "recv"} =>
          Arrived(scan.root, walk[spawned].at, chan[spawned],
                  scan.found, scan.skipped, scan.failed)
    /\ scan.pc = "load" => Tally(scan.found, scan.skipped, scan.failed, Events)

Counted == scan.todo + scan.tasks + scan.ready + scan.queued + scan.skipped + scan.failed

(* After the walk, a candidate is to do, in a task, ready, or counted in the summary. *)
CountInv ==
    /\ scan.pc \in Walking \union {"load"} =>
          scan.todo = 0 /\ scan.tasks = 0 /\ scan.ready = 0 /\ scan.queued = 0
    /\ (scan.pc \in Sifting \ {"load"} \/ scan.result = "completed") =>
          /\ Counted = Cardinality(Events)
          /\ Distinct(scan.found) /\ Occurring(scan.found) = Expected
    /\ scan.pc = "filter" => scan.todo # 0
    /\ scan.pc \in {"drain", "enqueue"} => scan.todo = 0
    /\ scan.pc = "enqueue" => scan.tasks = 0
    /\ scan.result = "completed" => scan.todo = 0 /\ scan.tasks = 0 /\ scan.ready = 0

(* A cancel that is visible was requested since the scan began. *)
AskInv ==
    /\ cancelled => asked
    /\ scan.result = "cancelled" => asked

(* While a pause holds, only a cancel can have lifted it, and the scan sees that cancel *)
(* when it looks again.                                                                 *)
PauseInv ==
    /\ halted /\ (canceller \/ ~paused) => cancelled
    /\ turns \in {0, 1}
    /\ turns = 1 => halted /\ cancelled /\ ~scan.look

Inv == /\ TypeOK /\ FrameInv /\ WalksInv /\ RootInv /\ TallyInv /\ CountInv
       /\ AskInv /\ PauseInv

-------------------------------------------------------------------------------
(* The tree, and what a walk of it adds up to.                                 *)

(* The tree is a sequence of listings, each a sequence of entries. *)
LEMMA TreeShape ==
  /\ Len(Tree) \in Nat /\ DOMAIN Tree = 1..Len(Tree)
  /\ \A r \in DOMAIN Tree : /\ Tree[r] \in Seq(Entries) /\ Len(Tree[r]) \in Nat
                            /\ DOMAIN Tree[r] = 1..Len(Tree[r])
                            /\ \A i \in DOMAIN Tree[r] : Tree[r][i] \in Entries
<1>1. Tree \in Seq(Seq(Entries))
  BY ScanAssumption DEF ScanAssumption
<1>2. Len(Tree) \in Nat /\ DOMAIN Tree = 1..Len(Tree) /\ \A r \in DOMAIN Tree : Tree[r] \in Seq(Entries)
  BY <1>1
<1>3. ASSUME NEW list \in Seq(Entries)
      PROVE  /\ Len(list) \in Nat /\ DOMAIN list = 1..Len(list)
             /\ \A i \in DOMAIN list : list[i] \in Entries
  OBVIOUS
<1> QED
  BY <1>2, <1>3

(* An event is a root and a place in its listing that is not passed over. *)
LEMMA EventIs ==
  \A e : e \in Events <=> \E r \in DOMAIN Tree : \E i \in DOMAIN Tree[r] :
                             Tree[r][i] # "other" /\ e = <<r, i>>
  BY DEF Events

(* Before the first root there was nothing, after the last one everything. *)
LEMMA Bounds ==
  /\ Before(1) = {} /\ Before(Len(Tree) + 1) = Events
  /\ \A root \in Nat : Received(root, 1, <<>>) = Before(root)
<1>1. ASSUME NEW e \in Events
      PROVE  e[1] \in 1..Len(Tree) /\ e[2] \in Nat /\ ~(e[2] < 1)
  BY EventIs, TreeShape
<1> QED
  BY <1>1, TreeShape DEF Before, Received

(* Going past an entry that is not sent receives nothing. *)
LEMMA ReceivedPass ==
  ASSUME NEW root \in DOMAIN Tree, NEW at \in DOMAIN Tree[root], NEW pos, NEW next,
         \/ Tree[root][at] = "other" /\ Occurring(next) = Occurring(pos)
         \/ Occurring(next) = Occurring(pos) \union {at}
  PROVE  Received(root, at + 1, next) = Received(root, at, pos)
<1>1. at \in Nat
  BY TreeShape
<1>2. ASSUME NEW e \in Events, e[1] = root
      PROVE  /\ e[2] \in Nat
             /\ Tree[root][e[2]] # "other"
  BY <1>2, EventIs, TreeShape
<1>3. ASSUME NEW e \in Events, e[1] = root
      PROVE  /\ e[2] < at + 1 /\ e[2] \notin Occurring(next)
             <=> e[2] < at /\ e[2] \notin Occurring(pos)
  BY <1>1, <1>2, <1>3
<1> QED
  BY <1>3 DEF Received

(* Positions in the channel when an entry is sent, and when one is received. *)
LEMMA TransitSend ==
  ASSUME NEW root \in DOMAIN Tree, NEW at \in DOMAIN Tree[root], Tree[root][at] # "other",
         NEW events \in Seq(Entries), NEW pos \in Seq(Nat), InTransit(root, at, events, pos)
  PROVE  /\ Append(pos, at) \in Seq(Nat)
         /\ InTransit(root, at + 1, Append(events, Tree[root][at]), Append(pos, at))
         /\ Occurring(Append(pos, at)) = Occurring(pos) \union {at}
<1> DEFINE q == Append(pos, at)
           ev == Append(events, Tree[root][at])
<1>1. at \in Nat /\ Tree[root][at] \in Entries
  BY TreeShape
<1>2. /\ q \in Seq(Nat) /\ Len(q) = Len(pos) + 1 /\ q[Len(pos) + 1] = at
      /\ \A i \in 1..Len(pos) : q[i] = pos[i]
      /\ DOMAIN q = 1..(Len(pos) + 1) /\ DOMAIN pos = 1..Len(pos) /\ Len(pos) \in Nat
  BY <1>1, AppendProperties
<1>3. /\ Len(ev) = Len(events) + 1 /\ ev[Len(events) + 1] = Tree[root][at]
      /\ \A i \in 1..Len(events) : ev[i] = events[i]
      /\ Len(events) = Len(pos)
  BY <1>1, AppendProperties DEF InTransit
<1> HIDE DEF q, ev
<1>4. \A i \in DOMAIN pos : pos[i] \in Nat /\ pos[i] < at
  BY <1>2 DEF InTransit
<1>5. Distinct(q)
  <2> SUFFICES ASSUME NEW i \in DOMAIN q, NEW j \in DOMAIN q, q[i] = q[j] PROVE i = j
    BY DEF Distinct
  <2>1. \A k \in DOMAIN pos : q[k] # at
    <3> SUFFICES ASSUME NEW k \in DOMAIN pos PROVE q[k] # at
      OBVIOUS
    <3>1. q[k] = pos[k] /\ pos[k] \in Nat /\ pos[k] < at
      BY <1>2, <1>4
    <3> QED
      BY <1>1, <3>1
  <2>2. \A k \in DOMAIN q : k \in DOMAIN pos \/ (k = Len(pos) + 1 /\ q[k] = at)
    BY <1>2
  <2>3. CASE i \in DOMAIN pos /\ j \in DOMAIN pos
    BY <1>2, <2>3 DEF InTransit, Distinct
  <2> QED
    BY <2>1, <2>2, <2>3
<1>6. \A i \in DOMAIN q : /\ q[i] \in DOMAIN Tree[root] /\ q[i] < at + 1
                          /\ ev[i] = Tree[root][q[i]] /\ ev[i] # "other"
  <2> SUFFICES ASSUME NEW i \in DOMAIN q
               PROVE  /\ q[i] \in DOMAIN Tree[root] /\ q[i] < at + 1
                      /\ ev[i] = Tree[root][q[i]] /\ ev[i] # "other"
    OBVIOUS
  <2>1. CASE i = Len(pos) + 1
    BY <1>1, <1>2, <1>3, <2>1
  <2>2. CASE i \in 1..Len(pos)
    BY <1>1, <1>2, <1>3, <1>4, <2>2 DEF InTransit
  <2> QED
    BY <1>2, <2>1, <2>2
<1>7. Occurring(q) = Occurring(pos) \union {at}
  BY SMTT(30), <1>2 DEF Occurring
<1> QED
  BY <1>2, <1>3, <1>5, <1>6, <1>7 DEF InTransit, q, ev

(* Receiving takes the first event out of transit and leaves the others there. *)
LEMMA TransitReceive ==
  ASSUME NEW root \in DOMAIN Tree, NEW at \in Nat, NEW events \in Seq(Entries), events # <<>>,
         NEW pos \in Seq(Nat), InTransit(root, at, events, pos)
  PROVE  /\ Tail(pos) \in Seq(Nat) /\ InTransit(root, at, Tail(events), Tail(pos))
         /\ Head(pos) \in DOMAIN Tree[root] /\ Head(pos) < at
         /\ Head(events) = Tree[root][Head(pos)] /\ Head(events) # "other"
         /\ Head(pos) \notin Occurring(Tail(pos))
         /\ Occurring(pos) = Occurring(Tail(pos)) \union {Head(pos)}
<1> DEFINE q == Tail(pos)
           ev == Tail(events)
<1>1. Len(pos) = Len(events) /\ Len(events) # 0 /\ Len(events) \in Nat /\ pos # <<>>
  BY EmptySeq DEF InTransit
<1>2. /\ q \in Seq(Nat) /\ Head(pos) = pos[1] /\ Len(q) = Len(pos) - 1
      /\ \A i \in 1..Len(q) : q[i] = pos[i + 1]
      /\ DOMAIN q = 1..Len(q) /\ DOMAIN pos = 1..Len(pos)
  BY <1>1, HeadTailProperties
<1>3. /\ Head(events) = events[1] /\ Len(ev) = Len(events) - 1
      /\ \A i \in 1..Len(ev) : ev[i] = events[i + 1]
  BY SMTT(30), <1>1, HeadTailProperties
<1> HIDE DEF q, ev
<1>4. 1 \in DOMAIN pos /\ \A i \in DOMAIN q : i + 1 \in DOMAIN pos /\ i + 1 # 1
  BY <1>1, <1>2
<1>5. /\ Head(pos) \in DOMAIN Tree[root] /\ Head(pos) < at
      /\ Head(events) = Tree[root][Head(pos)] /\ Head(events) # "other"
  BY <1>2, <1>3, <1>4 DEF InTransit
<1>6. Distinct(q)
  <2> SUFFICES ASSUME NEW i \in DOMAIN q, NEW j \in DOMAIN q, q[i] = q[j] PROVE i = j
    BY DEF Distinct
  <2>1. pos[i + 1] = pos[j + 1] /\ i + 1 \in DOMAIN pos /\ j + 1 \in DOMAIN pos
    BY <1>2, <1>4
  <2>2. i + 1 = j + 1
    BY <2>1 DEF InTransit, Distinct
  <2> QED
    BY <1>1, <1>2, <2>2
<1>7. \A i \in DOMAIN q : /\ q[i] \in DOMAIN Tree[root] /\ q[i] < at
                          /\ ev[i] = Tree[root][q[i]] /\ ev[i] # "other"
  <2> SUFFICES ASSUME NEW i \in DOMAIN q
               PROVE  /\ q[i] \in DOMAIN Tree[root] /\ q[i] < at
                      /\ ev[i] = Tree[root][q[i]] /\ ev[i] # "other"
    OBVIOUS
  <2>1. i + 1 \in DOMAIN pos /\ q[i] = pos[i + 1] /\ ev[i] = events[i + 1]
    BY <1>1, <1>2, <1>3, <1>4
  <2> QED
    BY <2>1 DEF InTransit
<1>8. Head(pos) \notin Occurring(q)
  <2> SUFFICES ASSUME NEW i \in DOMAIN q, q[i] = Head(pos) PROVE FALSE
    BY DEF Occurring
  <2>1. pos[i + 1] = pos[1] /\ i + 1 \in DOMAIN pos /\ i + 1 # 1
    BY <1>2, <1>4
  <2>2. \A j, k \in DOMAIN pos : pos[j] = pos[k] => j = k
    BY DEF InTransit, Distinct
  <2> QED
    BY <1>4, <2>1, <2>2
<1>9. Occurring(pos) = Occurring(q) \union {Head(pos)}
  <2>1. \A i \in DOMAIN pos : i = 1 \/ (i - 1 \in DOMAIN q /\ q[i - 1] = pos[i])
    <3> SUFFICES ASSUME NEW i \in DOMAIN pos, i # 1 PROVE i - 1 \in DOMAIN q /\ q[i - 1] = pos[i]
      OBVIOUS
    <3>0. i \in 1..Len(pos) /\ Len(pos) \in Nat /\ Len(q) = Len(pos) - 1
      BY <1>1, <1>2
    <3>1. i - 1 \in 1..Len(q) /\ (i - 1) + 1 = i
      BY <3>0
    <3> QED
      BY <1>2, <3>1
  <2>2. Occurring(pos) \subseteq Occurring(q) \union {Head(pos)}
    BY <1>2, <2>1 DEF Occurring
  <2>3. Occurring(q) \subseteq Occurring(pos) /\ Head(pos) \in Occurring(pos)
    BY SMTT(30), <1>2, <1>4 DEF Occurring
  <2> QED
    BY <2>2, <2>3
<1> QED
  BY <1>1, <1>2, <1>3, <1>5, <1>6, <1>7, <1>8, <1>9 DEF InTransit, q, ev

(* A sequence of files that gets one more. *)
LEMMA OneMoreFile ==
  ASSUME NEW found \in Seq(Files), NEW file \in Files
  PROVE  /\ Append(found, file) \in Seq(Files) /\ Len(Append(found, file)) = Len(found) + 1
         /\ Occurring(Append(found, file)) = Occurring(found) \union {file}
         /\ Distinct(found) /\ file \notin Occurring(found) => Distinct(Append(found, file))
<1> DEFINE q == Append(found, file)
<1>1. /\ q \in Seq(Files) /\ Len(q) = Len(found) + 1 /\ q[Len(found) + 1] = file
      /\ \A i \in 1..Len(found) : q[i] = found[i]
      /\ DOMAIN q = 1..(Len(found) + 1) /\ DOMAIN found = 1..Len(found) /\ Len(found) \in Nat
  BY AppendProperties
<1> HIDE DEF q
<1>2. \A k \in DOMAIN q : k \in DOMAIN found \/ (k = Len(found) + 1 /\ q[k] = file)
  BY <1>1
<1>3. Occurring(q) = Occurring(found) \union {file}
  BY <1>1, <1>2 DEF Occurring
<1>4. ASSUME Distinct(found), file \notin Occurring(found) PROVE Distinct(q)
  <2> SUFFICES ASSUME NEW i \in DOMAIN q, NEW j \in DOMAIN q, q[i] = q[j] PROVE i = j
    BY DEF Distinct
  <2>1. \A k \in DOMAIN found : q[k] # file
    BY <1>1, <1>4 DEF Occurring
  <2> QED
    BY <1>1, <1>2, <1>4, <2>1 DEF Distinct
<1> QED
  BY <1>1, <1>3, <1>4 DEF q

(* What one more event does to the tally, in its three ways. *)
LEMMA TallyMore ==
  ASSUME NEW found \in Seq(Files), NEW skipped \in Nat, NEW failed \in Nat, NEW got,
         Tally(found, skipped, failed, got), NEW e, e \notin got,
         NEW event, event = Tree[e[1]][e[2]]
  PROVE  /\ event = "broken" => Tally(found, skipped, failed + 1, got \union {e})
         /\ event \in Occurring(found) => Tally(found, skipped + 1, failed, got \union {e})
         /\ event \in Files \ Occurring(found) =>
               Tally(Append(found, event), skipped, failed, got \union {e})
<1> DEFINE more == got \union {e}
<1>1. IsFiniteSet(got) /\ Cardinality(got) = Len(found) + skipped + failed /\ Len(found) \in Nat
  BY DEF Tally
<1>2. IsFiniteSet(more) /\ Cardinality(more) = Cardinality(got) + 1
  BY <1>1, FS_AddElement
<1>3. NamesOf(more) = NamesOf(got) \union {event}
  BY DEF NamesOf
<1>4. Distinct(found) /\ Occurring(found) = NamesOf(got) \ {"broken"}
  BY DEF Tally
<1>5. \A f \in Files : f # "broken"
  BY ScanAssumption DEF ScanAssumption
<1> HIDE DEF more
<1>6. ASSUME event = "broken" PROVE Tally(found, skipped, failed + 1, more)
  <2>1. Occurring(found) = NamesOf(more) \ {"broken"}
    BY <1>3, <1>4, <1>6
  <2> QED
    BY <1>1, <1>2, <1>4, <2>1 DEF Tally
<1>7. ASSUME event \in Occurring(found) PROVE Tally(found, skipped + 1, failed, more)
  <2>1. Occurring(found) = NamesOf(more) \ {"broken"}
    BY <1>3, <1>4, <1>7
  <2> QED
    BY <1>1, <1>2, <1>4, <2>1 DEF Tally
<1>8. ASSUME event \in Files \ Occurring(found)
      PROVE  Tally(Append(found, event), skipped, failed, more)
  <2>1. /\ Occurring(Append(found, event)) = Occurring(found) \union {event}
        /\ Distinct(Append(found, event)) /\ Len(Append(found, event)) = Len(found) + 1
    BY <1>4, <1>8, OneMoreFile
  <2>2. Occurring(Append(found, event)) = NamesOf(more) \ {"broken"}
    BY <1>3, <1>4, <1>5, <1>8, <2>1
  <2> QED
    BY <1>1, <1>2, <2>1, <2>2 DEF Tally
<1> QED
  BY <1>6, <1>7, <1>8 DEF more

(* A walk begins with an empty channel, and what it does not send does not count. *)
LEMMA ArrivedStart ==
  ASSUME NEW root \in DOMAIN Tree, NEW found, NEW skipped, NEW failed,
         Tally(found, skipped, failed, Before(root))
  PROVE  Arrived(root, 1, <<>>, found, skipped, failed)
<1>1. <<>> \in Seq(Nat) /\ InTransit(root, 1, <<>>, <<>>)
  BY DEF InTransit, Distinct
<1>2. Received(root, 1, <<>>) = Before(root)
  BY Bounds, TreeShape
<1> QED
  BY <1>1, <1>2 DEF Arrived

(* An entry that is not sent changes nothing about what has arrived. *)
LEMMA ArrivedPass ==
  ASSUME NEW root \in DOMAIN Tree, NEW at \in DOMAIN Tree[root], Tree[root][at] = "other",
         NEW events, NEW found, NEW skipped, NEW failed,
         Arrived(root, at, events, found, skipped, failed)
  PROVE  Arrived(root, at + 1, events, found, skipped, failed)
<1>1. PICK pos \in Seq(Nat) : /\ InTransit(root, at, events, pos)
                              /\ Tally(found, skipped, failed, Received(root, at, pos))
  BY DEF Arrived
<1>2. Received(root, at + 1, pos) = Received(root, at, pos)
  BY ReceivedPass
<1>3. InTransit(root, at + 1, events, pos)
  <2>1. at \in Nat /\ \A i \in DOMAIN Tree[root] : i \in Nat /\ (i < at => i < at + 1)
    BY TreeShape
  <2> QED
    BY <1>1, <2>1 DEF InTransit
<1> QED
  BY <1>1, <1>2, <1>3 DEF Arrived

(* An entry that is sent is in the channel until it is received. *)
LEMMA ArrivedSend ==
  ASSUME NEW root \in DOMAIN Tree, NEW at \in DOMAIN Tree[root], Tree[root][at] # "other",
         NEW events \in Seq(Entries), NEW found, NEW skipped, NEW failed,
         Arrived(root, at, events, found, skipped, failed)
  PROVE  Arrived(root, at + 1, Append(events, Tree[root][at]), found, skipped, failed)
<1>1. PICK pos \in Seq(Nat) : /\ InTransit(root, at, events, pos)
                              /\ Tally(found, skipped, failed, Received(root, at, pos))
  BY DEF Arrived
<1>2. /\ Append(pos, at) \in Seq(Nat)
      /\ InTransit(root, at + 1, Append(events, Tree[root][at]), Append(pos, at))
      /\ Occurring(Append(pos, at)) = Occurring(pos) \union {at}
  BY <1>1, TransitSend
<1>3. Received(root, at + 1, Append(pos, at)) = Received(root, at, pos)
  BY <1>2, ReceivedPass
<1> QED
  BY <1>1, <1>2, <1>3 DEF Arrived

(* The scan takes an event out of the channel. *)
LEMMA ArrivedReceive ==
  ASSUME NEW root \in DOMAIN Tree, NEW at \in Nat, NEW events \in Seq(Entries), events # <<>>,
         NEW found \in Seq(Files), NEW skipped \in Nat, NEW failed \in Nat,
         Arrived(root, at, events, found, skipped, failed)
  PROVE  LET event == Head(events) IN
         /\ event \in Files \union {"broken"}
         /\ event = "broken" => Arrived(root, at, Tail(events), found, skipped, failed + 1)
         /\ event \in Occurring(found) =>
               Arrived(root, at, Tail(events), found, skipped + 1, failed)
         /\ event \in Files \ Occurring(found) =>
               Arrived(root, at, Tail(events), Append(found, event), skipped, failed)
<1> DEFINE event == Head(events)
<1>1. PICK pos \in Seq(Nat) : /\ InTransit(root, at, events, pos)
                              /\ Tally(found, skipped, failed, Received(root, at, pos))
  BY DEF Arrived
<1> DEFINE e == <<root, Head(pos)>>
           got == Received(root, at, pos)
<1>2. /\ Tail(pos) \in Seq(Nat) /\ InTransit(root, at, Tail(events), Tail(pos))
      /\ Head(pos) \in DOMAIN Tree[root] /\ Head(pos) < at
      /\ event = Tree[root][Head(pos)] /\ event # "other"
      /\ Head(pos) \notin Occurring(Tail(pos))
      /\ Occurring(pos) = Occurring(Tail(pos)) \union {Head(pos)}
  BY <1>1, TransitReceive
<1>3. event \in Files \union {"broken"}
  BY <1>2, TreeShape DEF Entries
<1>4. e \in Events /\ e[1] = root /\ e[2] = Head(pos) /\ event = Tree[e[1]][e[2]]
  BY <1>2, EventIs
<1>5. e \notin got
  <2>1. ~(root < root) /\ e[2] \in Occurring(pos)
    BY <1>2, <1>4, TreeShape
  <2> QED
    BY <1>4, <2>1 DEF Received
<1>6. Received(root, at, Tail(pos)) = got \union {e}
  <2>1. ASSUME NEW x \in Events, x[1] = root, x[2] = Head(pos) PROVE x = e
    BY <2>1, EventIs
  <2> HIDE DEF e
  <2> QED
    BY <1>2, <1>4, <2>1 DEF Received
<1> HIDE DEF event, e, got
<1>7. /\ event = "broken" => Tally(found, skipped, failed + 1, got \union {e})
      /\ event \in Occurring(found) => Tally(found, skipped + 1, failed, got \union {e})
      /\ event \in Files \ Occurring(found) =>
            Tally(Append(found, event), skipped, failed, got \union {e})
  BY <1>1, <1>4, <1>5, TallyMore DEF got
<1>8. ASSUME NEW f, NEW s, NEW x, Tally(f, s, x, got \union {e})
      PROVE  Arrived(root, at, Tail(events), f, s, x)
  BY <1>2, <1>6, <1>8 DEF Arrived
<1> QED
  BY <1>3, <1>7, <1>8 DEF event

(* A listing that has been met to its end and an empty channel: everything was received. *)
LEMMA ArrivedEnd ==
  ASSUME NEW root \in DOMAIN Tree, NEW at \in Nat, at > Len(Tree[root]),
         NEW found, NEW skipped, NEW failed,
         Arrived(root, at, <<>>, found, skipped, failed)
  PROVE  Tally(found, skipped, failed, Before(root + 1))
<1>1. PICK pos \in Seq(Nat) : /\ InTransit(root, at, <<>>, pos)
                              /\ Tally(found, skipped, failed, Received(root, at, pos))
  BY DEF Arrived
<1>2. Occurring(pos) = {}
  <2>1. Len(pos) = 0
    BY <1>1 DEF InTransit
  <2> QED
    BY <2>1 DEF Occurring
<1>3. ASSUME NEW e \in Events
      PROVE  /\ e[1] \in Nat /\ root \in Nat
             /\ e[1] = root => e[2] < at
  BY EventIs, TreeShape
<1>4. Received(root, at, pos) = Before(root + 1)
  BY <1>2, <1>3 DEF Received, Before
<1> QED
  BY <1>1, <1>4

(* The tally of everything: each event counts once, each file is a candidate once. *)
LEMMA TallyAll ==
  ASSUME NEW found, NEW skipped, NEW failed, Tally(found, skipped, failed, Events)
  PROVE  /\ Cardinality(Events) = Len(found) + skipped + failed
         /\ Distinct(found) /\ Occurring(found) = Expected
<1>1. NamesOf(Events) \ {"broken"} = Expected
  <2>1. ASSUME NEW n \in NamesOf(Events), n # "broken" PROVE n \in Expected
    <3>1. PICK e \in Events : n = Tree[e[1]][e[2]]
      BY <2>1 DEF NamesOf
    <3>2. PICK r \in DOMAIN Tree : \E i \in DOMAIN Tree[r] : Tree[r][i] # "other" /\ e = <<r, i>>
      BY EventIs
    <3>3. PICK i \in DOMAIN Tree[r] : Tree[r][i] # "other" /\ e = <<r, i>>
      BY <3>2
    <3>4. n = Tree[r][i] /\ n \in Files
      BY <2>1, <3>1, <3>3, TreeShape DEF Entries
    <3> QED
      BY <3>4 DEF Expected
  <2>2. ASSUME NEW n \in Expected PROVE n \in NamesOf(Events) /\ n # "broken"
    <3>1. n # "broken" /\ n # "other"
      BY ScanAssumption DEF ScanAssumption, Expected
    <3>2. PICK r \in DOMAIN Tree : \E i \in DOMAIN Tree[r] : n = Tree[r][i]
      BY DEF Expected
    <3>3. PICK i \in DOMAIN Tree[r] : n = Tree[r][i]
      BY <3>2
    <3>4. <<r, i>> \in Events
      BY <3>1, <3>3, EventIs
    <3>5. Tree[<<r, i>>[1]][<<r, i>>[2]] = n
      BY <3>3
    <3> QED
      BY <3>1, <3>4, <3>5 DEF NamesOf
  <2> QED
    BY <2>1, <2>2
<1> QED
  BY <1>1 DEF Tally

-------------------------------------------------------------------------------
(* The flags: pause and cancel.                                                *)

USE DEF flags, handlers, guard, walking, history

Begins == scan.pc = "reserved" /\ scan'.pc # "reserved"

(* A scan begins afresh, at the first directory or, without one, at the rows, or it fails at once. *)
LEMMA BeginningIs ==
  ASSUME BeginScan
  PROVE  /\ scan'.look = FALSE /\ scan'.root = 1 /\ scan'.found = <<>>
         /\ scan'.skipped = 0 /\ scan'.failed = 0 /\ scan'.queued = 0
         /\ scan'.todo = 0 /\ scan'.tasks = 0 /\ scan'.ready = 0
         /\ \/ /\ scan'.result = "none"
               /\ scan'.pc = IF Tree = <<>> THEN "load" ELSE "root"
            \/ scan'.result = "failed" /\ scan'.pc = "ending"
<1>1. CASE scan' = [FreshScan EXCEPT !.pc = IF Tree = <<>> THEN "load" ELSE "root"]
  BY <1>1 DEF FreshScan
<1>2. CASE scan' = [FreshScan EXCEPT !.pc = "ending", !.result = "failed"]
  BY <1>2 DEF FreshScan
<1> QED
  BY <1>1, <1>2 DEF BeginScan

(* What steps do to the flags, and what a scan that looks has seen of them. *)
LEMMA FlagMoves ==
  ASSUME TypeOK, UserNext \/ HandlerNext \/ ScanNext \/ \E w \in Walks : WalkNext(w)
  PROVE  /\ canceller' /\ ~canceller => cancelled'
         /\ cancelled' /\ ~cancelled => canceller' /\ ~canceller
         /\ paused /\ ~paused' => canceller \/ resumer' # resumer
         /\ paused' /\ ~paused => canceller' = canceller
         /\ Begins => ~cancelled' /\ scan'.result # "cancelled" /\ canceller' = canceller
         /\ scan'.look /\ ~scan.look => ~cancelled /\ ~cancelled'
<1> USE DEF TypeOK
<1>1. CASE UserNext \/ HandlerNext
  <2>1. scan' = scan \/ scan' = [scan EXCEPT !.pc = "reserved"]
    <3>1. CASE StartScan
      BY <3>1 DEF StartScan
    <3>2. CASE ~StartScan
      BY <1>1, <3>2 DEF UserNext, HandlerNext, PauseScan, ResumeFirst, CancelFirst,
                        StartRestore, ResumeSecond, CancelSecond, EndRestore
    <3> QED
      BY <3>1, <3>2
  <2>2. scan'.look = scan.look
    BY <2>1
  <2>3. ~Begins
    BY <2>1 DEF Begins
  <2>4. /\ canceller' /\ ~canceller => cancelled'
        /\ cancelled' /\ ~cancelled => canceller' /\ ~canceller
        /\ paused /\ ~paused' => canceller \/ resumer' # resumer
        /\ paused' /\ ~paused => canceller' = canceller
    <3>1. CASE PauseScan
      BY <3>1 DEF PauseScan
    <3>2. CASE StartScan \/ StartRestore \/ EndRestore
      <4>1. UNCHANGED <<flags, handlers>>
        BY <3>2 DEF StartScan, StartRestore, EndRestore
      <4> QED
        BY <4>1
    <3>3. CASE ResumeFirst
      BY <3>3 DEF ResumeFirst
    <3>4. CASE ResumeSecond
      BY <3>4 DEF ResumeSecond
    <3>5. CASE CancelFirst
      BY <3>5 DEF CancelFirst
    <3>6. CASE CancelSecond
      BY <3>6 DEF CancelSecond
    <3> QED
      BY <1>1, <3>1, <3>2, <3>3, <3>4, <3>5, <3>6 DEF UserNext, HandlerNext
  <2> QED
    BY <2>2, <2>3, <2>4
<1>2. CASE BeginScan
  <2>1. cancelled' = FALSE /\ UNCHANGED <<paused, handlers>>
    BY <1>2 DEF BeginScan
  <2>2. scan'.result \in {"none", "failed"} /\ scan'.look = FALSE
    BY <1>2, BeginningIs
  <2> QED
    BY <2>1, <2>2
<1>3. CASE ClearAgain
  <2>1. cancelled' = FALSE /\ UNCHANGED <<paused, handlers>> /\ scan'.look = scan.look /\ ~Begins
    BY <1>3 DEF ClearAgain, Begins
  <2> QED
    BY <2>1
<1>4. CASE ScanNext /\ ~BeginScan /\ ~ClearAgain
  <2>1. UNCHANGED <<flags, handlers>> /\ scan.pc # "reserved"
    BY <1>4 DEF ScanNext, SettleProgress, ReleaseScan, LookCancelled, SleepPaused, ScanCancelled,
                SpawnWalk, WalkTurn, CancelWalk, RecvEvent, RecvTimeout, JoinWalk, LoadRows,
                LoadRowsError, FilterTurn, DrainTurn, DrainEnd, EnqueueTurn, EnqueueError,
                EnqueueEnd, Waiting, Turn
  <2>2. CASE LookCancelled
    BY <2>1, <2>2 DEF LookCancelled, Begins
  <2>3. CASE ~LookCancelled
    <3>1. scan'.look => scan.look
      <4>1. CASE SettleProgress \/ ReleaseScan \/ SleepPaused \/ ScanCancelled \/ CancelWalk
                 \/ LoadRowsError \/ EnqueueError \/ EnqueueEnd
        BY <4>1 DEF SettleProgress, ReleaseScan, SleepPaused, ScanCancelled, CancelWalk,
                    LoadRowsError, EnqueueError, EnqueueEnd, Ending
      <4>2. CASE SpawnWalk \/ WalkTurn \/ RecvEvent \/ RecvTimeout \/ JoinWalk
        BY <4>2 DEF SpawnWalk, WalkTurn, RecvEvent, RecvTimeout, JoinWalk, Ending
      <4>3. CASE LoadRows \/ FilterTurn \/ DrainTurn \/ DrainEnd \/ EnqueueTurn
        BY <4>3 DEF LoadRows, FilterTurn, DrainTurn, DrainEnd, EnqueueTurn, Judged
      <4> QED
        BY <1>4, <2>3, <4>1, <4>2, <4>3 DEF ScanNext
    <3> QED
      BY <2>1, <3>1 DEF Begins
  <2> QED
    BY <2>2, <2>3
<1>5. CASE \E w \in Walks : WalkNext(w)
  <2>1. UNCHANGED <<flags, handlers, scan>>
    BY <1>5 DEF WalkNext, WalkStart, WalkLook, WalkSleep, WalkVisit, WalkStopped, WalkSend,
                WalkUnheard, WalkEnd
  <2> QED
    BY <2>1 DEF Begins
<1> QED
  BY <1>1, <1>2, <1>3, <1>4, <1>5

(* A pause holds until a cancel lifts it, and the scan then takes only the turn for *)
(* which it had already looked.                                                     *)
LEMMA NextPause == ASSUME TypeOK, PauseInv, [Next]_vars PROVE PauseInv'
<1>1. CASE UNCHANGED vars
  BY <1>1 DEF vars, PauseInv
<1>2. CASE Next
  <2> DEFINE clears == Begins \/ resumer' # resumer \/ (cancelled /\ ~cancelled')
  <2>1. /\ halted' = (~clears /\ (halted \/ (paused' /\ ~paused /\ ~canceller)))
        /\ turns' = IF clears \/ ~halted THEN 0
                    ELSE IF scan.look /\ ~scan'.look /\ ~paused THEN turns + 1 ELSE turns
    BY <1>2 DEF Next, Observe, Begins
  <2>2. /\ canceller' /\ ~canceller => cancelled'
        /\ paused /\ ~paused' => canceller \/ resumer' # resumer
        /\ paused' /\ ~paused => canceller' = canceller
        /\ scan'.look /\ ~scan.look => ~cancelled
    BY <1>2, FlagMoves DEF Next
  <2> HIDE DEF Begins
  <2>3. halted' /\ (canceller' \/ ~paused') => cancelled'
    BY <2>1, <2>2 DEF PauseInv
  <2>4. CASE clears \/ ~halted
    BY <2>1, <2>3, <2>4 DEF PauseInv
  <2>5. CASE ~clears /\ halted
    <3>1. halted' /\ (cancelled => cancelled')
      BY <2>1, <2>5
    <3>2. CASE scan.look /\ ~scan'.look /\ ~paused
      <4>1. turns = 0 /\ cancelled
        BY <2>5, <3>2 DEF PauseInv
      <4> QED
        BY <2>1, <2>3, <2>5, <3>1, <3>2, <4>1 DEF PauseInv
    <3>3. CASE ~(scan.look /\ ~scan'.look /\ ~paused)
      <4>1. turns' = turns
        BY <2>1, <2>5, <3>3
      <4> QED
        BY <2>2, <2>3, <3>1, <4>1 DEF PauseInv
    <3> QED
      BY <3>2, <3>3
  <2> QED
    BY <2>4, <2>5
<1> QED
  BY <1>1, <1>2

(* Only the cancel flag, or a walk that it stopped, makes the outcome "cancelled". *)
LEMMA OutcomeMoves ==
  ASSUME TypeOK, UserNext \/ HandlerNext \/ ScanNext \/ \E w \in Walks : WalkNext(w),
         scan'.result = "cancelled", scan.result # "cancelled"
  PROVE  cancelled \/ (scan.pc = "recv" /\ walk[spawned].stopped)
<1> USE DEF TypeOK
<1>1. CASE UserNext \/ HandlerNext \/ \E w \in Walks : WalkNext(w)
  <2>1. scan'.result = scan.result
    BY <1>1 DEF UserNext, HandlerNext, PauseScan, ResumeFirst, CancelFirst, StartScan,
                StartRestore, ResumeSecond, CancelSecond, EndRestore, WalkNext, WalkStart,
                WalkLook, WalkSleep, WalkVisit, WalkStopped, WalkSend, WalkUnheard, WalkEnd
  <2> QED
    BY <2>1
<1>2. CASE ScanCancelled \/ CancelWalk
  BY <1>2 DEF ScanCancelled, CancelWalk
<1>3. CASE JoinWalk
  <2>1. CASE scan' = Ending("failed")
    BY <2>1 DEF Ending
  <2>2. CASE scan' # Ending("failed")
    BY <1>3, <2>2 DEF JoinWalk
  <2> QED
    BY <2>1, <2>2
<1>4. CASE ScanNext /\ ~ScanCancelled /\ ~CancelWalk /\ ~JoinWalk
  BY <1>4 DEF ScanNext, BeginScan, SettleProgress, ClearAgain, ReleaseScan, LookCancelled,
              SleepPaused, SpawnWalk, WalkTurn, RecvEvent, RecvTimeout, LoadRows, LoadRowsError,
              FilterTurn, DrainTurn, DrainEnd, EnqueueTurn, EnqueueError, EnqueueEnd,
              FreshScan, Ending, Judged
<1> QED
  BY <1>1, <1>2, <1>3, <1>4

(* A cancel that is seen, by the scan or by the thread of its walk, was asked for. *)
LEMMA NextAsk ==
  ASSUME TypeOK, WalksInv, RootInv, AskInv, [Next]_vars
  PROVE  AskInv' /\ (asked /\ ~asked' => scan.pc = "reserved")
<1>1. CASE UNCHANGED vars
  BY <1>1 DEF vars, AskInv
<1>2. CASE Next
  <2>1. asked' = (~Begins /\ (asked \/ (canceller' /\ ~canceller)))
    BY <1>2 DEF Next, Observe, Begins
  <2>2. /\ cancelled' /\ ~cancelled => canceller' /\ ~canceller
        /\ Begins => ~cancelled' /\ scan'.result # "cancelled"
    BY <1>2, FlagMoves DEF Next
  <2>3. Begins => scan.pc = "reserved"
    BY DEF Begins
  <2> HIDE DEF Begins
  <2>4. cancelled' => asked'
    BY <2>1, <2>2 DEF AskInv
  <2>5. ASSUME scan'.result = "cancelled" PROVE asked
    <3>1. CASE scan.result = "cancelled"
      BY <3>1 DEF AskInv
    <3>2. CASE scan.result # "cancelled"
      <4>1. cancelled \/ (scan.pc = "recv" /\ walk[spawned].stopped)
        BY <1>2, <2>5, <3>2, OutcomeMoves DEF Next
      <4>2. CASE scan.pc = "recv" /\ walk[spawned].stopped
        <5>1. spawned \in Walks /\ walk[spawned].heard
          BY <4>2, TreeShape, ScanAssumption DEF RootInv, TypeOK, Walks, ScanAssumption
        <5> QED
          BY <4>2, <5>1 DEF WalksInv, WalkFits, ThreadFits
      <4> QED
        BY <4>1, <4>2 DEF AskInv
    <3> QED
      BY <3>1, <3>2
  <2>6. scan'.result = "cancelled" => asked'
    BY <2>1, <2>2, <2>5
  <2> QED
    BY <2>1, <2>3, <2>4, <2>6 DEF AskInv
<1> QED
  BY <1>1, <1>2

-------------------------------------------------------------------------------
(* Types and the frame: one part for each of the requests, the task, the threads. *)

ScanType ==
    [pc : ScanPoints, look : BOOLEAN, root : 1..(Len(Tree) + 1),
     found : Seq(Files), skipped : Nat, queued : Nat, failed : Nat, todo : Nat,
     tasks : 0..Concurrency, ready : Nat, result : {"none"} \union Outcomes]

FlagsOK ==
    /\ flags \in BOOLEAN \X BOOLEAN
    /\ handlers \in BOOLEAN \X BOOLEAN \X (0..MaxRequests)
    /\ guard \in BOOLEAN \X BOOLEAN \X (0..MaxScans)
    /\ stage \in {"idle", "working"} \union Outcomes

ScanOK ==
    /\ scan \in ScanType
    /\ scan.look => Waiting
    /\ scan.todo + scan.tasks + scan.ready <= Len(scan.found)

WalkType == [pc : WalkPoints, root : DOMAIN Tree, at : Nat \ {0},
             look : BOOLEAN, stopped : BOOLEAN, heard : BOOLEAN]

WalksOK ==
    /\ walk \in [Walks -> WalkType]
    /\ chan \in [Walks -> Seq(Entries)]
    /\ spawned \in 0..(MaxScans * Len(Tree))
    /\ \A w \in Walks : /\ Len(chan[w]) <= Buffer
                        /\ walk[w].heard => w = spawned /\ scan.pc \in {"walk", "recv"}

(* The type invariant, in its three parts. *)
LEMMA TypeIs == TypeOK <=> FlagsOK /\ ScanOK /\ WalksOK
  BY DEF TypeOK, FlagsOK, ScanOK, ScanType, WalksOK, WalkType

(* The steps of a scan between its beginning and its end. *)
Work ==
    \/ LookCancelled \/ SleepPaused \/ ScanCancelled
    \/ SpawnWalk \/ WalkTurn \/ CancelWalk \/ RecvEvent \/ RecvTimeout \/ JoinWalk
    \/ LoadRows \/ LoadRowsError \/ FilterTurn \/ DrainTurn \/ DrainEnd
    \/ EnqueueTurn \/ EnqueueError \/ EnqueueEnd

Frame == BeginScan \/ SettleProgress \/ ClearAgain \/ ReleaseScan

(* The kinds of steps: handlers, the frame, the threads and the scan's own work. *)
LEMMA StepCases ==
  ASSUME Next
  PROVE  UserNext \/ HandlerNext \/ Frame \/ Work \/ \E w \in Walks : WalkNext(w)
  BY DEF Next, ScanNext, Frame, Work

(* They touch nothing else, and lead on or to the end. *)
LEMMA WorkMoves ==
  ASSUME ScanOK, FrameInv, Work
  PROVE  /\ UNCHANGED <<flags, handlers, guard, stage>>
         /\ scan.pc \in Walking \union Sifting
         /\ \/ scan'.pc \in Walking \union Sifting /\ scan'.result = scan.result
            \/ scan'.pc = "ending" /\ scan'.result \in Outcomes
<1> USE DEF ScanOK, ScanType, Walking, Sifting
<1>1. CASE LookCancelled \/ SleepPaused
  BY <1>1 DEF LookCancelled, SleepPaused, Waiting
<1>2. CASE ScanCancelled \/ CancelWalk \/ LoadRowsError \/ EnqueueError \/ EnqueueEnd
  BY <1>2 DEF ScanCancelled, CancelWalk, LoadRowsError, EnqueueError, EnqueueEnd, Ending,
              Waiting, Turn, Outcomes
<1>3. CASE JoinWalk
  <2>1. \/ scan' = Ending("cancelled") \/ scan' = Ending("failed")
        \/ scan' = [scan EXCEPT !.pc = IF scan.root = Len(Tree) THEN "load" ELSE "root",
                                !.root = @ + 1]
    BY <1>3 DEF JoinWalk
  <2> QED
    BY <1>3, <2>1 DEF JoinWalk, Ending, Outcomes
<1>4. CASE SpawnWalk \/ WalkTurn \/ RecvEvent \/ RecvTimeout \/ LoadRows \/ DrainEnd
  BY <1>4 DEF SpawnWalk, WalkTurn, RecvEvent, RecvTimeout, LoadRows, DrainEnd, Turn
<1>5. CASE FilterTurn
  <2>1. UNCHANGED <<flags, handlers, guard, stage>> /\ scan.pc = "filter"
    BY <1>5 DEF FilterTurn, Turn
  <2>2. scan'.pc \in {"filter", "drain"} /\ scan'.result = scan.result
    <3>1. CASE scan.tasks < Concurrency
      BY <1>5, <3>1 DEF FilterTurn
    <3>2. CASE ~(scan.tasks < Concurrency)
      BY <1>5, <3>2 DEF FilterTurn, Judged
    <3> QED
      BY <3>1, <3>2
  <2> QED
    BY <2>1, <2>2
<1>6. CASE DrainTurn \/ EnqueueTurn
  BY <1>6 DEF DrainTurn, EnqueueTurn, Turn, Judged
<1> QED
  BY <1>1, <1>2, <1>3, <1>4, <1>5, <1>6 DEF Work

(* A step of a walking thread leaves the scan alone. *)
LEMMA ThreadMoves ==
  ASSUME NEW w \in Walks, WalkNext(w)
  PROVE  UNCHANGED <<flags, handlers, guard, stage, scan, spawned>>
  BY DEF WalkNext, WalkStart, WalkLook, WalkSleep, WalkVisit, WalkStopped, WalkSend,
         WalkUnheard, WalkEnd

(* A request or a handler changes the task only in that a scan is accepted. *)
LEMMA RequestMoves ==
  ASSUME UserNext \/ HandlerNext, ~StartScan
  PROVE  UNCHANGED <<scans, stage, scan, walking>>
  BY DEF UserNext, HandlerNext, PauseScan, ResumeFirst, CancelFirst, StartRestore, ResumeSecond,
         CancelSecond, EndRestore

(* Every step preserves what the guard and the progress of a scan have to do with its control point. *)
LEMMA NextFrame ==
  ASSUME FlagsOK, ScanOK, FrameInv, [Next]_vars
  PROVE  FlagsOK' /\ FrameInv'
<1> USE DEF FlagsOK, FrameInv, GuardCoversScan
<1>1. CASE UNCHANGED vars
  BY <1>1 DEF vars
<1>2. CASE PauseScan \/ ResumeFirst \/ CancelFirst \/ ResumeSecond \/ CancelSecond
  <2>1. UNCHANGED <<guard, stage, scan>>
    BY <1>2 DEF PauseScan, ResumeFirst, CancelFirst, ResumeSecond, CancelSecond
  <2>2. paused' \in BOOLEAN /\ cancelled' \in BOOLEAN /\ canceller' \in BOOLEAN /\ resumer' \in BOOLEAN
    BY <1>2 DEF PauseScan, ResumeFirst, CancelFirst, ResumeSecond, CancelSecond
  <2>3. requests' \in 0..MaxRequests
    BY <1>2, ScanAssumption
    DEF PauseScan, ResumeFirst, CancelFirst, ResumeSecond, CancelSecond, MayRequest, ScanAssumption
  <2> QED
    BY <2>1, <2>2, <2>3
<1>3. CASE StartScan
  <2>1. /\ UNCHANGED <<flags, handlers, restoring, stage>> /\ ~running
        /\ running' = TRUE /\ scans' \in 0..MaxScans /\ scan' = [scan EXCEPT !.pc = "reserved"]
    BY <1>3, ScanAssumption DEF StartScan, ScanAssumption
  <2>2. scan'.pc = "reserved" /\ ~restoring /\ scan.pc = "off"
    BY <2>1 DEF ScanOK, ScanType
  <2> QED
    BY <2>1, <2>2 DEF Walking, Sifting
<1>4. CASE StartRestore \/ EndRestore
  <2>1. /\ UNCHANGED <<flags, handlers, scans, stage, scan>> /\ running' = restoring'
        /\ restoring' \in BOOLEAN /\ scan.pc = "off"
    BY <1>4 DEF StartRestore, EndRestore
  <2> QED
    BY <2>1
<1>5. CASE Frame
  <2>1. CASE BeginScan
    <3>1. /\ cancelled' = FALSE /\ stage' = "working" /\ UNCHANGED <<paused, handlers, guard>>
          /\ scan.pc = "reserved"
      BY <2>1 DEF BeginScan
    <3>2. \/ scan'.pc \in {"load", "root"} /\ scan'.result = "none"
          \/ scan'.pc = "ending" /\ scan'.result = "failed"
      BY <2>1, BeginningIs
    <3> QED
      BY <3>1, <3>2 DEF Outcomes, Walking, Sifting
  <2>2. CASE SettleProgress
    <3>1. /\ scan.pc = "ending" /\ stage' = scan.result /\ UNCHANGED <<flags, handlers, guard>>
          /\ scan'.pc = "settled" /\ scan'.result = scan.result
      BY <2>2 DEF SettleProgress, ScanOK, ScanType
    <3> QED
      BY <3>1 DEF Walking, Sifting, Outcomes
  <2>3. CASE ClearAgain
    <3>1. /\ cancelled' = FALSE /\ UNCHANGED <<paused, handlers, guard, stage>>
          /\ scan.pc = "settled" /\ scan'.pc = "cleared" /\ scan'.result = scan.result
      BY <2>3 DEF ClearAgain, ScanOK, ScanType
    <3> QED
      BY <3>1 DEF Walking, Sifting
  <2>4. CASE ReleaseScan
    <3>1. /\ running' = FALSE /\ UNCHANGED <<flags, handlers, restoring, scans, stage>>
          /\ scan.pc = "cleared" /\ scan'.pc = "off" /\ scan'.result = scan.result
      BY <2>4 DEF ReleaseScan, ScanOK, ScanType
    <3> QED
      BY <3>1 DEF Walking, Sifting
  <2> QED
    BY <1>5, <2>1, <2>2, <2>3, <2>4 DEF Frame
<1>6. CASE Work
  <2>1. /\ UNCHANGED <<flags, handlers, guard, stage>>
        /\ scan.pc \in Walking \union Sifting
        /\ \/ scan'.pc \in Walking \union Sifting /\ scan'.result = scan.result
           \/ scan'.pc = "ending" /\ scan'.result \in Outcomes
    BY <1>6, WorkMoves
  <2> QED
    BY <2>1 DEF Walking, Sifting
<1>7. CASE \E w \in Walks : WalkNext(w)
  BY <1>7, ThreadMoves
<1> QED
  BY <1>1, <1>2, <1>3, <1>4, <1>5, <1>6, <1>7, StepCases DEF UserNext, HandlerNext

(* The record of the task: what each step assigns has its type, a look is taken only where *)
(* the scan waits, and candidates leave "todo", "tasks" and "ready" as they are counted.   *)
Room == scan.todo + scan.tasks + scan.ready <= Len(scan.found)

(* Without a look at the flags due, the types and the room for tasks are all there is. *)
LEMMA Unlooked == ASSUME scan' \in ScanType, ~scan'.look, Room' PROVE ScanOK'
  BY DEF ScanOK, Room

(* A step that changes only the frame keeps the scan's type. *)
LEMMA FrameScanOK == ASSUME ScanOK, Frame PROVE ScanOK'
<1>1. CASE BeginScan
  <2>1. /\ 1 \in 1..(Len(Tree) + 1) /\ 0 \in 0..Concurrency /\ <<>> \in Seq(Files)
        /\ Len(<<>>) = 0
    BY TreeShape, ScanAssumption DEF ScanAssumption
  <2>2. ASSUME scan' = [FreshScan EXCEPT !.pc = IF Tree = <<>> THEN "load" ELSE "root"]
        PROVE  scan' \in ScanType
    BY <2>1, <2>2 DEF FreshScan, ScanPoints, ScanType
  <2>3. ASSUME scan' = [FreshScan EXCEPT !.pc = "ending", !.result = "failed"]
        PROVE  scan' \in ScanType
    BY <2>1, <2>3 DEF FreshScan, ScanPoints, ScanType, Outcomes
  <2>4. scan' \in ScanType
    BY <1>1, <2>2, <2>3 DEF BeginScan
  <2>5. Room' /\ ~scan'.look
    <3>1. /\ scan'.found = <<>> /\ ~scan'.look
          /\ scan'.todo = 0 /\ scan'.tasks = 0 /\ scan'.ready = 0
      BY <1>1, BeginningIs
    <3>2. Len(scan'.found) = 0
      BY <2>1, <3>1
    <3> QED
      BY <3>1, <3>2 DEF Room
  <2> QED
    BY <2>4, <2>5, Unlooked
<1>2. CASE SettleProgress \/ ClearAgain \/ ReleaseScan
  <2>1. PICK point \in ScanPoints : scan' = [scan EXCEPT !.pc = point]
    BY <1>2 DEF SettleProgress, ClearAgain, ReleaseScan, ScanPoints
  <2>2. ~scan.look
    BY <1>2 DEF SettleProgress, ClearAgain, ReleaseScan, ScanOK, Waiting
  <2>3. scan' \in ScanType
    BY <2>1 DEF ScanOK, ScanType
  <2>4. Room' /\ ~scan'.look
    BY <2>1, <2>2 DEF ScanOK, ScanType, Room
  <2> QED
    BY <2>3, <2>4, Unlooked
<1> QED
  BY <1>1, <1>2 DEF Frame

(* The steps that only move on, and those that end. *)
LEMMA PassScanOK ==
  ASSUME ScanOK, NEW point \in ScanPoints, scan' = [scan EXCEPT !.pc = point, !.look = FALSE]
  PROVE  ScanOK'
<1>1. scan' \in ScanType
  BY DEF ScanOK, ScanType
<1>2. Room' /\ ~scan'.look
  BY DEF ScanOK, ScanType, Room
<1> QED
  BY <1>1, <1>2, Unlooked

(* ... as does a step by which the scan ends. *)
LEMMA EndingScanOK ==
  ASSUME ScanOK, NEW outcome \in Outcomes,
         scan' = Ending(outcome) \/ scan' = [Ending(outcome) EXCEPT !.tasks = 0]
  PROVE  ScanOK'
<1>1. scan' \in ScanType
  <2>1. Ending(outcome) \in ScanType
    BY DEF ScanOK, ScanType, Ending, ScanPoints
  <2>2. 0 \in 0..Concurrency
    BY ScanAssumption DEF ScanAssumption
  <2>3. [Ending(outcome) EXCEPT !.tasks = 0] \in ScanType
    BY <2>1, <2>2 DEF ScanType
  <2> QED
    BY <2>1, <2>3
<1>2. /\ ~scan'.look /\ scan'.todo = scan.todo /\ scan'.ready = scan.ready
      /\ scan'.found = scan.found /\ scan'.tasks \in {0, scan.tasks}
  BY DEF ScanOK, ScanType, Ending
<1>3. Room'
  <2>1. /\ scan.todo \in Nat /\ scan.tasks \in Nat /\ scan.ready \in Nat /\ Len(scan.found) \in Nat
        /\ scan.todo + scan.tasks + scan.ready <= Len(scan.found)
    BY ScanAssumption DEF ScanOK, ScanType, ScanAssumption
  <2> QED
    BY <1>2, <2>1 DEF Room
<1> QED
  BY <1>1, <1>2, <1>3, Unlooked

(* ... one that receives an event or joins a walk. *)
LEMMA WalkScanOK ==
  ASSUME ScanOK, WalksOK, RootInv, TallyInv, RecvEvent \/ JoinWalk
  PROVE  ScanOK'
<1>1. /\ scan.pc = "recv" /\ ~scan.look /\ scan \in ScanType /\ Room
      /\ Len(scan.found) \in Nat
  BY DEF RecvEvent, JoinWalk, ScanOK, ScanType, Waiting, Room
<1>2. CASE RecvEvent
  <2> DEFINE event == Head(chan[spawned])
             next  == [scan EXCEPT !.pc = "walk"]
  <2>1. /\ chan[spawned] # <<>>
        /\ scan' = IF event = "broken" THEN [next EXCEPT !.failed = @ + 1]
                   ELSE IF event \in Seen THEN [next EXCEPT !.skipped = @ + 1]
                   ELSE [next EXCEPT !.found = Append(@, event)]
    BY <1>2 DEF RecvEvent
  <2>2. event \in Files \union {"broken"}
    <3>1. /\ spawned \in Walks /\ scan.root \in DOMAIN Tree
          /\ walk[spawned].at \in Nat /\ chan[spawned] \in Seq(Entries)
      <4>1. spawned \in Nat /\ spawned # 0 /\ spawned <= MaxScans * Len(Tree)
        BY <1>1, TreeShape, ScanAssumption DEF RootInv, WalksOK, ScanAssumption
      <4>2. spawned \in Walks
        BY <4>1, TreeShape, ScanAssumption DEF Walks, ScanAssumption
      <4>3. scan.root \in DOMAIN Tree
        BY <1>1, TreeShape DEF RootInv, Walking, ScanType
      <4> QED
        BY <4>2, <4>3 DEF WalksOK, WalkType
    <3>2. Arrived(scan.root, walk[spawned].at, chan[spawned],
                  scan.found, scan.skipped, scan.failed)
      BY <1>1 DEF TallyInv
    <3>3. scan.found \in Seq(Files) /\ scan.skipped \in Nat /\ scan.failed \in Nat
      BY <1>1 DEF ScanType
    <3> QED
      BY <2>1, <3>1, <3>2, <3>3, ArrivedReceive
  <2> HIDE DEF event
  <2>3. CASE event = "broken" \/ event \in Seen
    <3>1. scan' = [next EXCEPT !.failed = @ + 1] \/ scan' = [next EXCEPT !.skipped = @ + 1]
      BY <2>1, <2>3
    <3>2. next \in ScanType /\ next.look = FALSE
      BY <1>1 DEF ScanType, ScanPoints
    <3>3. scan' \in ScanType
      <4> HIDE DEF next
      <4>1. [next EXCEPT !.failed = @ + 1] \in ScanType
        BY SMTT(30), <3>2 DEF ScanType
      <4>2. [next EXCEPT !.skipped = @ + 1] \in ScanType
        BY SMTT(30), <3>2 DEF ScanType
      <4> QED
        BY <3>1, <4>1, <4>2
    <3>4. Room' /\ ~scan'.look
      BY <1>1, <3>1 DEF ScanType, Room
    <3> QED
      BY <3>3, <3>4, Unlooked
  <2>4. CASE event # "broken" /\ event \notin Seen
    <3>1. /\ Append(scan.found, event) \in Seq(Files)
          /\ Len(Append(scan.found, event)) = Len(scan.found) + 1
      BY <1>1, <2>2, <2>4, OneMoreFile DEF ScanType
    <3>2. scan' = [next EXCEPT !.found = Append(@, event)]
      BY <2>1, <2>4
    <3>3. /\ ~scan'.look /\ scan'.found = Append(scan.found, event) /\ scan'.todo = scan.todo
          /\ scan'.tasks = scan.tasks /\ scan'.ready = scan.ready
      BY <1>1, <3>2 DEF ScanType
    <3>4. scan' \in ScanType
      BY <1>1, <3>1, <3>2 DEF ScanType, ScanPoints
    <3>5. Room'
      <4>1. scan.todo \in Nat /\ scan.tasks \in Nat /\ scan.ready \in Nat
        BY <1>1, ScanAssumption DEF ScanType, ScanAssumption
      <4> QED
        BY <1>1, <3>1, <3>3, <4>1 DEF Room
    <3> QED
      BY <3>3, <3>4, <3>5, Unlooked
  <2> QED
    BY <2>3, <2>4
<1>3. CASE JoinWalk
  <2>1. CASE scan' = Ending("cancelled") \/ scan' = Ending("failed")
    BY <2>1, EndingScanOK DEF Outcomes
  <2>2. CASE scan' = [scan EXCEPT !.pc = IF scan.root = Len(Tree) THEN "load" ELSE "root",
                                  !.root = @ + 1]
    <3>1. scan.root + 1 \in 1..(Len(Tree) + 1)
      BY <1>1, TreeShape DEF RootInv, Walking, ScanType
    <3>2. scan' \in ScanType
      BY <1>1, <2>2, <3>1 DEF ScanType, ScanPoints
    <3>3. Room' /\ ~scan'.look
      BY <1>1, <2>2 DEF ScanType, Room
    <3> QED
      BY <3>2, <3>3, Unlooked
  <2> QED
    BY <1>3, <2>1, <2>2 DEF JoinWalk
<1> QED
  BY <1>2, <1>3

(* A task that is joined: its candidate goes to one of three counters. *)
LEMMA JudgedMoves ==
  ASSUME NEW next \in ScanType, NEW then \in Judged(next)
  PROVE  /\ then \in ScanType
         /\ then.found = next.found /\ then.look = next.look /\ then.pc = next.pc
         /\ then.todo = next.todo /\ then.tasks = next.tasks /\ then.queued = next.queued
         /\ then.root = next.root /\ then.result = next.result
         /\ then.ready \in {next.ready, next.ready + 1}
         /\ then.ready + then.skipped + then.failed
              = next.ready + next.skipped + next.failed + 1
<1>0. next.ready \in Nat /\ next.skipped \in Nat /\ next.failed \in Nat
  BY DEF ScanType
<1>1. CASE then = [next EXCEPT !.ready = @ + 1]
  <2>1. then \in ScanType
    <3>1. next.ready + 1 \in Nat
      BY DEF ScanType
    <3> QED
      BY <1>1, <3>1 DEF ScanType
  <2>2. /\ then.found = next.found /\ then.look = next.look /\ then.pc = next.pc
        /\ then.todo = next.todo /\ then.tasks = next.tasks /\ then.queued = next.queued
        /\ then.root = next.root /\ then.result = next.result
    BY <1>1 DEF ScanType
  <2>3. then.ready = next.ready + 1 /\ then.skipped = next.skipped /\ then.failed = next.failed
    BY <1>1 DEF ScanType
  <2> QED
    BY <1>0, <2>1, <2>2, <2>3
<1>2. CASE then = [next EXCEPT !.skipped = @ + 1]
  <2>1. then \in ScanType
    <3>1. next.skipped + 1 \in Nat
      BY DEF ScanType
    <3> QED
      BY <1>2, <3>1 DEF ScanType
  <2>2. /\ then.found = next.found /\ then.look = next.look /\ then.pc = next.pc
        /\ then.todo = next.todo /\ then.tasks = next.tasks /\ then.queued = next.queued
        /\ then.root = next.root /\ then.result = next.result
    BY <1>2 DEF ScanType
  <2>3. then.ready = next.ready /\ then.skipped = next.skipped + 1 /\ then.failed = next.failed
    BY <1>2 DEF ScanType
  <2> QED
    BY <1>0, <2>1, <2>2, <2>3
<1>3. CASE then = [next EXCEPT !.failed = @ + 1]
  <2>1. then \in ScanType
    <3>1. next.failed + 1 \in Nat
      BY DEF ScanType
    <3> QED
      BY <1>3, <3>1 DEF ScanType
  <2>2. /\ then.found = next.found /\ then.look = next.look /\ then.pc = next.pc
        /\ then.todo = next.todo /\ then.tasks = next.tasks /\ then.queued = next.queued
        /\ then.root = next.root /\ then.result = next.result
    BY <1>3 DEF ScanType
  <2>3. then.ready = next.ready /\ then.skipped = next.skipped /\ then.failed = next.failed + 1
    BY <1>3 DEF ScanType
  <2> QED
    BY <1>0, <2>1, <2>2, <2>3
<1> QED
  BY <1>1, <1>2, <1>3 DEF Judged

(* ... one that loads, filters, drains or enqueues. *)
LEMMA SiftScanOK ==
  ASSUME ScanOK, CountInv, LoadRows \/ FilterTurn \/ DrainTurn \/ EnqueueTurn
  PROVE  ScanOK'
<1>1. /\ scan \in ScanType /\ Room
      /\ Len(scan.found) \in Nat /\ scan.todo \in Nat /\ scan.tasks \in 0..Concurrency
      /\ scan.tasks \in Nat /\ scan.ready \in Nat /\ scan.queued \in Nat
      /\ scan.skipped \in Nat /\ scan.failed \in Nat
      /\ Concurrency \in Nat /\ Batch \in Nat
  BY ScanAssumption DEF ScanOK, ScanType, Room, ScanAssumption
<1>2. CASE LoadRows
  <2>1. /\ scan' = [scan EXCEPT !.pc = IF scan.found = <<>> THEN "drain" ELSE "filter",
                                !.todo = Len(scan.found)]
        /\ scan.tasks = 0 /\ scan.ready = 0
    BY <1>2 DEF LoadRows, CountInv
  <2>2. ~scan.look
    BY <1>2 DEF LoadRows, ScanOK, Waiting
  <2>3. scan' \in ScanType
    BY <1>1, <2>1 DEF ScanType, ScanPoints
  <2>4. Room' /\ ~scan'.look
    BY <1>1, <2>1, <2>2 DEF ScanType, Room
  <2> QED
    BY <2>3, <2>4, Unlooked
<1>3. CASE FilterTurn
  <2> DEFINE next == [scan EXCEPT !.look = FALSE, !.todo = @ - 1,
                                  !.pc = IF scan.todo = 1 THEN "drain" ELSE "filter"]
  <2>1. scan.todo - 1 \in Nat
    BY <1>1, <1>3 DEF FilterTurn, Turn, CountInv
  <2>2. /\ next \in ScanType /\ next.found = scan.found /\ next.look = FALSE
        /\ next.todo = scan.todo - 1 /\ next.tasks = scan.tasks /\ next.ready = scan.ready
    BY <1>1, <2>1 DEF ScanType, ScanPoints
  <2>3. CASE scan.tasks < Concurrency
    <3>1. scan' = [next EXCEPT !.tasks = @ + 1] /\ scan.tasks + 1 \in 0..Concurrency
      BY <1>1, <1>3, <2>3 DEF FilterTurn
    <3> HIDE DEF next
    <3>2. scan' \in ScanType
      BY <2>2, <3>1 DEF ScanType
    <3>3. /\ scan'.found = scan.found /\ scan'.look = FALSE /\ scan'.ready = scan.ready
          /\ scan'.todo = scan.todo - 1 /\ scan'.tasks = scan.tasks + 1
      BY <2>2, <3>1 DEF ScanType
    <3>4. Room'
      BY SMTT(30), <1>1, <3>3 DEF Room
    <3> QED
      BY <3>2, <3>3, <3>4, Unlooked
  <2>4. CASE ~(scan.tasks < Concurrency)
    <3>1. scan' \in Judged(next)
      BY <1>3, <2>4 DEF FilterTurn
    <3> HIDE DEF next
    <3>2. /\ scan' \in ScanType /\ scan'.found = scan.found /\ scan'.look = FALSE
          /\ scan'.todo = scan.todo - 1 /\ scan'.tasks = scan.tasks
          /\ scan'.ready \in {scan.ready, scan.ready + 1}
      BY <2>2, <3>1, JudgedMoves
    <3>3. Room'
      BY SMTT(30), <1>1, <3>2 DEF Room
    <3> QED
      BY <3>2, <3>3, Unlooked
  <2> QED
    BY <2>3, <2>4
<1>4. CASE DrainTurn
  <2> DEFINE next == [scan EXCEPT !.look = FALSE, !.tasks = @ - 1]
  <2>1. scan.tasks - 1 \in 0..Concurrency /\ scan' \in Judged(next)
    BY <1>1, <1>4 DEF DrainTurn, Turn, ScanOK, Waiting
  <2>2. /\ next \in ScanType /\ next.found = scan.found /\ next.look = FALSE
        /\ next.todo = scan.todo /\ next.tasks = scan.tasks - 1 /\ next.ready = scan.ready
    BY <1>1, <2>1 DEF ScanType
  <2> HIDE DEF next
  <2>3. /\ scan' \in ScanType /\ scan'.found = scan.found /\ scan'.look = FALSE
        /\ scan'.todo = scan.todo /\ scan'.tasks = scan.tasks - 1
        /\ scan'.ready \in {scan.ready, scan.ready + 1}
    BY <2>1, <2>2, JudgedMoves
  <2>4. Room'
    BY SMTT(30), <1>1, <2>3 DEF Room
  <2> QED
    BY <2>3, <2>4, Unlooked
<1>5. CASE EnqueueTurn
  <2> DEFINE chunk == IF scan.ready < Batch THEN scan.ready ELSE Batch
  <2>1. PICK inserted \in 0..chunk :
           scan' = [scan EXCEPT !.look = FALSE, !.ready = @ - chunk, !.queued = @ + inserted,
                                !.skipped = @ + (chunk - inserted)]
    BY <1>5 DEF EnqueueTurn
  <2>2. chunk \in Nat /\ chunk <= scan.ready
    BY <1>1
  <2> HIDE DEF chunk
  <2>3. /\ scan.ready - chunk \in Nat /\ scan.queued + inserted \in Nat
        /\ scan.skipped + (chunk - inserted) \in Nat /\ scan.ready - chunk <= scan.ready
    <3>1. inserted \in Nat /\ inserted <= chunk
      BY <2>1, <2>2
    <3>2. ASSUME NEW a \in Nat, NEW b \in Nat, a <= b PROVE b - a \in Nat /\ b - a <= b
      BY <3>2
    <3>3. chunk - inserted \in Nat /\ scan.ready - chunk \in Nat /\ scan.ready - chunk <= scan.ready
      BY <1>1, <2>2, <3>1, <3>2
    <3>4. ASSUME NEW a \in Nat, NEW b \in Nat PROVE a + b \in Nat
      OBVIOUS
    <3> QED
      BY <1>1, <3>1, <3>3, <3>4
  <2>4. scan' \in ScanType
    <3>1. ASSUME NEW r \in Nat, NEW q \in Nat, NEW s \in Nat
          PROVE  [scan EXCEPT !.look = FALSE, !.ready = r, !.queued = q, !.skipped = s] \in ScanType
      BY <1>1 DEF ScanType
    <3> QED
      BY <2>1, <2>3, <3>1
  <2>5. /\ scan'.found = scan.found /\ scan'.look = FALSE /\ scan'.todo = scan.todo
        /\ scan'.tasks = scan.tasks /\ scan'.ready = scan.ready - chunk
    BY <1>1, <2>1 DEF ScanType
  <2>6. Room'
    BY SMTT(30), <1>1, <2>3, <2>5 DEF Room
  <2> QED
    BY <2>4, <2>5, <2>6, Unlooked
<1> QED
  BY <1>2, <1>3, <1>4, <1>5

(* Every step keeps the scan's type. *)
LEMMA NextScanOK ==
  ASSUME FlagsOK, ScanOK, WalksOK, FrameInv, RootInv, TallyInv, CountInv, [Next]_vars
  PROVE  ScanOK'
<1>1. CASE UNCHANGED scan
  BY <1>1 DEF ScanOK, Waiting
<1>2. CASE StartScan
  <2>1. /\ scan' = [scan EXCEPT !.pc = "reserved"] /\ scan.pc = "off" /\ scan \in ScanType
        /\ ~scan.look
    BY <1>2 DEF StartScan, FlagsOK, FrameInv, GuardCoversScan, ScanOK, Waiting
  <2>2. scan' = [scan EXCEPT !.pc = "reserved", !.look = FALSE]
    BY <2>1 DEF ScanType
  <2> QED
    BY <2>2, PassScanOK DEF ScanPoints
<1>3. CASE LookCancelled
  <2>1. Waiting /\ scan' = [scan EXCEPT !.look = TRUE] /\ scan \in ScanType /\ Room
    BY <1>3 DEF LookCancelled, ScanOK, Room
  <2>2. scan' \in ScanType /\ Waiting' /\ Room'
    BY <2>1 DEF ScanType, Waiting, Room
  <2> QED
    BY <2>2 DEF ScanOK, Room
<1>4. CASE SleepPaused \/ SpawnWalk \/ WalkTurn
  <2>1. scan.pc \in ScanPoints /\ scan \in ScanType
    BY DEF ScanOK, ScanType
  <2>2. CASE SleepPaused
    <3>1. scan' = [scan EXCEPT !.pc = scan.pc, !.look = FALSE]
      BY <2>1, <2>2 DEF SleepPaused, ScanType
    <3> QED
      BY <2>1, <3>1, PassScanOK
  <2>3. CASE SpawnWalk \/ WalkTurn
    BY <2>3, PassScanOK DEF SpawnWalk, WalkTurn, ScanPoints
  <2> QED
    BY <1>4, <2>2, <2>3
<1>5. CASE RecvTimeout \/ DrainEnd
  <2>1. PICK point \in ScanPoints : scan' = [scan EXCEPT !.pc = point]
    BY <1>5 DEF RecvTimeout, DrainEnd, ScanPoints
  <2>2. ~scan.look /\ scan \in ScanType
    BY <1>5 DEF RecvTimeout, DrainEnd, ScanOK, ScanType, Waiting
  <2>3. scan' = [scan EXCEPT !.pc = point, !.look = FALSE]
    BY <2>1, <2>2 DEF ScanType
  <2> QED
    BY <2>3, PassScanOK
<1>6. CASE ScanCancelled \/ CancelWalk \/ LoadRowsError \/ EnqueueError \/ EnqueueEnd
  BY <1>6, EndingScanOK
  DEF ScanCancelled, CancelWalk, LoadRowsError, EnqueueError, EnqueueEnd, Outcomes
<1>7. CASE Work
  BY <1>3, <1>4, <1>5, <1>6, <1>7, WalkScanOK, SiftScanOK DEF Work
<1>8. CASE UserNext \/ HandlerNext
  BY <1>1, <1>2, <1>8, RequestMoves
<1>9. CASE (\E w \in Walks : WalkNext(w)) \/ UNCHANGED vars
  BY <1>1, <1>9, ThreadMoves DEF vars
<1> QED
  BY <1>7, <1>8, <1>9, FrameScanOK, StepCases

-------------------------------------------------------------------------------
(* The walking threads.                                                        *)

(* The last walk, when the scan is in one. *)
LEMMA InWalk ==
  ASSUME ScanOK, WalksOK, RootInv, scan.pc \in {"walk", "recv"}
  PROVE  /\ spawned \in Walks /\ walk[spawned].heard /\ walk[spawned].root = scan.root
         /\ walk[spawned] \in WalkType /\ chan[spawned] \in Seq(Entries)
         /\ scan.root \in DOMAIN Tree
<1>1. spawned \in Nat /\ spawned # 0 /\ spawned <= MaxScans * Len(Tree)
  BY TreeShape, ScanAssumption DEF RootInv, WalksOK, ScanAssumption
<1>2. spawned \in Walks
  BY <1>1, TreeShape, ScanAssumption DEF Walks, ScanAssumption
<1>3. scan.root \in DOMAIN Tree
  BY TreeShape DEF RootInv, Walking, ScanOK, ScanType
<1> QED
  BY <1>2, <1>3 DEF WalksOK, RootInv

(* There is room for one more walk when a root is left. *)
LEMMA RoomToWalk ==
  ASSUME FlagsOK, ScanOK, WalksOK, RootInv, scan.pc = "root"
  PROVE  spawned + 1 \in Walks /\ spawned + 1 \in 0..(MaxScans * Len(Tree))
<1>1. scan.root \in Nat /\ scan.root <= Len(Tree) /\ Len(Tree) \in Nat /\ spawned \in Nat
  BY TreeShape, ScanAssumption DEF RootInv, Walking, ScanOK, ScanType, WalksOK, ScanAssumption
<1>2. spawned + ((Len(Tree) + 1) - scan.root) <= scans * Len(Tree)
  BY DEF RootInv, ToWalk
<1>3. scans \in Nat /\ MaxScans \in Nat /\ scans <= MaxScans
  BY ScanAssumption DEF FlagsOK, ScanAssumption
<1>4. scans * Len(Tree) <= MaxScans * Len(Tree) /\ scans * Len(Tree) \in Nat
      /\ MaxScans * Len(Tree) \in Nat
  <2>1. PICK more \in Nat : MaxScans = scans + more
    <3>1. MaxScans - scans \in Nat /\ MaxScans = scans + (MaxScans - scans)
      BY <1>3
    <3> QED
      BY <3>1
  <2>2. MaxScans * Len(Tree) = scans * Len(Tree) + more * Len(Tree)
    BY <1>1, <1>3, <2>1
  <2>3. scans * Len(Tree) \in Nat /\ more * Len(Tree) \in Nat
    BY <1>1, <1>3, <2>1
  <2> QED
    BY <2>2, <2>3
<1>5. spawned + 1 <= MaxScans * Len(Tree)
  BY <1>1, <1>2, <1>4
<1> QED
  BY <1>1, <1>4, <1>5 DEF Walks

(* Steps that leave the threads and channels alone, while the scan is where it hears them *)
(* or no longer hears any.                                                                *)
LEMMA WalksAlone ==
  ASSUME WalksOK, WalksInv, UNCHANGED walking,
         scan.pc \in {"walk", "recv"} => scan'.pc \in {"walk", "recv"},
         asked /\ ~asked' => scan.pc = "reserved"
  PROVE  WalksOK' /\ WalksInv'
<1>1. walk' = walk /\ chan' = chan /\ spawned' = spawned
  OBVIOUS
<1>2. WalksOK'
  BY <1>1 DEF WalksOK
<1>3. ASSUME NEW w \in Walks PROVE WalkFits(w)'
  <2>1. WalkFits(w)
    BY DEF WalksInv
  <2>2. walk[w].heard => scan.pc \in {"walk", "recv"}
    BY DEF WalksOK
  <2>3. walk[w].heard /\ walk[w].stopped => asked'
    BY <2>1, <2>2 DEF WalkFits, ThreadFits
  <2> QED
    BY <1>1, <2>1, <2>3 DEF WalkFits, ThreadFits
<1> QED
  BY <1>2, <1>3 DEF WalksInv

(* Steps that change one walk. *)
LEMMA OneWalk ==
  ASSUME WalksOK, WalksInv, NEW w \in Walks, NEW new \in WalkType, NEW c \in Seq(Entries),
         walk' = [walk EXCEPT ![w] = new], chan' = [chan EXCEPT ![w] = c],
         spawned' \in 0..(MaxScans * Len(Tree)), spawned <= spawned',
         Len(c) <= Buffer, new.heard => w = spawned' /\ scan'.pc \in {"walk", "recv"},
         \A v \in Walks \ {w} : walk[v].heard =>
            v = spawned' /\ scan'.pc \in {"walk", "recv"} /\ (asked => asked'),
         w <= spawned', ThreadFits(new, asked')
  PROVE  WalksOK' /\ WalksInv'
<1>1. /\ walk'[w] = new /\ chan'[w] = c
      /\ \A v \in Walks \ {w} : walk'[v] = walk[v] /\ chan'[v] = chan[v]
  BY DEF WalksOK
<1>2. WalksOK'
  <2>1. walk' \in [Walks -> WalkType] /\ chan' \in [Walks -> Seq(Entries)]
    BY DEF WalksOK
  <2>2. ASSUME NEW v \in Walks
        PROVE  /\ Len(chan'[v]) <= Buffer
               /\ walk'[v].heard => v = spawned' /\ scan'.pc \in {"walk", "recv"}
    BY <1>1 DEF WalksOK
  <2> QED
    BY <2>1, <2>2 DEF WalksOK
<1>3. ASSUME NEW v \in Walks \ {w} PROVE WalkFits(v)'
  <2>1. WalkFits(v) /\ walk'[v] = walk[v] /\ chan'[v] = chan[v]
    BY <1>1 DEF WalksInv
  <2>2. v > spawned' => v > spawned
    BY TreeShape, ScanAssumption DEF WalksOK, Walks, ScanAssumption
  <2>3. walk[v].heard => (asked => asked')
    OBVIOUS
  <2> QED
    BY <2>1, <2>2, <2>3 DEF WalkFits, ThreadFits
<1>4. WalkFits(w)'
  BY <1>1, TreeShape, ScanAssumption DEF WalkFits, WalksOK, Walks, ScanAssumption
<1> QED
  BY <1>2, <1>3, <1>4 DEF WalksInv

(* A walking thread: it goes on in its listing, and stops for a cancel that was asked for. *)
LEMMA ThreadWalks ==
  ASSUME ScanOK, WalksOK, WalksInv, AskInv, NEW w \in Walks, WalkNext(w),
         asked /\ ~asked' => scan.pc = "reserved"
  PROVE  WalksOK' /\ WalksInv'
<1>0. PICK t : t = walk[w]
  OBVIOUS
<1>1. /\ t \in WalkType /\ ThreadFits(t, asked) /\ chan[w] \in Seq(Entries)
      /\ Len(chan[w]) <= Buffer /\ (t.heard => w = spawned /\ scan.pc \in {"walk", "recv"})
  BY <1>0 DEF WalksOK, WalksInv, WalkFits
<1>2. scan' = scan /\ spawned' = spawned
  BY ThreadMoves
<1>3. w <= spawned
  <2>0. t.look => t.pc = "check"
    BY <1>1 DEF ThreadFits
  <2>1. t.pc # "none" /\ FreshWalk.pc = "none"
    BY <1>0, <2>0 DEF FreshWalk, WalkNext, WalkStart, WalkLook, WalkSleep, WalkVisit, WalkStopped, WalkSend,
           WalkUnheard, WalkEnd
  <2>2. ~(w > spawned)
    BY <1>0, <2>1 DEF WalksInv, WalkFits
  <2> QED
    BY <2>2, TreeShape, ScanAssumption DEF WalksOK, Walks, ScanAssumption
<1>4. ThreadFits(t, asked') /\ (t.heard => (asked => asked'))
  <2>1. t.heard => (asked => asked')
    BY <1>1
  <2> QED
    BY <1>1, <2>1 DEF ThreadFits
<1>5. ASSUME NEW new \in WalkType, NEW c \in Seq(Entries), Len(c) <= Buffer,
             walk' = [walk EXCEPT ![w] = new], chan' = [chan EXCEPT ![w] = c],
             new.heard = t.heard, ThreadFits(new, asked')
      PROVE  WalksOK' /\ WalksInv'
  <2>1. \A v \in Walks \ {w} : walk[v].heard =>
            v = spawned' /\ scan'.pc \in {"walk", "recv"} /\ (asked => asked')
    BY <1>2 DEF WalksOK
  <2>2. spawned' \in 0..(MaxScans * Len(Tree)) /\ spawned <= spawned' /\ w <= spawned'
    BY <1>2, <1>3, TreeShape, ScanAssumption DEF WalksOK, ScanAssumption
  <2> QED
    BY <1>1, <1>2, <1>5, <2>1, <2>2, OneWalk
<1>6. ASSUME NEW new \in WalkType, walk' = [walk EXCEPT ![w] = new], chan' = chan,
             new.heard = t.heard, ThreadFits(new, asked')
      PROVE  WalksOK' /\ WalksInv'
  <2>1. chan' = [chan EXCEPT ![w] = chan[w]]
    BY <1>6 DEF WalksOK
  <2> QED
    BY <1>1, <1>5, <1>6, <2>1
<1>7. t.root \in DOMAIN Tree /\ t.at \in Nat /\ Len(Tree[t.root]) \in Nat
      /\ DOMAIN Tree[t.root] = 1..Len(Tree[t.root])
  BY <1>1, TreeShape DEF WalkType
<1>8. t \in WalkType /\ t.at + 1 \in Nat \ {0}
  BY <1>1, <1>7 DEF WalkType
<1>9. CASE WalkStart(w)
  <2> DEFINE new == [t EXCEPT !.pc = IF Listing(w) = Missing THEN "send" ELSE "check"]
  <2>1. walk' = [walk EXCEPT ![w] = new] /\ chan' = chan /\ t.pc = "spawned"
    BY <1>0, <1>9 DEF WalkStart
  <2>2. new \in WalkType
    BY <1>1 DEF WalkType, WalkPoints
  <2>3. /\ new.at = t.at /\ new.look = t.look /\ new.root = t.root
        /\ new.stopped = t.stopped /\ new.heard = t.heard
        /\ new.pc = IF Listing(w) = Missing THEN "send" ELSE "check"
    BY <1>1 DEF WalkType
  <2>4. t.at = 1 /\ ~t.look
    BY <1>1, <2>1 DEF ThreadFits
  <2>5. Listing(w) = Missing => 1 \in DOMAIN Tree[t.root] /\ Tree[t.root][1] # "other"
    BY <1>0 DEF Listing, Missing
  <2> HIDE DEF new
  <2>6. ThreadFits(new, asked')
    BY <1>4, <1>7, <2>3, <2>4, <2>5 DEF ThreadFits
  <2> QED
    BY <1>6, <2>1, <2>2, <2>3, <2>6
<1>10. CASE WalkLook(w)
  <2> DEFINE new == [t EXCEPT !.look = TRUE]
  <2>1. /\ walk' = [walk EXCEPT ![w] = new] /\ chan' = chan
        /\ t.pc = "check" /\ ~(t.at > Len(Tree[t.root]))
    BY <1>0, <1>10 DEF WalkLook, AtEnd, Listing
  <2>2. new \in WalkType
    BY <1>1 DEF WalkType
  <2>3. /\ new.at = t.at /\ new.look /\ new.root = t.root
        /\ new.stopped = t.stopped /\ new.pc = t.pc /\ new.heard = t.heard
    BY <1>1 DEF WalkType
  <2>4. t.at \in DOMAIN Tree[t.root]
    BY <1>4, <1>7, <2>1 DEF ThreadFits
  <2> HIDE DEF new
  <2>5. ThreadFits(new, asked')
    BY <1>4, <2>1, <2>3, <2>4 DEF ThreadFits
  <2> QED
    BY <1>6, <2>1, <2>2, <2>3, <2>5
<1>11. CASE WalkSleep(w)
  <2> DEFINE new == [t EXCEPT !.look = FALSE]
  <2>1. walk' = [walk EXCEPT ![w] = new] /\ chan' = chan
    BY <1>0, <1>11 DEF WalkSleep
  <2>2. /\ new \in WalkType /\ new.at = t.at /\ ~new.look /\ new.root = t.root
        /\ new.stopped = t.stopped /\ new.pc = t.pc /\ new.heard = t.heard
    BY <1>1 DEF WalkType
  <2> HIDE DEF new
  <2>3. ThreadFits(new, asked')
    BY <1>4, <2>2 DEF ThreadFits
  <2> QED
    BY <1>6, <2>1, <2>2, <2>3
<1>12. CASE WalkVisit(w)
  <2>1. t.look /\ t.pc = "check" /\ t.at \in DOMAIN Tree[t.root]
    BY <1>4, <1>0, <1>12 DEF WalkVisit, ThreadFits
  <2>0. /\ chan' = chan
        /\ walk' = [walk EXCEPT ![w] = IF Entry(w) = "other"
                                      THEN [t EXCEPT !.look = FALSE, !.at = t.at + 1]
                                      ELSE [t EXCEPT !.look = FALSE, !.pc = "send"]]
    BY <1>0, <1>12 DEF WalkVisit
  <2>2. CASE Entry(w) = "other"
    <3> DEFINE new == [t EXCEPT !.look = FALSE, !.at = t.at + 1]
    <3>1. walk' = [walk EXCEPT ![w] = new] /\ chan' = chan
      BY <2>0, <2>2
    <3>2. /\ new \in WalkType /\ new.at = t.at + 1 /\ ~new.look /\ new.root = t.root
          /\ new.stopped = t.stopped /\ new.pc = t.pc /\ new.heard = t.heard
      <4>1. new \in WalkType
        BY <1>8 DEF WalkType
      <4> QED
        BY <1>8, <4>1 DEF WalkType
    <3> HIDE DEF new
    <3>3. ThreadFits(new, asked')
      BY <1>4, <1>7, <2>1, <3>2 DEF ThreadFits
    <3> QED
      BY <1>6, <3>1, <3>2, <3>3
  <2>3. CASE Entry(w) # "other"
    <3> DEFINE new == [t EXCEPT !.look = FALSE, !.pc = "send"]
    <3>1. walk' = [walk EXCEPT ![w] = new] /\ chan' = chan
      BY <2>0, <2>3
    <3>2. /\ new \in WalkType /\ new.at = t.at /\ ~new.look /\ new.root = t.root
          /\ new.stopped = t.stopped /\ new.pc = "send" /\ new.heard = t.heard
      BY <1>1 DEF WalkType, WalkPoints
    <3>3. Tree[t.root][t.at] # "other"
      BY <1>0, <2>3 DEF Entry, Listing
    <3> HIDE DEF new
    <3>4. ThreadFits(new, asked')
      BY <1>4, <1>7, <2>1, <3>2, <3>3 DEF ThreadFits
    <3> QED
      BY <1>6, <3>1, <3>2, <3>4
  <2> QED
    BY <2>2, <2>3
<1>13. CASE WalkStopped(w)
  <2> DEFINE new == [t EXCEPT !.pc = "done", !.stopped = TRUE]
  <2>1. walk' = [walk EXCEPT ![w] = new] /\ chan' = chan /\ cancelled /\ ~t.look
    BY <1>0, <1>13 DEF WalkStopped
  <2>2. /\ new \in WalkType /\ new.at = t.at /\ new.look = t.look /\ new.root = t.root
        /\ new.stopped /\ new.pc = "done" /\ new.heard = t.heard
    BY <1>1 DEF WalkType, WalkPoints
  <2>3. t.heard => asked'
    BY <1>4, <2>1 DEF AskInv
  <2> HIDE DEF new
  <2>4. ThreadFits(new, asked')
    BY <1>4, <2>1, <2>2, <2>3 DEF ThreadFits
  <2> QED
    BY <1>6, <2>1, <2>2, <2>4
<1>14. CASE WalkSend(w)
  <2> DEFINE new == [t EXCEPT !.at = t.at + 1, !.pc = "check"]
             c   == Append(chan[w], Entry(w))
  <2>1. /\ walk' = [walk EXCEPT ![w] = new] /\ chan' = [chan EXCEPT ![w] = c] /\ t.pc = "send"
        /\ Len(chan[w]) < Buffer
    BY <1>0, <1>14 DEF WalkSend
  <2>2. /\ new \in WalkType /\ new.at = t.at + 1 /\ new.look = t.look /\ new.root = t.root
        /\ new.stopped = t.stopped /\ new.pc = "check" /\ new.heard = t.heard
    <3>1. new \in WalkType
      BY <1>8 DEF WalkType, WalkPoints
    <3> QED
      BY <1>8, <3>1 DEF WalkType
  <2>3. t.at \in DOMAIN Tree[t.root] /\ ~t.look
    BY <1>4, <2>1 DEF ThreadFits
  <2> HIDE DEF new
  <2>4. ThreadFits(new, asked')
    BY <1>4, <1>7, <2>2, <2>3 DEF ThreadFits
  <2>5. c \in Seq(Entries) /\ Len(c) <= Buffer
    <3>1. Entry(w) \in Entries
      BY <1>0, <1>7, <2>3, TreeShape DEF Entry, Listing
    <3>2. c \in Seq(Entries) /\ Len(c) = Len(chan[w]) + 1 /\ Len(chan[w]) \in Nat
      BY <1>1, <3>1, AppendProperties
    <3> QED
      BY <2>1, <3>2, ScanAssumption DEF ScanAssumption
  <2> QED
    BY <1>5, <2>1, <2>2, <2>4, <2>5
<1>15. CASE WalkUnheard(w) \/ WalkEnd(w)
  <2> DEFINE new == [t EXCEPT !.pc = "done"]
  <2>1. /\ walk' = [walk EXCEPT ![w] = new] /\ chan' = chan /\ ~t.look
        /\ ~t.heard \/ t.at > Len(Tree[t.root])
    BY <1>4, <1>7, <1>0, <1>15 DEF WalkUnheard, WalkEnd, ThreadFits, AtEnd, Listing
  <2>2. /\ new \in WalkType /\ new.at = t.at /\ new.look = t.look /\ new.root = t.root
        /\ new.stopped = t.stopped /\ new.pc = "done" /\ new.heard = t.heard
    BY <1>1 DEF WalkType, WalkPoints
  <2> HIDE DEF new
  <2>3. ThreadFits(new, asked')
    BY <1>4, <2>1, <2>2 DEF ThreadFits
  <2> QED
    BY <1>6, <2>1, <2>2, <2>3
<1> QED
  BY <1>9, <1>10, <1>11, <1>12, <1>13, <1>14, <1>15 DEF WalkNext

(* The steps of the scan that touch its threads and their channels. *)
LEMMA ScanWalks ==
  ASSUME FlagsOK, ScanOK, WalksOK, WalksInv, RootInv, asked /\ ~asked' => scan.pc = "reserved",
         SpawnWalk \/ CancelWalk \/ RecvEvent \/ JoinWalk
  PROVE  WalksOK' /\ WalksInv'
<1>1. asked => asked'
  BY DEF SpawnWalk, CancelWalk, RecvEvent, JoinWalk, Turn
<1>2. spawned \in Nat /\ MaxScans * Len(Tree) \in Nat
  BY TreeShape, ScanAssumption DEF WalksOK, ScanAssumption
<1>3. CASE SpawnWalk
  <2> DEFINE w   == spawned + 1
             new == [FreshWalk EXCEPT !.pc = "spawned", !.root = scan.root, !.heard = TRUE]
  <2>1. w \in Walks /\ w \in 0..(MaxScans * Len(Tree)) /\ scan.root \in DOMAIN Tree
    <3>1. scan.pc = "root"
      BY <1>3 DEF SpawnWalk, Turn
    <3>2. scan.root \in DOMAIN Tree
      BY <3>1, TreeShape DEF RootInv, Walking, ScanOK, ScanType
    <3> QED
      BY <3>1, <3>2, RoomToWalk
  <2>2. walk[w] = FreshWalk /\ chan[w] = <<>> /\ w > spawned
    BY <1>2, <2>1 DEF WalksInv, WalkFits
  <2>3. /\ spawned' = w /\ scan'.pc = "walk"
        /\ walk' = [walk EXCEPT ![w] = [walk[w] EXCEPT !.pc = "spawned", !.root = scan.root,
                                                       !.heard = TRUE]]
        /\ chan' = chan
    BY <1>3 DEF SpawnWalk, ScanOK, ScanType
  <2>4. walk' = [walk EXCEPT ![w] = new] /\ chan' = [chan EXCEPT ![w] = chan[w]]
    BY <2>2, <2>3 DEF WalksOK
  <2>5. /\ new.pc = "spawned" /\ new.root = scan.root /\ new.at = 1 /\ ~new.look /\ ~new.stopped
    BY DEF FreshWalk
  <2>6. new \in WalkType
    <3>1. FreshWalk \in WalkType
      BY <2>1, <2>2 DEF WalksOK
    <3> QED
      BY <2>1, <3>1 DEF WalkType, WalkPoints
  <2>7. \A v \in Walks : ~walk[v].heard
    BY <1>3 DEF WalksOK, SpawnWalk, Turn
  <2> HIDE DEF new
  <2>8. ThreadFits(new, asked')
    BY <2>1, <2>5, TreeShape DEF ThreadFits
  <2>9. chan[w] \in Seq(Entries) /\ Len(chan[w]) <= Buffer /\ spawned <= w /\ w <= w
    BY <1>2, <2>1 DEF WalksOK
  <2> HIDE DEF w
  <2> QED
    BY <2>1, <2>3, <2>4, <2>6, <2>7, <2>8, <2>9, OneWalk
<1>4. CASE CancelWalk \/ RecvEvent \/ JoinWalk
  <2>1. scan.pc \in {"walk", "recv"}
    BY <1>4 DEF CancelWalk, RecvEvent, JoinWalk
  <2>2. PICK t : t = walk[spawned]
    OBVIOUS
  <2>3. /\ spawned \in Walks /\ t \in WalkType /\ ThreadFits(t, asked)
        /\ chan[spawned] \in Seq(Entries) /\ Len(chan[spawned]) <= Buffer
    BY <2>1, <2>2, InWalk DEF WalksInv, WalkFits, WalksOK
  <2>4. ASSUME NEW new \in WalkType, NEW c \in Seq(Entries), Len(c) <= Buffer,
               walk' = [walk EXCEPT ![spawned] = new], chan' = [chan EXCEPT ![spawned] = c],
               spawned' = spawned, new.heard => scan'.pc \in {"walk", "recv"},
               ThreadFits(new, asked')
        PROVE  WalksOK' /\ WalksInv'
    <3>1. \A v \in Walks \ {spawned} : ~walk[v].heard
      BY DEF WalksOK
    <3>2. spawned' \in 0..(MaxScans * Len(Tree)) /\ spawned <= spawned'
      BY <1>2, <2>4 DEF WalksOK
    <3> QED
      BY <2>3, <2>4, <3>1, <3>2, OneWalk
  <2>5. ThreadFits(t, asked')
    BY <1>1, <2>3 DEF ThreadFits
  <2>6. walk = [walk EXCEPT ![spawned] = t] /\ chan = [chan EXCEPT ![spawned] = chan[spawned]]
    BY <2>2 DEF WalksOK
  <2>7. CASE CancelWalk
    <3> DEFINE new == [t EXCEPT !.heard = FALSE, !.pc = IF t.pc = "spawned" THEN "done" ELSE t.pc]
    <3>1. /\ walk' = [walk EXCEPT ![spawned].heard = FALSE,
                                  ![spawned].pc = IF @ = "spawned" THEN "done" ELSE @]
          /\ chan' = [chan EXCEPT ![spawned] = <<>>] /\ spawned' = spawned
      BY <2>7 DEF CancelWalk
    <3>2. walk' = [walk EXCEPT ![spawned] = new]
      BY <2>2, <2>3, <3>1 DEF WalksOK, WalkType
    <3>3. new \in WalkType
      BY <2>3 DEF WalkType, WalkPoints
    <3>4. /\ new.at = t.at /\ new.root = t.root /\ new.look = t.look /\ ~new.heard
          /\ new.pc = IF t.pc = "spawned" THEN "done" ELSE t.pc
      BY <2>3 DEF WalkType
    <3> HIDE DEF new
    <3>5. ThreadFits(new, asked')
      BY <2>5, <3>4 DEF ThreadFits
    <3>6. <<>> \in Seq(Entries) /\ Len(<<>>) <= Buffer
      BY ScanAssumption DEF ScanAssumption
    <3> QED
      BY <2>4, <3>1, <3>2, <3>3, <3>4, <3>5, <3>6
  <2>8. CASE RecvEvent
    <3>1. /\ walk' = [walk EXCEPT ![spawned] = t] /\ spawned' = spawned /\ chan[spawned] # <<>>
          /\ chan' = [chan EXCEPT ![spawned] = Tail(chan[spawned])]
      BY <2>6, <2>8 DEF RecvEvent
    <3>2. scan'.pc = "walk"
      BY <2>8 DEF RecvEvent, ScanOK, ScanType
    <3>3. Tail(chan[spawned]) \in Seq(Entries) /\ Len(Tail(chan[spawned])) <= Buffer
      <4>1. /\ Tail(chan[spawned]) \in Seq(Entries) /\ Len(chan[spawned]) \in Nat
            /\ Len(Tail(chan[spawned])) = Len(chan[spawned]) - 1
        BY <2>3, <3>1, HeadTailProperties
      <4> QED
        BY <2>3, <4>1, ScanAssumption DEF ScanAssumption
    <3> QED
      BY <2>3, <2>4, <2>5, <3>1, <3>2, <3>3
  <2>9. CASE JoinWalk
    <3> DEFINE new == [t EXCEPT !.heard = FALSE]
    <3>1. /\ walk' = [walk EXCEPT ![spawned].heard = FALSE]
          /\ chan' = [chan EXCEPT ![spawned] = chan[spawned]] /\ spawned' = spawned
      BY <2>6, <2>9 DEF JoinWalk
    <3>2. walk' = [walk EXCEPT ![spawned] = new]
      BY <2>2, <3>1
    <3>3. new \in WalkType
      BY <2>3 DEF WalkType
    <3>4. /\ new.at = t.at /\ new.root = t.root /\ new.look = t.look /\ ~new.heard /\ new.pc = t.pc
      BY <2>3 DEF WalkType
    <3> HIDE DEF new
    <3>5. ThreadFits(new, asked')
      BY <2>5, <3>4 DEF ThreadFits
    <3> QED
      BY <2>3, <2>4, <3>1, <3>2, <3>3, <3>4, <3>5
  <2> QED
    BY <1>4, <2>7, <2>8, <2>9
<1> QED
  BY <1>3, <1>4

(* Every step keeps what a walking thread and its channel are. *)
LEMMA NextWalks ==
  ASSUME FlagsOK, ScanOK, WalksOK, FrameInv, WalksInv, RootInv, AskInv, [Next]_vars,
         asked /\ ~asked' => scan.pc = "reserved"
  PROVE  WalksOK' /\ WalksInv'
<1>1. CASE UNCHANGED <<scan, walking>>
  BY <1>1, WalksAlone
<1>2. CASE StartScan
  <2>1. scan.pc = "off" /\ UNCHANGED walking
    BY <1>2 DEF StartScan, FlagsOK, FrameInv, GuardCoversScan, ScanOK, ScanType
  <2> QED
    BY <2>1, WalksAlone
<1>3. CASE Frame
  BY <1>3, WalksAlone DEF Frame, BeginScan, SettleProgress, ClearAgain, ReleaseScan
<1>4. CASE Work
  <2>1. CASE SpawnWalk \/ CancelWalk \/ RecvEvent \/ JoinWalk
    BY <2>1, ScanWalks
  <2>2. CASE Work /\ ~(SpawnWalk \/ CancelWalk \/ RecvEvent \/ JoinWalk)
    <3>1. UNCHANGED walking
      BY <2>2 DEF Work, LookCancelled, SleepPaused, ScanCancelled, WalkTurn, RecvTimeout, LoadRows,
                  LoadRowsError, FilterTurn, DrainTurn, DrainEnd, EnqueueTurn, EnqueueError, EnqueueEnd
    <3>2. scan.pc \in {"walk", "recv"} => scan'.pc \in {"walk", "recv"}
      BY <2>2 DEF Work, LookCancelled, SleepPaused, ScanCancelled, WalkTurn, RecvTimeout, LoadRows,
                  LoadRowsError, FilterTurn, DrainTurn, DrainEnd, EnqueueTurn, EnqueueError, EnqueueEnd,
                  ScanOK, ScanType, Waiting, Turn
    <3> QED
      BY <3>1, <3>2, WalksAlone
  <2> QED
    BY <1>4, <2>1, <2>2
<1>5. CASE UserNext \/ HandlerNext
  BY <1>1, <1>2, <1>5, RequestMoves
<1>6. CASE \E w \in Walks : WalkNext(w)
  BY <1>6, ThreadWalks
<1>7. CASE UNCHANGED vars
  BY <1>1, <1>7 DEF vars
<1> QED
  BY <1>3, <1>4, <1>5, <1>6, <1>7, StepCases

-------------------------------------------------------------------------------
(* The roots.                                                                  *)

(* A thread changes neither its root nor whether it is heard. *)
LEMMA ThreadKeeps ==
  ASSUME WalksOK, NEW w \in Walks, WalkNext(w), NEW v \in Walks
  PROVE  walk'[v].heard = walk[v].heard /\ walk'[v].root = walk[v].root
<1>1. walk[w] \in WalkType /\ walk \in [Walks -> WalkType]
  BY DEF WalksOK
<1>2. CASE WalkStart(w) \/ WalkLook(w) \/ WalkSleep(w) \/ WalkStopped(w) \/ WalkUnheard(w)
           \/ WalkEnd(w)
  BY <1>1, <1>2
  DEF WalkType, WalkStart, WalkLook, WalkSleep, WalkStopped, WalkUnheard, WalkEnd
<1>3. CASE WalkVisit(w)
  BY <1>1, <1>3 DEF WalkType, WalkVisit
<1>4. CASE WalkSend(w)
  BY <1>1, <1>4 DEF WalkType, WalkSend
<1> QED
  BY <1>2, <1>3, <1>4 DEF WalkNext

(* A scan has as many walks to start as roots are left, and none when it is not walking. *)
LEMMA NextRoot ==
  ASSUME FlagsOK, ScanOK, WalksOK, FrameInv, WalksInv, RootInv, [Next]_vars
  PROVE  RootInv'
<1> DEFINE n == Len(Tree)
<1>1. /\ n \in Nat /\ scan.root \in 1..(n + 1) /\ spawned \in Nat /\ scans \in Nat
      /\ scans * n \in Nat /\ (scans + 1) * n = scans * n + n
      /\ spawned + ToWalk <= scans * n /\ scan \in ScanType
  <2>1. n \in Nat /\ scans \in Nat /\ scan \in ScanType
    BY TreeShape DEF FlagsOK, ScanOK
  <2>2. scans * n \in Nat /\ (scans + 1) * n = scans * n + n
    BY <2>1
  <2> QED
    BY <2>1, <2>2, ScanAssumption DEF RootInv, WalksOK, ScanType, ScanAssumption
<1>2. n \in Nat /\ scan.root \in 1..(n + 1) /\ scan.root \in Nat /\ scan \in ScanType
  BY <1>1
<1>3. ToWalk \in Nat /\ spawned <= scans * n
  <2>1. scan.pc \in Walking => scan.root <= n
    BY DEF RootInv
  <2>2. ToWalk \in Nat
    BY <1>2, <2>1 DEF ToWalk, Walking
  <2> QED
    BY <1>1, <2>2
<1>4. CASE UNCHANGED <<scan, scans, spawned>> /\ ~(scan.pc \in {"walk", "recv"})
  BY <1>1, <1>4 DEF RootInv, ToWalk, Walking
<1>5. CASE UNCHANGED <<scan, scans, walking>>
  BY <1>5 DEF RootInv, ToWalk
<1>6. CASE StartScan
  <2>1. /\ scan' = [scan EXCEPT !.pc = "reserved"] /\ scan.pc = "off"
        /\ scans' = scans + 1 /\ UNCHANGED walking
    BY <1>6 DEF StartScan, FlagsOK, FrameInv, GuardCoversScan
  <2>2. scan'.pc = "reserved" /\ spawned' = spawned
    BY <1>1, <2>1 DEF ScanType
  <2>3. ToWalk = 0 /\ ToWalk' = n
    BY <2>1, <2>2 DEF ToWalk
  <2> QED
    BY <1>1, <2>1, <2>2, <2>3 DEF RootInv, Walking, Sifting
<1>7. CASE BeginScan
  <2>1. scan.pc = "reserved" /\ UNCHANGED <<scans, walking>>
    BY <1>7 DEF BeginScan
  <2>4. CASE scan'.pc = "ending"
    <3>1. ToWalk' = 0
      BY <2>4 DEF ToWalk
    <3> QED
      BY SMTT(30), <1>1, <1>3, <2>1, <2>4, <3>1 DEF RootInv, Walking, Sifting
  <2> SUFFICES ASSUME scan'.pc # "ending" PROVE RootInv'
    BY <2>4
  <2>2. /\ scan'.root = 1 /\ scan'.pc = IF Tree = <<>> THEN "load" ELSE "root"
        /\ (Tree = <<>>) <=> n = 0
    BY <1>7, BeginningIs, EmptySeq, ScanAssumption DEF ScanAssumption
  <2>3. ToWalk = n /\ ToWalk' = n
    <3>1. CASE Tree = <<>>
      BY <2>1, <2>2, <3>1 DEF ToWalk
    <3>2. CASE Tree # <<>>
      BY <1>2, <2>1, <2>2, <3>2 DEF ToWalk
    <3> QED
      BY <3>1, <3>2
  <2> QED
    BY SMTT(30), <1>1, <2>1, <2>2, <2>3 DEF RootInv, Walking, Sifting
<1>8. CASE SettleProgress \/ ClearAgain \/ ReleaseScan
  <2>1. /\ UNCHANGED <<scans, walking>> /\ scan'.pc \in {"off", "settled", "cleared"}
    BY <1>1, <1>8 DEF SettleProgress, ClearAgain, ReleaseScan, ScanType
  <2>2. ToWalk' = 0
    BY <2>1 DEF ToWalk
  <2> QED
    BY SMTT(30), <1>1, <1>3, <2>1, <2>2 DEF RootInv, Walking, Sifting
<1>9. CASE Work /\ scan'.pc = "ending"
  <2>1. scans' = scans /\ spawned' = spawned /\ ToWalk' = 0
    BY <1>9, <1>1
    DEF Work, LookCancelled, SleepPaused, ScanCancelled, SpawnWalk, WalkTurn, CancelWalk, RecvEvent,
        RecvTimeout, JoinWalk, LoadRows, LoadRowsError, FilterTurn, DrainTurn, DrainEnd,
        EnqueueTurn, EnqueueError, EnqueueEnd, ToWalk, ScanType
  <2>2. spawned' + ToWalk' <= scans' * n
    BY <1>1, <1>3, <2>1
  <2> QED
    BY <1>9, <2>2 DEF RootInv, Walking, Sifting
<1>10. CASE SpawnWalk
  <2> DEFINE w == spawned + 1
  <2>1. scan.pc = "root" /\ scan.root <= n /\ w \in Walks
    BY <1>10, RoomToWalk DEF SpawnWalk, Turn, RootInv, Walking
  <2>2. /\ scan' = [scan EXCEPT !.pc = "walk", !.look = FALSE] /\ spawned' = w /\ scans' = scans
        /\ walk' = [walk EXCEPT ![w] = [walk[w] EXCEPT !.pc = "spawned", !.root = scan.root,
                                                       !.heard = TRUE]]
    BY <1>10 DEF SpawnWalk
  <2>3. scan'.pc = "walk" /\ scan'.root = scan.root
    BY <1>1, <2>2 DEF ScanType
  <2>4. walk'[w].heard /\ walk'[w].root = scan.root
    <3>1. walk'[w] = [walk[w] EXCEPT !.pc = "spawned", !.root = scan.root, !.heard = TRUE]
          /\ walk[w] \in WalkType
      BY <2>1, <2>2 DEF WalksOK
    <3> QED
      BY <3>1 DEF WalkType
  <2>5. ToWalk = (n + 1) - scan.root /\ ToWalk' = n - scan.root
    BY <2>1, <2>3 DEF ToWalk
  <2>6. w # 0 /\ w + ToWalk' <= scans * n
    BY <1>1, <2>5
  <2> QED
    BY <2>1, <2>2, <2>3, <2>4, <2>6 DEF RootInv, Walking, Sifting
<1>11. CASE WalkTurn \/ RecvTimeout \/ RecvEvent
  <2>1. /\ scan.pc \in {"walk", "recv"} /\ scan'.pc \in {"walk", "recv"} /\ scan'.root = scan.root
        /\ UNCHANGED <<scans, walk, spawned>>
    BY <1>1, <1>11 DEF WalkTurn, RecvTimeout, RecvEvent, Turn, ScanType
  <2>2. ToWalk' = ToWalk
    BY <2>1 DEF ToWalk
  <2> QED
    BY <1>1, <2>1, <2>2 DEF RootInv, Walking, Sifting
<1>12. CASE JoinWalk /\ scan'.pc # "ending"
  <2>1. /\ scan.pc = "recv" /\ spawned' = spawned /\ scans' = scans /\ scan.root <= n
        /\ scan' = [scan EXCEPT !.pc = IF scan.root = n THEN "load" ELSE "root", !.root = @ + 1]
    BY <1>1, <1>12 DEF JoinWalk, Ending, ScanType, RootInv, Walking
  <2>2. scan'.root = scan.root + 1 /\ scan'.pc = IF scan.root = n THEN "load" ELSE "root"
    BY <1>1, <2>1 DEF ScanType
  <2>3. ToWalk = n - scan.root
    BY <2>1 DEF ToWalk
  <2>4. ToWalk' = n - scan.root
    <3>1. CASE scan.root = n
      BY <1>2, <2>2, <3>1 DEF ToWalk
    <3>2. CASE scan.root # n
      BY <1>2, <2>2, <3>2 DEF ToWalk
    <3> QED
      BY <3>1, <3>2
  <2> QED
    BY SMTT(30), <1>1, <2>1, <2>2, <2>3, <2>4 DEF RootInv, Walking, Sifting
<1>13. CASE LookCancelled \/ SleepPaused
  <2>1. scan'.pc = scan.pc /\ scan'.root = scan.root /\ UNCHANGED <<scans, walking>>
    BY <1>1, <1>13 DEF LookCancelled, SleepPaused, ScanType
  <2> QED
    BY <1>1, <2>1 DEF RootInv, ToWalk
<1>14. CASE (LoadRows \/ FilterTurn \/ DrainTurn \/ DrainEnd \/ EnqueueTurn)
  <2>1. /\ scan.pc \in Sifting /\ scan'.pc \in Sifting /\ scan'.root = scan.root
        /\ UNCHANGED <<scans, walking>>
    <3>1. CASE LoadRows \/ DrainEnd \/ EnqueueTurn
      BY <1>1, <3>1 DEF LoadRows, DrainEnd, EnqueueTurn, Turn, Sifting, ScanType
    <3>2. CASE FilterTurn
      BY <1>1, <3>2 DEF FilterTurn, Turn, Judged, Sifting, ScanType
    <3>3. CASE DrainTurn
      BY <1>1, <3>3 DEF DrainTurn, Turn, Judged, Sifting, ScanType
    <3> QED
      BY <1>14, <3>1, <3>2, <3>3
  <2>2. ToWalk' = 0
    BY <2>1 DEF Sifting, ToWalk
  <2> QED
    BY <1>1, <1>3, <2>1, <2>2 DEF RootInv, Sifting, Walking
<1>15. CASE Work
  <2>1. ScanCancelled \/ CancelWalk \/ LoadRowsError \/ EnqueueError \/ EnqueueEnd
        => scan'.pc = "ending"
    BY <1>1 DEF ScanCancelled, CancelWalk, LoadRowsError, EnqueueError, EnqueueEnd, Ending, ScanType
  <2> QED
    BY <1>9, <1>10, <1>11, <1>12, <1>13, <1>14, <1>15, <2>1 DEF Work
<1>16. CASE \E w \in Walks : WalkNext(w)
  <2>1. PICK w \in Walks : WalkNext(w)
    BY <1>16
  <2>2. UNCHANGED <<scans, scan, spawned>>
    BY <2>1, ThreadMoves
  <2>3. ASSUME scan.pc \in {"walk", "recv"}
        PROVE  walk'[spawned].heard = walk[spawned].heard /\ walk'[spawned].root = walk[spawned].root
    <3>1. spawned \in Walks
      BY <2>3, InWalk
    <3>2. ASSUME NEW v \in Walks
          PROVE  walk'[v].heard = walk[v].heard /\ walk'[v].root = walk[v].root
      BY <2>1, ThreadKeeps
    <3> QED
      BY <3>1, <3>2
  <2>4. ToWalk' = ToWalk
    BY <2>2 DEF ToWalk
  <2> QED
    BY <1>1, <2>2, <2>3, <2>4 DEF RootInv
<1>17. CASE UserNext \/ HandlerNext
  BY <1>5, <1>6, <1>17, RequestMoves
<1>18. CASE UNCHANGED vars
  BY <1>5, <1>18 DEF vars
<1>19. CASE Frame
  BY <1>7, <1>8, <1>19 DEF Frame
<1> QED
  BY <1>15, <1>16, <1>17, <1>18, <1>19, StepCases

-------------------------------------------------------------------------------
(* The tally of events, and the count of the candidates. *)

(* A thread meets what it passes, or puts it into the channel. *)
LEMMA ThreadTally ==
  ASSUME ScanOK, WalksOK, WalksInv, RootInv, TallyInv, NEW w \in Walks, WalkNext(w)
  PROVE  TallyInv'
<1>1. scan' = scan /\ spawned' = spawned
  BY ThreadMoves
<1>2. SUFFICES ASSUME scan.pc \in {"walk", "recv"}
               PROVE  Arrived(scan.root, walk'[spawned].at, chan'[spawned],
                              scan.found, scan.skipped, scan.failed)
  BY <1>1 DEF TallyInv
<1>3. /\ spawned \in Walks /\ walk[spawned].root = scan.root /\ walk[spawned] \in WalkType
      /\ chan[spawned] \in Seq(Entries) /\ scan.root \in DOMAIN Tree
      /\ ThreadFits(walk[spawned], asked)
  BY <1>2, InWalk DEF WalksInv, WalkFits
<1>4. Arrived(scan.root, walk[spawned].at, chan[spawned], scan.found, scan.skipped, scan.failed)
  BY <1>2 DEF TallyInv
<1>5. PICK at : at = walk[spawned].at
  OBVIOUS
<1>6. PICK events : events = chan[spawned]
  OBVIOUS
<1>7. CASE WalkVisit(w) /\ w = spawned
  <2>1. walk[spawned].look /\ chan' = chan
    BY <1>7 DEF WalkVisit
  <2>2. at \in DOMAIN Tree[scan.root]
    BY <1>3, <1>5, <2>1 DEF ThreadFits
  <2>3. CASE Tree[scan.root][at] = "other"
    <3>1. walk'[spawned].at = at + 1
      <4>1. walk'[spawned] = [walk[spawned] EXCEPT !.look = FALSE, !.at = @ + 1]
        BY <1>3, <1>5, <1>7, <2>3 DEF WalkVisit, WalksOK, Entry, Listing
      <4> QED
        BY <1>3, <1>5, <4>1 DEF WalkType
    <3>2. Arrived(scan.root, at + 1, events, scan.found, scan.skipped, scan.failed)
      BY <1>3, <1>4, <1>5, <1>6, <2>2, <2>3, ArrivedPass
    <3> QED
      BY <1>6, <2>1, <3>1, <3>2
  <2>4. CASE Tree[scan.root][at] # "other"
    <3>1. walk'[spawned] = [walk[spawned] EXCEPT !.look = FALSE, !.pc = "send"]
      BY <1>3, <1>5, <1>7, <2>4 DEF WalkVisit, WalksOK, Entry, Listing
    <3>2. walk'[spawned].at = walk[spawned].at
      BY <1>3, <3>1 DEF WalkType
    <3> QED
      BY <1>4, <2>1, <3>2
  <2> QED
    BY <2>3, <2>4
<1>8. CASE WalkSend(w) /\ w = spawned
  <2>1. walk[spawned].pc = "send"
    BY <1>8 DEF WalkSend
  <2>2. at \in DOMAIN Tree[scan.root] /\ Tree[scan.root][at] # "other"
    BY <1>3, <1>5, <2>1 DEF ThreadFits
  <2>3. chan'[spawned] = Append(events, Tree[scan.root][at])
    BY <1>3, <1>5, <1>6, <1>8 DEF WalkSend, WalksOK, Entry, Listing
  <2>4. walk'[spawned].at = at + 1
    BY <1>3, <1>5, <1>8 DEF WalkSend, WalksOK, WalkType
  <2>5. Arrived(scan.root, at + 1, Append(events, Tree[scan.root][at]),
                scan.found, scan.skipped, scan.failed)
    BY <1>3, <1>4, <1>5, <1>6, <2>2, ArrivedSend
  <2> QED
    BY <2>3, <2>4, <2>5
<1>9. CASE ~(w = spawned /\ (WalkVisit(w) \/ WalkSend(w)))
  <2>1. walk'[spawned].at = walk[spawned].at
    <3>1. CASE WalkVisit(w) \/ WalkSend(w)
      <4>1. \A v \in Walks \ {w} : walk'[v] = walk[v]
        BY <3>1 DEF WalkVisit, WalkSend, WalksOK
      <4> QED
        BY <1>3, <1>9, <3>1, <4>1
    <3>2. CASE WalkStart(w) \/ WalkLook(w) \/ WalkSleep(w) \/ WalkStopped(w) \/ WalkUnheard(w)
               \/ WalkEnd(w)
      <4>1. walk[w] \in WalkType /\ walk \in [Walks -> WalkType] /\ spawned \in Walks
        BY <1>3 DEF WalksOK
      <4>2. CASE WalkStart(w)
        BY <4>1, <4>2 DEF WalkStart, WalkType
      <4>3. CASE WalkLook(w) \/ WalkSleep(w)
        BY <4>1, <4>3 DEF WalkLook, WalkSleep, WalkType
      <4>4. CASE WalkStopped(w)
        BY <4>1, <4>4 DEF WalkStopped, WalkType
      <4>5. CASE WalkUnheard(w) \/ WalkEnd(w)
        BY <4>1, <4>5 DEF WalkUnheard, WalkEnd, WalkType
      <4> QED
        BY <3>2, <4>2, <4>3, <4>4, <4>5
    <3> QED
      BY <3>1, <3>2 DEF WalkNext
  <2>2. chan'[spawned] = chan[spawned]
    BY <1>3, <1>9 DEF WalkNext, WalkStart, WalkLook, WalkSleep, WalkVisit, WalkStopped, WalkSend,
                      WalkUnheard, WalkEnd, WalksOK
  <2> QED
    BY <1>4, <2>1, <2>2
<1> QED
  BY <1>7, <1>8, <1>9

(* Before anything was met, there is nothing to tally. *)
LEMMA TallyNothing == Tally(<<>>, 0, 0, Before(1)) /\ (Tree = <<>> => Events = Before(1))
<1>1. Before(1) = {} /\ Before(Len(Tree) + 1) = Events
  BY Bounds
<1>2. IsFiniteSet({}) /\ Cardinality({}) = 0
  BY FS_EmptySet
<1>3. NamesOf({}) = {} /\ Distinct(<<>>) /\ Occurring(<<>>) = {}
  BY DEF NamesOf, Distinct, Occurring
<1>4. Tree = <<>> => Len(Tree) + 1 = 1
  OBVIOUS
<1>5. Tally(<<>>, 0, 0, {})
  <2>1. 0 = Len(<<>>) + 0 + 0
    OBVIOUS
  <2> QED
    BY <1>2, <1>3, <2>1 DEF Tally
<1> QED
  BY <1>1, <1>4, <1>5

(* The steps of the loop over the roots. *)
LEMMA WalkTally ==
  ASSUME FlagsOK, ScanOK, WalksOK, WalksInv, RootInv, TallyInv,
         SpawnWalk \/ RecvEvent \/ (JoinWalk /\ scan'.pc # "ending")
  PROVE  TallyInv'
<1>0. scan \in ScanType
  BY DEF ScanOK
<1>1. CASE SpawnWalk
  <2> DEFINE w == spawned + 1
  <2>1. scan.pc = "root" /\ w \in Walks /\ scan.root \in DOMAIN Tree
    <3>1. scan.pc = "root"
      BY <1>1 DEF SpawnWalk, Turn
    <3> QED
      BY <1>0, <3>1, RoomToWalk, TreeShape DEF RootInv, Walking, ScanType
  <2>2. walk[w] = FreshWalk /\ chan[w] = <<>>
    <3>1. w > spawned
      BY TreeShape, ScanAssumption DEF WalksOK, ScanAssumption
    <3> QED
      BY <2>1, <3>1 DEF WalksInv, WalkFits
  <2>3. /\ scan' = [scan EXCEPT !.pc = "walk", !.look = FALSE] /\ spawned' = w /\ chan' = chan
        /\ walk' = [walk EXCEPT ![w] = [walk[w] EXCEPT !.pc = "spawned", !.root = scan.root,
                                                       !.heard = TRUE]]
    BY <1>1 DEF SpawnWalk
  <2>4. walk'[w].at = 1 /\ chan'[w] = <<>>
    <3>1. walk'[w] = [FreshWalk EXCEPT !.pc = "spawned", !.root = scan.root, !.heard = TRUE]
      BY <2>1, <2>2, <2>3 DEF WalksOK
    <3> QED
      BY <2>2, <2>3, <3>1 DEF FreshWalk
  <2>5. /\ scan'.pc = "walk" /\ scan'.root = scan.root /\ scan'.found = scan.found
        /\ scan'.skipped = scan.skipped /\ scan'.failed = scan.failed
    BY <1>0, <2>3 DEF ScanType
  <2>6. Arrived(scan.root, 1, <<>>, scan.found, scan.skipped, scan.failed)
    BY <2>1, ArrivedStart DEF TallyInv
  <2> QED
    BY <2>3, <2>4, <2>5, <2>6 DEF TallyInv
<1>2. CASE RecvEvent \/ (JoinWalk /\ scan'.pc # "ending")
  <2>1. scan.pc = "recv"
    BY <1>2 DEF RecvEvent, JoinWalk
  <2>2. /\ spawned \in Walks /\ walk[spawned].heard /\ walk[spawned].root = scan.root
        /\ walk[spawned].at \in Nat /\ chan[spawned] \in Seq(Entries) /\ scan.root \in DOMAIN Tree
        /\ ThreadFits(walk[spawned], asked)
    BY <2>1, InWalk DEF WalksInv, WalkFits, WalkType
  <2>3. Arrived(scan.root, walk[spawned].at, chan[spawned], scan.found, scan.skipped, scan.failed)
    BY <2>1 DEF TallyInv
  <2>4. /\ scan.found \in Seq(Files) /\ scan.skipped \in Nat /\ scan.failed \in Nat
        /\ scan.root \in Nat
    BY <1>0 DEF ScanType
  <2>5. CASE RecvEvent
    <3>1. PICK event : event = Head(chan[spawned])
      OBVIOUS
    <3> DEFINE next == [scan EXCEPT !.pc = "walk"]
    <3>2. /\ chan[spawned] # <<>> /\ chan'[spawned] = Tail(chan[spawned])
          /\ walk' = walk /\ spawned' = spawned
          /\ scan' = IF event = "broken" THEN [next EXCEPT !.failed = @ + 1]
                     ELSE IF event \in Seen THEN [next EXCEPT !.skipped = @ + 1]
                     ELSE [next EXCEPT !.found = Append(@, event)]
      BY <2>2, <2>5, <3>1 DEF RecvEvent, WalksOK
    <3>3. /\ event \in Files \union {"broken"}
          /\ event = "broken" => Arrived(scan.root, walk[spawned].at, Tail(chan[spawned]),
                                         scan.found, scan.skipped, scan.failed + 1)
          /\ event \in Occurring(scan.found) =>
                Arrived(scan.root, walk[spawned].at, Tail(chan[spawned]),
                        scan.found, scan.skipped + 1, scan.failed)
          /\ event \in Files \ Occurring(scan.found) =>
                Arrived(scan.root, walk[spawned].at, Tail(chan[spawned]),
                        Append(scan.found, event), scan.skipped, scan.failed)
      BY <2>2, <2>3, <2>4, <3>1, <3>2, ArrivedReceive
    <3>4. Seen = Occurring(scan.found)
      BY DEF Seen, Occurring
    <3>5. /\ next.pc = "walk" /\ next.root = scan.root /\ next.found = scan.found
          /\ next.skipped = scan.skipped /\ next.failed = scan.failed /\ next \in ScanType
      BY <1>0 DEF ScanType, ScanPoints
    <3> HIDE DEF next
    <3>6. scan'.pc = "walk" /\ scan'.root = scan.root
      BY <3>2, <3>5 DEF ScanType
    <3>7. Arrived(scan.root, walk[spawned].at, Tail(chan[spawned]),
                  scan'.found, scan'.skipped, scan'.failed)
      <4>1. CASE event = "broken"
        <5>1. /\ scan'.found = scan.found /\ scan'.skipped = scan.skipped
              /\ scan'.failed = scan.failed + 1
          BY <3>2, <3>5, <4>1 DEF ScanType
        <5> QED
          BY <3>3, <4>1, <5>1
      <4>2. CASE event # "broken" /\ event \in Seen
        <5>1. /\ scan'.found = scan.found /\ scan'.skipped = scan.skipped + 1
              /\ scan'.failed = scan.failed
          BY <3>2, <3>5, <4>2 DEF ScanType
        <5> QED
          BY <3>3, <3>4, <4>2, <5>1
      <4>3. CASE event # "broken" /\ event \notin Seen
        <5>1. /\ scan'.found = Append(scan.found, event) /\ scan'.skipped = scan.skipped
              /\ scan'.failed = scan.failed
          BY <3>2, <3>5, <4>3 DEF ScanType
        <5> QED
          BY <3>3, <3>4, <4>3, <5>1
      <4> QED
        BY <4>1, <4>2, <4>3
    <3> QED
      BY <3>2, <3>6, <3>7 DEF TallyInv
  <2>6. CASE JoinWalk /\ scan'.pc # "ending"
    <3>1. /\ chan[spawned] = <<>> /\ walk[spawned].pc = "done" /\ ~walk[spawned].stopped
          /\ scan' = [scan EXCEPT !.pc = IF scan.root = Len(Tree) THEN "load" ELSE "root",
                                  !.root = @ + 1]
      BY <1>0, <2>6 DEF JoinWalk, Ending, ScanType
    <3>2. walk[spawned].at > Len(Tree[scan.root])
      BY <2>2, <3>1 DEF ThreadFits
    <3>3. Tally(scan.found, scan.skipped, scan.failed, Before(scan.root + 1))
      BY <2>2, <2>3, <3>1, <3>2, ArrivedEnd
    <3>4. /\ scan'.pc = IF scan.root = Len(Tree) THEN "load" ELSE "root"
          /\ scan'.root = scan.root + 1 /\ scan'.found = scan.found
          /\ scan'.skipped = scan.skipped /\ scan'.failed = scan.failed
      BY <1>0, <3>1 DEF ScanType
    <3>5. scan.root = Len(Tree) => Before(scan.root + 1) = Events
      BY Bounds
    <3> QED
      BY <3>3, <3>4, <3>5 DEF TallyInv
  <2> QED
    BY <1>2, <2>5, <2>6
<1> QED
  BY <1>1, <1>2

(* Every step keeps the tally of what the scan found, skipped and failed at. *)
LEMMA NextTally ==
  ASSUME FlagsOK, ScanOK, WalksOK, FrameInv, WalksInv, RootInv, TallyInv, [Next]_vars
  PROVE  TallyInv'
<1>0. scan \in ScanType
  BY DEF ScanOK
<1>1. CASE UNCHANGED <<scan, walking>>
  BY <1>1 DEF TallyInv
<1>2. CASE scan'.pc \notin {"root", "walk", "recv", "load"}
  BY <1>2 DEF TallyInv
<1>3. CASE BeginScan
  <2>1. /\ scan'.found = <<>> /\ scan'.skipped = 0 /\ scan'.failed = 0 /\ scan'.root = 1
        /\ \/ scan'.pc = IF Tree = <<>> THEN "load" ELSE "root"
           \/ scan'.pc = "ending"
    BY <1>3, BeginningIs
  <2> QED
    BY <1>2, <2>1, TallyNothing DEF TallyInv
<1>4. CASE LookCancelled \/ SleepPaused \/ WalkTurn \/ RecvTimeout
  <2>1. /\ UNCHANGED walking /\ scan'.root = scan.root /\ scan'.found = scan.found
        /\ scan'.skipped = scan.skipped /\ scan'.failed = scan.failed
        /\ \/ scan.pc \in {"walk", "recv"} /\ scan'.pc \in {"walk", "recv"}
           \/ scan'.pc = scan.pc
    BY <1>0, <1>4 DEF LookCancelled, SleepPaused, WalkTurn, RecvTimeout, Turn, ScanType
  <2> QED
    BY <2>1 DEF TallyInv
<1>5. CASE Work
  <2>1. CASE SpawnWalk \/ RecvEvent \/ (JoinWalk /\ scan'.pc # "ending")
    BY <2>1, WalkTally
  <2>2. CASE ScanCancelled \/ CancelWalk \/ LoadRows \/ LoadRowsError \/ FilterTurn \/ DrainTurn
             \/ DrainEnd \/ EnqueueTurn \/ EnqueueError \/ EnqueueEnd
    <3>1. scan'.pc \in {"ending", "filter", "drain", "enqueue"}
      <4>1. CASE ScanCancelled \/ CancelWalk \/ LoadRows \/ LoadRowsError
        BY <1>0, <4>1 DEF ScanCancelled, CancelWalk, LoadRows, LoadRowsError, Ending, ScanType
      <4>2. CASE FilterTurn \/ DrainTurn \/ DrainEnd
        BY <1>0, <4>2 DEF FilterTurn, DrainTurn, DrainEnd, Ending, Turn, Judged, ScanType
      <4>3. CASE EnqueueTurn \/ EnqueueError \/ EnqueueEnd
        BY <1>0, <4>3 DEF EnqueueTurn, EnqueueError, EnqueueEnd, Ending, Turn, ScanType
      <4> QED
        BY <2>2, <4>1, <4>2, <4>3
    <3> QED
      BY <1>2, <3>1
  <2> QED
    BY <1>2, <1>4, <1>5, <2>1, <2>2 DEF Work
<1>6. CASE UserNext \/ HandlerNext
  <2>1. StartScan => scan'.pc = "reserved"
    BY <1>0 DEF StartScan, ScanType
  <2> QED
    BY <1>1, <1>2, <1>6, <2>1, RequestMoves
<1>7. CASE Frame
  <2>1. SettleProgress \/ ClearAgain \/ ReleaseScan => scan'.pc \in {"settled", "cleared", "off"}
    BY <1>0 DEF SettleProgress, ClearAgain, ReleaseScan, ScanType
  <2> QED
    BY <1>2, <1>3, <1>7, <2>1 DEF Frame
<1>8. CASE \E w \in Walks : WalkNext(w)
  BY <1>8, ThreadTally
<1>9. CASE UNCHANGED vars
  BY <1>1, <1>9 DEF vars
<1> QED
  BY <1>5, <1>6, <1>7, <1>8, <1>9, StepCases

(* The steps of the walk leave the later counters at zero. *)
LEMMA WalkCount ==
  ASSUME ScanOK, CountInv, scan.pc \in Walking, scan.result = "none",
         UNCHANGED <<scan.todo, scan.tasks, scan.ready, scan.queued>>,
         scan'.pc \in Walking \union {"load"}, scan'.result = "none"
  PROVE  CountInv'
  BY DEF CountInv, Walking, Sifting

(* What the filter, the drain and the enqueueing do to the candidates and the counters. *)
Placed ==
    /\ \/ scan.pc \in {"filter", "drain", "enqueue"} /\ scan.result = "none"
       \/ scan.pc = "ending" /\ scan.todo = 0 /\ scan.tasks = 0 /\ scan.ready = 0
    /\ scan.pc = "filter" => scan.todo # 0
    /\ scan.pc \in {"drain", "enqueue"} => scan.todo = 0
    /\ scan.pc = "enqueue" => scan.tasks = 0

(* Where a joined candidate goes, the sum stays. *)
LEMMA JudgedCount ==
  ASSUME NEW next \in ScanType, scan' \in Judged(next), scan \in ScanType,
         next.skipped = scan.skipped, next.failed = scan.failed, next.ready = scan.ready,
         next.queued = scan.queued, next.todo + next.tasks + 1 = scan.todo + scan.tasks,
         scan.todo + scan.tasks \in Nat, next.todo + next.tasks \in Nat
  PROVE  Counted' = Counted
<1>1. /\ scan' \in ScanType /\ scan'.todo = next.todo /\ scan'.tasks = next.tasks
      /\ scan'.queued = next.queued
      /\ scan'.ready + scan'.skipped + scan'.failed
           = next.ready + next.skipped + next.failed + 1
  BY JudgedMoves
<1>2. ASSUME NEW s \in ScanType
      PROVE  /\ s.todo \in Nat /\ s.tasks \in Nat /\ s.ready \in Nat /\ s.queued \in Nat
             /\ s.skipped \in Nat /\ s.failed \in Nat
             /\ s.todo + s.tasks + s.ready + s.queued + s.skipped + s.failed
                  = (s.todo + s.tasks) + s.queued + (s.ready + s.skipped + s.failed)
  <2>1. /\ s.todo \in Nat /\ s.tasks \in Nat /\ s.ready \in Nat /\ s.queued \in Nat
        /\ s.skipped \in Nat /\ s.failed \in Nat
    BY ScanAssumption DEF ScanType, ScanAssumption
  <2> QED
    BY <2>1
<1>3. Counted = (scan.todo + scan.tasks) + scan.queued
                + (scan.ready + scan.skipped + scan.failed)
  BY <1>2 DEF Counted
<1>4. Counted' = (next.todo + next.tasks) + next.queued
                 + (next.ready + next.skipped + next.failed + 1)
  <2>1. scan'.todo + scan'.tasks + scan'.ready + scan'.queued + scan'.skipped + scan'.failed
        = (scan'.todo + scan'.tasks) + scan'.queued
          + (scan'.ready + scan'.skipped + scan'.failed)
    BY <1>1, <1>2
  <2> QED
    BY <1>1, <2>1 DEF Counted
<1> QED
  BY <1>2, <1>3, <1>4

(* Filtering, draining and enqueueing lose no candidate from the count. *)
LEMMA SiftCount ==
  ASSUME ScanOK, CountInv, scan.result = "none",
         FilterTurn \/ DrainTurn \/ DrainEnd \/ EnqueueTurn \/ EnqueueEnd
  PROVE  CountInv'
<1>1. /\ scan \in ScanType /\ Concurrency \in Nat /\ Batch \in Nat
      /\ scan.todo \in Nat /\ scan.tasks \in Nat /\ scan.ready \in Nat /\ scan.queued \in Nat
      /\ scan.skipped \in Nat /\ scan.failed \in Nat /\ scan.tasks <= Concurrency
  BY ScanAssumption DEF ScanOK, ScanType, ScanAssumption
<1>2. scan.pc \in {"filter", "drain", "enqueue"}
  BY DEF FilterTurn, DrainTurn, DrainEnd, EnqueueTurn, EnqueueEnd, Turn
<1>3. /\ Counted = Cardinality(Events)
      /\ Distinct(scan.found) /\ Occurring(scan.found) = Expected
      /\ scan.pc = "filter" => scan.todo # 0
      /\ scan.pc \in {"drain", "enqueue"} => scan.todo = 0
      /\ scan.pc = "enqueue" => scan.tasks = 0
  BY <1>2 DEF CountInv, Sifting
<1>4. ASSUME scan'.found = scan.found, Counted' = Counted, Placed' PROVE CountInv'
  <2>1. scan'.pc \notin Walking \union {"load"}
    BY <1>4 DEF Placed, Walking
  <2> QED
    BY <1>3, <1>4, <2>1 DEF CountInv, Placed
<1>5. CASE FilterTurn
  <2> DEFINE next == [scan EXCEPT !.look = FALSE, !.todo = @ - 1,
                                  !.pc = IF scan.todo = 1 THEN "drain" ELSE "filter"]
  <2>1. scan.todo # 0 /\ scan.todo - 1 \in Nat
    BY <1>1, <1>3, <1>5 DEF FilterTurn, Turn
  <2>2. next \in ScanType
    BY <1>1, <2>1 DEF ScanType, ScanPoints
  <2>3. /\ next.found = scan.found /\ next.todo = scan.todo - 1 /\ next.tasks = scan.tasks
        /\ next.ready = scan.ready /\ next.queued = scan.queued /\ next.skipped = scan.skipped
        /\ next.failed = scan.failed /\ next.result = "none"
        /\ next.pc = IF scan.todo = 1 THEN "drain" ELSE "filter"
    BY <1>1 DEF ScanType
  <2>4. CASE scan.tasks < Concurrency
    <3>1. scan' = [next EXCEPT !.tasks = @ + 1]
      BY <1>5, <2>4 DEF FilterTurn
    <3> HIDE DEF next
    <3>2. /\ scan'.found = next.found /\ scan'.todo = next.todo /\ scan'.tasks = next.tasks + 1
          /\ scan'.ready = next.ready /\ scan'.queued = next.queued
          /\ scan'.skipped = next.skipped /\ scan'.failed = next.failed
          /\ scan'.result = next.result /\ scan'.pc = next.pc
      BY <2>2, <3>1 DEF ScanType
    <3>3. Counted' = Counted
      BY <1>1, <2>3, <3>2 DEF Counted
    <3>4. Placed'
      BY <1>1, <2>1, <2>3, <3>2 DEF Placed
    <3> QED
      BY <1>4, <2>3, <3>2, <3>3, <3>4
  <2>5. CASE ~(scan.tasks < Concurrency)
    <3>1. scan' \in Judged(next)
      BY <1>5, <2>5 DEF FilterTurn
    <3> HIDE DEF next
    <3>2. /\ scan'.found = next.found /\ scan'.pc = next.pc
          /\ scan'.todo = next.todo /\ scan'.result = next.result
      BY <2>2, <3>1, JudgedMoves
    <3>3. next.todo + next.tasks + 1 = scan.todo + scan.tasks
          /\ scan.todo + scan.tasks \in Nat /\ next.todo + next.tasks \in Nat
      BY <1>1, <2>1, <2>3
    <3>4. Counted' = Counted
      BY <1>1, <2>2, <2>3, <3>1, <3>3, JudgedCount
    <3>5. Placed'
      BY <1>1, <2>1, <2>3, <3>2 DEF Placed
    <3> QED
      BY <1>4, <2>3, <3>2, <3>4, <3>5
  <2> QED
    BY <2>4, <2>5
<1>6. CASE DrainTurn
  <2> DEFINE next == [scan EXCEPT !.look = FALSE, !.tasks = @ - 1]
  <2>1. /\ scan.pc = "drain" /\ scan.tasks - 1 \in 0..Concurrency /\ scan' \in Judged(next)
    BY <1>1, <1>6 DEF DrainTurn, Turn, ScanOK, Waiting
  <2>2. next \in ScanType
    BY <1>1, <2>1 DEF ScanType
  <2>3. /\ next.found = scan.found /\ next.todo = scan.todo /\ next.tasks = scan.tasks - 1
        /\ next.ready = scan.ready /\ next.queued = scan.queued /\ next.skipped = scan.skipped
        /\ next.failed = scan.failed /\ next.result = "none" /\ next.pc = "drain"
    BY <1>1, <2>1 DEF ScanType
  <2> HIDE DEF next
  <2>4. /\ scan'.found = next.found /\ scan'.pc = next.pc
        /\ scan'.todo = next.todo /\ scan'.result = next.result
    BY <2>1, <2>2, JudgedMoves
  <2>5. next.todo + next.tasks + 1 = scan.todo + scan.tasks
        /\ scan.todo + scan.tasks \in Nat /\ next.todo + next.tasks \in Nat
    BY <1>1, <2>1, <2>3
  <2>6. Counted' = Counted
    BY <1>1, <2>1, <2>2, <2>3, <2>5, JudgedCount
  <2>7. Placed'
    BY <1>3, <2>1, <2>3, <2>4 DEF Placed
  <2> QED
    BY <1>4, <2>3, <2>4, <2>6, <2>7
<1>7. CASE DrainEnd
  <2>1. scan.pc = "drain" /\ scan.tasks = 0 /\ scan' = [scan EXCEPT !.pc = "enqueue"]
    BY <1>7 DEF DrainEnd
  <2>2. /\ scan'.found = scan.found /\ scan'.todo = scan.todo /\ scan'.tasks = scan.tasks
        /\ scan'.ready = scan.ready /\ scan'.queued = scan.queued /\ scan'.skipped = scan.skipped
        /\ scan'.failed = scan.failed /\ scan'.result = "none" /\ scan'.pc = "enqueue"
    BY <1>1, <2>1 DEF ScanType
  <2>3. Placed' /\ Counted' = Counted
    BY <1>3, <2>1, <2>2 DEF Placed, Counted
  <2> QED
    BY <1>4, <2>2, <2>3
<1>8. CASE EnqueueTurn
  <2> DEFINE chunk == IF scan.ready < Batch THEN scan.ready ELSE Batch
  <2>1. PICK inserted \in 0..chunk :
           scan' = [scan EXCEPT !.look = FALSE, !.ready = @ - chunk, !.queued = @ + inserted,
                                !.skipped = @ + (chunk - inserted)]
    BY <1>8 DEF EnqueueTurn
  <2>2. chunk \in Nat /\ scan.pc = "enqueue"
    BY <1>1, <1>8 DEF EnqueueTurn, Turn
  <2> HIDE DEF chunk
  <2>3. inserted \in Nat
    BY <2>1, <2>2
  <2>4. /\ scan'.found = scan.found /\ scan'.todo = scan.todo /\ scan'.tasks = scan.tasks
        /\ scan'.ready = scan.ready - chunk /\ scan'.queued = scan.queued + inserted
        /\ scan'.skipped = scan.skipped + (chunk - inserted)
        /\ scan'.failed = scan.failed /\ scan'.result = "none" /\ scan'.pc = "enqueue"
    BY <1>1, <2>1, <2>2 DEF ScanType
  <2>5. Counted' = Counted
    BY <1>1, <2>2, <2>3, <2>4 DEF Counted
  <2>6. Placed'
    BY <1>3, <2>2, <2>4 DEF Placed
  <2> QED
    BY <1>4, <2>4, <2>5, <2>6
<1>9. CASE EnqueueEnd
  <2>1. scan.pc = "enqueue" /\ scan.ready = 0 /\ scan' = Ending("completed")
    BY <1>9 DEF EnqueueEnd
  <2>2. /\ scan'.found = scan.found /\ scan'.todo = scan.todo /\ scan'.tasks = scan.tasks
        /\ scan'.ready = scan.ready /\ scan'.queued = scan.queued /\ scan'.skipped = scan.skipped
        /\ scan'.failed = scan.failed /\ scan'.pc = "ending"
    BY <1>1, <2>1 DEF ScanType, Ending
  <2>3. Placed' /\ Counted' = Counted
    BY <1>3, <2>1, <2>2 DEF Placed, Counted
  <2> QED
    BY <1>4, <2>2, <2>3
<1> QED
  BY <1>5, <1>6, <1>7, <1>8, <1>9

(* Every step keeps the count: each candidate is to do, in a task, ready or counted. *)
LEMMA NextCount ==
  ASSUME FlagsOK, ScanOK, FrameInv, TallyInv, CountInv, [Next]_vars
  PROVE  CountInv'
<1>0. scan \in ScanType
  BY DEF ScanOK
<1>1. CASE UNCHANGED scan
  BY <1>1 DEF CountInv, Counted
<1>2. CASE scan'.pc \notin Walking \union Sifting /\ scan'.result # "completed"
  BY <1>2 DEF CountInv, Walking, Sifting
<1>3. ASSUME NEW point \in ScanPoints, scan' = [scan EXCEPT !.pc = point],
             point \notin Walking \union Sifting
      PROVE  CountInv'
  <2>1. /\ scan'.found = scan.found /\ scan'.todo = scan.todo /\ scan'.tasks = scan.tasks
        /\ scan'.ready = scan.ready /\ scan'.queued = scan.queued /\ scan'.skipped = scan.skipped
        /\ scan'.failed = scan.failed /\ scan'.result = scan.result /\ scan'.pc = point
    BY <1>0, <1>3 DEF ScanType
  <2> QED
    BY <1>3, <2>1 DEF CountInv, Counted, Walking, Sifting
<1>4. CASE StartScan \/ SettleProgress \/ ClearAgain \/ ReleaseScan
  BY <1>3, <1>4 DEF StartScan, SettleProgress, ClearAgain, ReleaseScan, ScanPoints, Walking, Sifting
<1>5. CASE BeginScan
  <2>1. /\ scan'.todo = 0 /\ scan'.tasks = 0 /\ scan'.ready = 0 /\ scan'.queued = 0
        /\ \/ scan'.result = "none" /\ scan'.pc \in {"load", "root"}
           \/ scan'.result = "failed" /\ scan'.pc = "ending"
    BY <1>5, BeginningIs
  <2> QED
    BY <1>2, <2>1 DEF CountInv, Walking, Sifting
<1>6. CASE Work
  <2>1. scan.pc \in Walking \union Sifting /\ scan.result = "none"
    BY <1>6, WorkMoves DEF FrameInv
  <2>2. CASE LookCancelled \/ SleepPaused
    <3>1. /\ scan'.found = scan.found /\ scan'.todo = scan.todo /\ scan'.tasks = scan.tasks
          /\ scan'.ready = scan.ready /\ scan'.queued = scan.queued /\ scan'.skipped = scan.skipped
          /\ scan'.failed = scan.failed /\ scan'.result = scan.result /\ scan'.pc = scan.pc
      BY <1>0, <2>2 DEF LookCancelled, SleepPaused, ScanType
    <3> QED
      BY <3>1 DEF CountInv, Counted
  <2>3. CASE ScanCancelled \/ CancelWalk \/ LoadRowsError \/ EnqueueError
    <3>1. scan'.pc = "ending" /\ scan'.result \in {"cancelled", "failed"}
      BY <1>0, <2>3 DEF ScanCancelled, CancelWalk, LoadRowsError, EnqueueError, Ending, ScanType
    <3> QED
      BY <1>2, <3>1 DEF Walking, Sifting
  <2>4. CASE SpawnWalk \/ WalkTurn \/ RecvTimeout \/ RecvEvent
    <3>1. /\ scan.pc \in Walking /\ scan'.pc \in Walking /\ scan'.result = scan.result
          /\ UNCHANGED <<scan.todo, scan.tasks, scan.ready, scan.queued>>
      <4>1. CASE SpawnWalk \/ WalkTurn \/ RecvTimeout
        BY <1>0, <4>1 DEF SpawnWalk, WalkTurn, RecvTimeout, Turn, ScanType, Walking
      <4>2. CASE RecvEvent
        BY <1>0, <4>2 DEF RecvEvent, ScanType, Walking
      <4> QED
        BY <2>4, <4>1, <4>2
    <3> QED
      BY <2>1, <3>1, WalkCount
  <2>5. CASE JoinWalk
    <3>1. CASE scan' = Ending("cancelled") \/ scan' = Ending("failed")
      <4>1. scan'.pc = "ending" /\ scan'.result \in {"cancelled", "failed"}
        BY <1>0, <3>1 DEF Ending, ScanType
      <4> QED
        BY <1>2, <4>1 DEF Walking, Sifting
    <3>2. CASE scan' = [scan EXCEPT !.pc = IF scan.root = Len(Tree) THEN "load" ELSE "root",
                                    !.root = @ + 1]
      <4>1. /\ scan.pc \in Walking /\ scan'.pc \in Walking \union {"load"}
            /\ scan'.result = scan.result
            /\ UNCHANGED <<scan.todo, scan.tasks, scan.ready, scan.queued>>
        BY <1>0, <2>5, <3>2 DEF JoinWalk, ScanType, Walking
      <4> QED
        BY <2>1, <4>1, WalkCount
    <3> QED
      BY <2>5, <3>1, <3>2 DEF JoinWalk
  <2>6. CASE LoadRows
    <3>1. /\ scan.pc = "load" /\ scan.tasks = 0 /\ scan.ready = 0 /\ scan.queued = 0
          /\ scan' = [scan EXCEPT !.pc = IF scan.found = <<>> THEN "drain" ELSE "filter",
                                  !.todo = Len(scan.found)]
      BY <2>6 DEF LoadRows, CountInv
    <3>2. /\ scan'.found = scan.found /\ scan'.todo = Len(scan.found) /\ scan'.tasks = 0
          /\ scan'.ready = 0 /\ scan'.queued = 0 /\ scan'.skipped = scan.skipped
          /\ scan'.failed = scan.failed /\ scan'.result = "none"
          /\ scan'.pc = IF scan.found = <<>> THEN "drain" ELSE "filter"
      BY <1>0, <2>1, <3>1 DEF ScanType
    <3>3. /\ Cardinality(Events) = Len(scan.found) + scan.skipped + scan.failed
          /\ Distinct(scan.found) /\ Occurring(scan.found) = Expected
      BY <3>1, TallyAll DEF TallyInv
    <3>4. /\ Len(scan.found) \in Nat /\ scan.skipped \in Nat /\ scan.failed \in Nat
          /\ (scan.found = <<>> <=> Len(scan.found) = 0)
      BY <1>0, EmptySeq DEF ScanType
    <3>5. Counted' = Cardinality(Events)
      BY <3>2, <3>3, <3>4 DEF Counted
    <3> QED
      BY <3>2, <3>3, <3>4, <3>5 DEF CountInv, Walking, Sifting
  <2>7. CASE FilterTurn \/ DrainTurn \/ DrainEnd \/ EnqueueTurn \/ EnqueueEnd
    BY <2>1, <2>7, SiftCount
  <2> QED
    BY <1>6, <2>2, <2>3, <2>4, <2>5, <2>6, <2>7 DEF Work
<1>7. CASE UserNext \/ HandlerNext
  BY <1>1, <1>4, <1>7, RequestMoves
<1>8. CASE \E w \in Walks : WalkNext(w)
  BY <1>1, <1>8, ThreadMoves
<1>9. CASE UNCHANGED vars
  BY <1>1, <1>9 DEF vars
<1> QED
  BY <1>4, <1>5, <1>6, <1>7, <1>8, <1>9, StepCases DEF Frame

-------------------------------------------------------------------------------
(* The theorems.                                                               *)

(* The invariant holds at first, *)
LEMMA InitInv == Init => Inv
<1> SUFFICES ASSUME Init PROVE Inv
  OBVIOUS
<1>1. /\ scan = FreshScan /\ spawned = 0 /\ scans = 0 /\ stage = "idle"
      /\ walk = [w \in Walks |-> FreshWalk] /\ chan = [w \in Walks |-> <<>>]
      /\ running = FALSE /\ restoring = FALSE /\ cancelled = FALSE /\ paused = FALSE
      /\ canceller = FALSE /\ resumer = FALSE /\ requests = 0
      /\ asked = FALSE /\ halted = FALSE /\ turns = 0
  BY DEF Init
<1>2. /\ scan.pc = "off" /\ scan.look = FALSE /\ scan.found = <<>> /\ scan.todo = 0
      /\ scan.tasks = 0 /\ scan.ready = 0 /\ scan.result = "none"
  BY <1>1 DEF FreshScan
<1>3. /\ Len(Tree) \in Nat /\ DOMAIN Tree = 1..Len(Tree) /\ Concurrency \in Nat \ {0}
      /\ MaxScans \in Nat /\ MaxRequests \in Nat /\ Buffer \in Nat
      /\ MaxScans * Len(Tree) \in Nat
  BY TreeShape, ScanAssumption DEF ScanAssumption
<1>4. FlagsOK
  <2>1. 0 \in 0..MaxScans /\ 0 \in 0..MaxRequests /\ 0 \in Nat
    BY <1>3
  <2> QED
    BY <1>1, <2>1 DEF FlagsOK
<1>5. ScanOK
  <2>1. 1 \in 1..(Len(Tree) + 1) /\ 0 \in 0..Concurrency /\ <<>> \in Seq(Files) /\ Len(<<>>) = 0
    BY <1>3
  <2>2. scan \in ScanType
    BY <1>1, <2>1 DEF FreshScan, ScanType, ScanPoints
  <2>3. Room
    BY <1>2, <2>1 DEF Room
  <2> QED
    BY <1>2, <2>2, <2>3 DEF ScanOK, Room
<1>6. WalksOK /\ WalksInv
  <2>1. /\ FreshWalk.at = 1 /\ FreshWalk.pc = "none" /\ ~FreshWalk.look /\ ~FreshWalk.heard
        /\ FreshWalk.root = 1
    BY DEF FreshWalk
  <2>2. ASSUME NEW w \in Walks
        PROVE  /\ walk[w] = FreshWalk /\ chan[w] = <<>> /\ FreshWalk \in WalkType
               /\ ThreadFits(FreshWalk, asked)
    <3>1. walk[w] = FreshWalk /\ chan[w] = <<>>
      BY <1>1
    <3>2. 1 \in DOMAIN Tree
      <4>1. Len(Tree) # 0
        BY <1>3 DEF Walks
      <4> QED
        BY <1>3, <4>1
    <3>3. FreshWalk \in WalkType
      BY <3>2 DEF FreshWalk, WalkType, WalkPoints
    <3>4. 1 \in 1..(Len(Tree[1]) + 1)
      BY <3>2, TreeShape
    <3> QED
      BY <2>1, <3>1, <3>3, <3>4 DEF ThreadFits
  <2>3. walk \in [Walks -> WalkType] /\ chan \in [Walks -> Seq(Entries)]
    BY <1>1, <2>2
  <2>4. \A w \in Walks : Len(chan[w]) <= Buffer /\ ~walk[w].heard
    BY <1>3, <2>1, <2>2
  <2>5. WalksOK
    BY <1>1, <1>3, <2>3, <2>4 DEF WalksOK
  <2> QED
    BY <2>2, <2>5 DEF WalksInv, WalkFits
<1>7. FrameInv /\ TallyInv
  BY <1>1, <1>2 DEF FrameInv, GuardCoversScan, TallyInv, Walking, Sifting
<1>8. RootInv
  <2>1. ToWalk = 0 /\ scans * Len(Tree) = 0
    BY <1>1, <1>2, <1>3 DEF ToWalk
  <2> QED
    BY <1>1, <1>2, <2>1 DEF RootInv, Walking, Sifting
<1>9. CountInv /\ AskInv /\ PauseInv
  BY <1>1, <1>2 DEF CountInv, AskInv, PauseInv, Walking, Sifting
<1> QED
  BY <1>4, <1>5, <1>6, <1>7, <1>8, <1>9, TypeIs DEF Inv

(* is preserved by every step, *)
LEMMA NextInv == Inv /\ [Next]_vars => Inv'
<1> SUFFICES ASSUME Inv, [Next]_vars PROVE Inv'
  OBVIOUS
<1>1. /\ TypeOK /\ FlagsOK /\ ScanOK /\ WalksOK /\ FrameInv /\ WalksInv /\ RootInv /\ TallyInv
      /\ CountInv /\ AskInv /\ PauseInv
  BY TypeIs DEF Inv
<1>2. AskInv' /\ (asked /\ ~asked' => scan.pc = "reserved")
  BY <1>1, NextAsk
<1>3. FlagsOK' /\ FrameInv'
  BY <1>1, NextFrame
<1>4. ScanOK'
  BY <1>1, NextScanOK
<1>5. WalksOK' /\ WalksInv'
  BY <1>1, <1>2, NextWalks
<1>6. RootInv' /\ TallyInv' /\ CountInv' /\ PauseInv'
  BY <1>1, NextRoot, NextTally, NextCount, NextPause
<1>7. TypeOK'
  BY <1>3, <1>4, <1>5, TypeIs, PTL
<1> QED
  BY <1>2, <1>3, <1>5, <1>6, <1>7 DEF Inv

(* and so holds always. *)
LEMMA AlwaysInv == Spec => []Inv
  BY InitInv, NextInv, PTL DEF Spec

(* A sequence without repetition is as long as the set of what occurs in it is large. *)
LEMMA DistinctCount ==
  ASSUME NEW seq \in Seq(Files), Distinct(seq)
  PROVE  Cardinality(Occurring(seq)) = Len(seq)
<1>1. Len(seq) \in Nat /\ seq \in [1..Len(seq) -> Files] /\ DOMAIN seq = 1..Len(seq)
  OBVIOUS
<1>2. seq \in [1..Len(seq) -> Occurring(seq)]
  BY <1>1 DEF Occurring
<1>3. seq \in Bijection(1..Len(seq), Occurring(seq))
  BY <1>1, <1>2 DEF Bijection, Injection, IsInjective, Surjection, Occurring, Distinct
<1>4. ExistsBijection(1..Len(seq), Occurring(seq))
  BY <1>3 DEF ExistsBijection
<1> QED
  BY <1>1, <1>4, FS_CountingElements

(* The types; the guard of scan_running covers a scan from its acceptance to its end, and *)
(* never a scan and a restore at once; whoever sees no scan running sees no progress of   *)
(* one; and a completed scan accounts for each event of its walks exactly once, whatever  *)
(* order the threads, the channel and the filter tasks took (scan_now_reserved).          *)
THEOREM ScanInvariant == Spec => []ScanInv
<1>1. Inv => ScanInv
  <2> SUFFICES ASSUME Inv PROVE ScanInv
    OBVIOUS
  <2>1. TypeOK /\ GuardCoversScan /\ ScanOK
    BY TypeIs DEF Inv, FrameInv
  <2>2. StageIsSettled
    BY DEF Inv, FrameInv, GuardCoversScan, StageIsSettled
  <2>3. SummaryAddsUp
    <3> SUFFICES ASSUME scan.result = "completed"
                 PROVE  scan.queued + scan.skipped + scan.failed = Cardinality(Events)
      BY DEF SummaryAddsUp
    <3>1. Counted = Cardinality(Events) /\ scan.todo = 0 /\ scan.tasks = 0 /\ scan.ready = 0
      BY DEF Inv, CountInv
    <3>2. scan.queued \in Nat /\ scan.skipped \in Nat /\ scan.failed \in Nat
      BY <2>1 DEF ScanOK, ScanType
    <3> QED
      BY <3>1, <3>2 DEF Counted
  <2> QED
    BY <2>1, <2>2, <2>3 DEF ScanInv
<1> QED
  BY <1>1, AlwaysInv, PTL

(* A scan that leaves the walk uncancelled has received every subtitle file of every root *)
(* once, whatever the timer of the select!, the full channel, pauses and the end of the   *)
(* walking thread did meanwhile.                                                          *)
THEOREM EachFileOnce == Spec => []NothingMissed
<1>1. Inv => NothingMissed
  <2> SUFFICES ASSUME Inv, scan.pc \in Sifting \/ scan.result = "completed"
               PROVE  Seen = Expected /\ Cardinality(Seen) = Len(scan.found)
    BY DEF NothingMissed, Sifting
  <2>1. Distinct(scan.found) /\ Occurring(scan.found) = Expected
    <3>1. CASE scan.pc = "load"
      BY <3>1, TallyAll DEF Inv, TallyInv
    <3>2. CASE scan.pc # "load"
      BY <3>2 DEF Inv, CountInv
    <3> QED
      BY <3>1, <3>2
  <2>2. scan.found \in Seq(Files)
    BY TypeIs DEF Inv, ScanOK, ScanType
  <2>3. Seen = Occurring(scan.found)
    BY DEF Seen, Occurring
  <2> QED
    BY <2>1, <2>2, <2>3, DistinctCount
<1> QED
  BY <1>1, AlwaysInv, PTL

(* A scan reported as cancelled was cancelled after it began: a cancel of an earlier scan, *)
(* or of none, does not stop it (both calls of clear_scan_cancel).                         *)
THEOREM CancelsAreAsked == Spec => []CancelledWasAsked
<1>1. Inv => CancelledWasAsked
  BY DEF Inv, AskInv, CancelledWasAsked
<1> QED
  BY <1>1, AlwaysInv, PTL

(* After a pause the scan takes at most the one turn for which it had already looked, also *)
(* when a cancel then lifts the pause: cancel() stores cancelled before it clears paused.  *)
THEOREM PausesHold == Spec => []PauseHolds
<1>1. Inv => PauseHolds
  BY DEF Inv, PauseInv, PauseHolds
<1> QED
  BY <1>1, AlwaysInv, PTL

-------------------------------------------------------------------------------
(* The settings, and the scheduler that starts scans by one of them: a second  *)
(* component, with state of its own, which the scan does not look at.          *)

USE DEF counts, settingsHistory

(* What an undisturbed change relies on: while no other change of its kind has met it, *)
(* a handler is alone, what it will save is what memory holds, and what it has saved   *)
(* it holds too; a kind is clean only when nobody changes it.                          *)
Undisturbed ==
    /\ \A g, h \in Handlers :
          /\ handler[g].pc # "idle" /\ handler[h].pc # "idle"
          /\ handler[g].kind = handler[h].kind /\ handler[g].kind \notin met
          => g = h
    /\ \A h \in Handlers : handler[h].kind \notin met =>
          /\ handler[h].pc = "save" => handler[h].value = memory[handler[h].kind]
          /\ handler[h].pc = "notify" => saved[handler[h].kind] = {memory[handler[h].kind]}
    /\ \A k \in clean : InFlight(k) = {} /\ Load(k) = memory[k]

(* Why no second late scan begins: once one has, nothing was changed and announced since *)
(* (an announcement sets late back), so that the scheduler reads an interval of zero.    *)
SwitchedOff ==
    /\ late <= 1
    /\ late = 1 /\ "interval" \notin unsaved /\ InFlight("interval") = {} =>
          /\ memory.interval = 0
          /\ scheduler.pc \in {"chosen", "asleep"} => scheduler.interval = 0

(* The invariant. *)
SettingsSafe == SettingsTypeOK /\ ChangesAreHeard /\ SwitchedOff /\ Undisturbed

(* The one value of a singleton is what a restart loads. *)
LEMMA LoadSingleton == ASSUME NEW k, NEW v, saved[k] = {v} PROVE Load(k) = v
  BY DEF Load

(* Initially the defaults are in memory, nothing is saved and nobody is there. *)
LEMMA FirstSettings == SettingsInit => SettingsSafe
<1> SUFFICES ASSUME SettingsInit PROVE SettingsSafe
  OBVIOUS
<1> USE SettingsAssumption DEF SettingsAssumption, SettingsInit, Idle
<1>1. SettingsTypeOK
  BY DEF SettingsTypeOK, Values, Delays, Kinds
<1>2. ChangesAreHeard /\ SwitchedOff
  BY DEF ChangesAreHeard, SwitchedOff
<1>3. Undisturbed
  BY DEF Undisturbed, InFlight, Load
<1> QED
  BY <1>1, <1>2, <1>3 DEF SettingsSafe

(* What a request may ask for is, once bounded, within the limits. *)
LEMMA ChangesInLimits ==
  ASSUME SettingsTypeOK, NEW kind \in Kinds, NEW value \in Changes(kind)
  PROVE  value \in Values[kind]
<1> USE SettingsAssumption DEF SettingsAssumption
<1>1. CASE kind = "options"
  BY <1>1 DEF Changes, Values, SettingsTypeOK
<1>2. CASE kind = "interval"
  BY <1>2 DEF Changes, Values, Cap
<1>3. CASE kind = "limit"
  BY <1>3 DEF Changes, Values, Clamp
<1> QED
  BY <1>1, <1>2, <1>3 DEF Kinds

(* What a restart loads is a value of its kind. *)
LEMMA LoadsInLimits ==
  SettingsTypeOK => [k \in Kinds |-> Load(k)] \in [options : Values.options, interval : Delays,
                                           limit : Values.limit]
<1> SUFFICES ASSUME SettingsTypeOK
    PROVE  [k \in Kinds |-> Load(k)] \in [options : Values.options, interval : Delays,
                                          limit : Values.limit]
  OBVIOUS
<1>1. ASSUME NEW k \in Kinds PROVE Load(k) \in Values[k] \union {Defaults[k]}
  <2>1. CASE saved[k] = {}
    BY <2>1 DEF Load
  <2>2. CASE \E v \in Values[k] : saved[k] = {v}
    BY <2>2, LoadSingleton
  <2> QED
    BY <2>1, <2>2 DEF SettingsTypeOK
<1>2. /\ Load("options") \in Values.options /\ Load("interval") \in Delays
      /\ Load("limit") \in Values.limit
  BY <1>1, SettingsAssumption DEF Kinds, Values, Delays, SettingsAssumption
<1> QED
  BY <1>2 DEF Kinds

(* Every step keeps the invariant.  The conjuncts are disturbed by few actions each, so *)
(* the steps go action by action.                                                       *)
LEMMA ChangeKeeps == ASSUME SettingsSafe, NEW h \in Handlers, Change(h) PROVE SettingsSafe'
<1> DEFINE Sets(kind, value) ==
        /\ memory' = [memory EXCEPT ![kind] = value]
        /\ handler' = [handler EXCEPT ![h] = [pc |-> "save", kind |-> kind, value |-> value]]
        /\ clean' = clean \ {kind}
        /\ met' = IF InFlight(kind) = {} THEN met \ {kind} ELSE met \union {kind}
<1>a. PICK kind \in Kinds : \E value \in Changes(kind) : Sets(kind, value)
  BY DEF Change
<1>1. PICK value \in Changes(kind) : Sets(kind, value)
  BY <1>a
<1>2. /\ handler[h].pc = "idle"
      /\ UNCHANGED <<saved, version, scheduler, faults, scheduled, crashes, unsaved, late>>
  BY DEF Change
<1>3. value \in Values[kind]
  BY ChangesInLimits DEF SettingsSafe
<1> USE DEF Kinds
<1>4. SettingsTypeOK'
  <2>1. memory' \in [options : Values.options, interval : Delays, limit : Values.limit]
    BY <1>1, <1>3 DEF SettingsTypeOK, SettingsSafe, Delays
  <2>2. ASSUME NEW g \in Handlers
        PROVE  /\ handler'[g] \in [pc : {"idle", "save", "notify"}, kind : Kinds,
                                   value : Values[handler'[g].kind]]
               /\ handler'[g].pc = "notify" => handler'[g].kind = "interval"
    <3>1. CASE g = h
      BY <1>1, <1>3, <3>1 DEF SettingsTypeOK, SettingsSafe
    <3>2. CASE g # h
      BY <1>1, <3>2 DEF SettingsTypeOK, SettingsSafe
    <3> QED
      BY <3>1, <3>2
  <2>3. {clean', met'} \subseteq SUBSET Kinds
    BY <1>1 DEF SettingsTypeOK, SettingsSafe
  <2> QED
    BY <1>1, <1>2, <2>1, <2>2, <2>3 DEF SettingsTypeOK, SettingsSafe
<1>5. /\ h \in InFlight(kind)'
      /\ \A k \in Kinds \ {kind} : InFlight(k)' = InFlight(k) /\ memory'[k] = memory[k]
  BY <1>1, <1>2 DEF InFlight, SettingsSafe, SettingsTypeOK
<1>6. ChangesAreHeard' /\ SwitchedOff'
  BY <1>2, <1>5, <1>4 DEF ChangesAreHeard, SwitchedOff, SettingsSafe, SettingsTypeOK
<1>7. Undisturbed'
  <2> USE DEF Undisturbed, SettingsSafe, SettingsTypeOK
  <2>1. ASSUME NEW f \in Handlers, NEW g \in Handlers,
               handler'[f].pc # "idle", handler'[g].pc # "idle",
               handler'[f].kind = handler'[g].kind, handler'[f].kind \notin met'
        PROVE  f = g
    BY <1>1, <1>2, <2>1 DEF InFlight
  <2>2. ASSUME NEW g \in Handlers, handler'[g].kind \notin met'
        PROVE  /\ handler'[g].pc = "save" => handler'[g].value = memory'[handler'[g].kind]
               /\ handler'[g].pc = "notify" =>
                    saved'[handler'[g].kind] = {memory'[handler'[g].kind]}
    <3>1. CASE g = h
      BY <1>1, <3>1
    <3>2. CASE g # h
      BY <1>1, <1>2, <2>2, <3>2 DEF InFlight
    <3> QED
      BY <3>1, <3>2
  <2>3. ASSUME NEW k \in clean' PROVE InFlight(k)' = {} /\ Load(k)' = memory'[k]
    BY <1>1, <1>2, <1>5, <2>3 DEF Load
  <2> QED
    BY <2>1, <2>2, <2>3
<1> QED
  BY <1>4, <1>6, <1>7 DEF SettingsSafe

(* A change that ends, acknowledged or not, leaves the other handlers alone. *)
LEMMA SaveKeeps == ASSUME SettingsSafe, NEW h \in Handlers, Save(h) PROVE SettingsSafe'
<1> DEFINE kind == handler[h].kind
<1>1. /\ handler[h].pc = "save" /\ kind \in Kinds /\ handler[h].value \in Values[kind]
      /\ saved' = [saved EXCEPT ![kind] = {handler[h].value}]
      /\ UNCHANGED <<memory, version, scheduler, counts, met, unsaved, late>>
      /\ \/ /\ kind = "interval"
            /\ handler' = [handler EXCEPT ![h].pc = "notify"] /\ clean' = clean
         \/ /\ kind # "interval"
            /\ handler' = [handler EXCEPT ![h] = Idle]
            /\ clean' = IF kind \in met THEN clean ELSE clean \union {kind}
  BY DEF Save, Acknowledge, SettingsSafe, SettingsTypeOK
<1>2. /\ DOMAIN handler' = Handlers
      /\ \A g \in Handlers \ {h} : handler'[g] = handler[g]
      /\ \/ /\ kind = "interval" /\ clean' = clean
            /\ handler'[h] = [handler[h] EXCEPT !.pc = "notify"]
         \/ /\ kind # "interval"
            /\ handler'[h] = Idle
            /\ clean' = IF kind \in met THEN clean ELSE clean \union {kind}
  BY <1>1 DEF SettingsSafe, SettingsTypeOK
<1>3. Idle \in [pc : {"idle"}, kind : Kinds, value : Values["limit"]] /\ Idle.kind = "limit"
  BY SettingsAssumption DEF Idle, Kinds, Values, SettingsAssumption
<1>4. /\ DOMAIN saved' = Kinds /\ saved'[kind] = {handler[h].value}
      /\ \A k \in Kinds \ {kind} : saved'[k] = saved[k]
  BY <1>1 DEF SettingsSafe, SettingsTypeOK
<1> HIDE DEF kind
<1>5. SettingsTypeOK'
  <2>1. ASSUME NEW g \in Handlers
        PROVE  /\ handler'[g] \in [pc : {"idle", "save", "notify"}, kind : Kinds,
                                   value : Values[handler'[g].kind]]
               /\ handler'[g].pc = "notify" => handler'[g].kind = "interval"
    <3>1. CASE g = h
      BY <1>1, <1>2, <1>3, <3>1 DEF SettingsTypeOK, SettingsSafe, kind
    <3>2. CASE g # h
      BY <1>2, <3>2 DEF SettingsTypeOK, SettingsSafe
    <3> QED
      BY <3>1, <3>2
  <2>2. \A k \in Kinds : saved'[k] = {} \/ \E v \in Values[k] : saved'[k] = {v}
    BY <1>1, <1>4 DEF SettingsTypeOK, SettingsSafe
  <2>3. {clean', met'} \subseteq SUBSET Kinds
    BY <1>1 DEF SettingsTypeOK, SettingsSafe
  <2>4. /\ memory' \in [options : Values.options, interval : Delays, limit : Values.limit]
        /\ version' \in Nat /\ unsaved' \in SUBSET Kinds /\ late' \in Nat
        /\ scheduler' \in [pc : {"top", "chosen", "asleep", "scan"}, interval : Delays,
                           seen : 0..version']
    BY <1>1 DEF SettingsTypeOK, SettingsSafe
  <2>5. DOMAIN handler' = Handlers /\ DOMAIN saved' = Kinds
    BY <1>2, <1>4
  <2> QED
    BY <2>1, <2>2, <2>3, <2>4, <2>5 DEF SettingsTypeOK
<1>6. /\ InFlight("interval")' = InFlight("interval")
      /\ \A k \in Kinds \ {kind} : InFlight(k)' = InFlight(k)
      /\ \A k \in Kinds : InFlight(k)' \subseteq InFlight(k)
  <2>1. CASE kind = "interval"
    BY <1>1, <1>2, <2>1 DEF InFlight, SettingsSafe, SettingsTypeOK, kind
  <2>2. CASE kind # "interval"
    BY SMTT(30), <1>1, <1>2, <2>2 DEF InFlight, SettingsSafe, SettingsTypeOK, kind, Idle
  <2> QED
    BY <2>1, <2>2
<1>7. ChangesAreHeard' /\ SwitchedOff'
  BY <1>1, <1>6 DEF ChangesAreHeard, SwitchedOff, SettingsSafe, SettingsTypeOK
<1>8. Undisturbed'
  <2>1. ASSUME NEW f \in Handlers, NEW g \in Handlers,
               handler'[f].pc # "idle", handler'[g].pc # "idle",
               handler'[f].kind = handler'[g].kind, handler'[f].kind \notin met'
        PROVE  f = g
    BY <1>1, <1>2, <2>1 DEF Undisturbed, SettingsSafe, SettingsTypeOK, kind, Idle
  <2>2. ASSUME NEW g \in Handlers, handler'[g].kind \notin met'
        PROVE  /\ handler'[g].pc = "save" => handler'[g].value = memory'[handler'[g].kind]
               /\ handler'[g].pc = "notify" =>
                    saved'[handler'[g].kind] = {memory'[handler'[g].kind]}
    <3>1. CASE g = h
      BY <1>1, <1>2, <1>4, <2>2, <3>1 DEF Undisturbed, SettingsSafe, SettingsTypeOK, kind, Idle
    <3>2. CASE g # h
      <4>1. handler[g].pc = "notify" => handler[g].kind # kind
        BY <1>1, <1>2, <2>2, <3>2 DEF Undisturbed, SettingsSafe, SettingsTypeOK, kind
      <4> QED
        BY <1>1, <1>2, <1>4, <2>2, <3>2, <4>1 DEF Undisturbed, SettingsSafe, SettingsTypeOK
    <3> QED
      BY <3>1, <3>2
  <2>3. ASSUME NEW k \in clean' PROVE InFlight(k)' = {} /\ Load(k)' = memory'[k]
    <3>1. k \in Kinds
      BY <2>3, <1>5 DEF SettingsTypeOK
    <3>2. CASE k \in clean
      <4>1. InFlight(k) = {} /\ Load(k) = memory[k] /\ k # kind
        BY <1>1, <3>2 DEF Undisturbed, SettingsSafe, InFlight, kind
      <4> QED
        BY <1>1, <1>4, <1>6, <3>1, <4>1 DEF Load
    <3>3. CASE k \notin clean
      <4>1. k = kind /\ kind \notin met /\ handler'[h] = Idle
        BY <1>2, <2>3, <3>3
      <4>2. InFlight(k)' = {}
        BY <1>1, <1>2, <4>1 DEF InFlight, Undisturbed, SettingsSafe, kind, Idle
      <4>3. saved'[k] = {memory'[k]}
        BY <1>1, <1>4, <4>1 DEF Undisturbed, SettingsSafe, kind
      <4>4. Load(k)' = memory'[k]
        BY <4>3 DEF Load
      <4> QED
        BY <4>2, <4>4
    <3> QED
      BY <3>2, <3>3
  <2> QED
    BY <2>1, <2>2, <2>3 DEF Undisturbed
<1> QED
  BY <1>5, <1>7, <1>8 DEF SettingsSafe


(* A handler that fails to save, or that announces what it saved, is idle after. *)
LEMMA LastStepKeeps ==
  ASSUME SettingsSafe, NEW h \in Handlers, SaveError(h) \/ Notify(h) PROVE SettingsSafe'
<1> DEFINE kind == handler[h].kind
<1>1. /\ handler[h].pc # "idle" /\ kind \in Kinds
      /\ handler' = [handler EXCEPT ![h] = Idle]
      /\ UNCHANGED <<memory, saved, scheduler, met>>
      /\ \/ /\ clean' = clean /\ late' = late /\ version' = version
            /\ unsaved' = unsaved \union {kind}
         \/ /\ handler[h].pc = "notify" /\ kind = "interval"
            /\ version' = version + 1
            /\ clean' = IF kind \in met THEN clean ELSE clean \union {kind}
            /\ late' = 0 /\ unsaved' = unsaved \ {kind}
  BY DEF SaveError, Notify, Acknowledge, SettingsSafe, SettingsTypeOK
<1>2. /\ DOMAIN handler' = Handlers /\ handler'[h] = Idle
      /\ \A g \in Handlers \ {h} : handler'[g] = handler[g]
  BY <1>1 DEF SettingsSafe, SettingsTypeOK
<1>3. Idle \in [pc : {"idle"}, kind : Kinds, value : Values["limit"]] /\ Idle.kind = "limit"
  BY SettingsAssumption DEF Idle, Kinds, Values, SettingsAssumption
<1> HIDE DEF kind
<1>4. SettingsTypeOK'
  <2>1. ASSUME NEW g \in Handlers
        PROVE  /\ handler'[g] \in [pc : {"idle", "save", "notify"}, kind : Kinds,
                                   value : Values[handler'[g].kind]]
               /\ handler'[g].pc = "notify" => handler'[g].kind = "interval"
    <3>1. CASE g = h
      BY <1>2, <1>3, <3>1
    <3>2. CASE g # h
      BY <1>2, <3>2 DEF SettingsTypeOK, SettingsSafe
    <3> QED
      BY <3>1, <3>2
  <2>2. {clean', met', unsaved'} \subseteq SUBSET Kinds /\ late' \in Nat /\ version' \in Nat
    BY <1>1 DEF SettingsTypeOK, SettingsSafe
  <2>3. scheduler' \in [pc : {"top", "chosen", "asleep", "scan"}, interval : Delays,
                        seen : 0..version']
    BY <1>1 DEF SettingsTypeOK, SettingsSafe
  <2> QED
    BY <1>1, <1>2, <2>1, <2>2, <2>3 DEF SettingsTypeOK, SettingsSafe
<1>5. /\ \A k \in Kinds \ {kind} : InFlight(k)' = InFlight(k)
      /\ \A k \in Kinds : InFlight(k)' \subseteq InFlight(k)
  BY <1>1, <1>2 DEF InFlight, Idle, kind
<1>6. ChangesAreHeard' /\ SwitchedOff'
  <2>1. CASE unsaved' = unsaved \union {kind} /\ late' = late /\ version' = version
    BY <1>1, <1>5, <2>1 DEF ChangesAreHeard, SwitchedOff, SettingsSafe, Kinds
  <2>2. CASE late' = 0 /\ version' = version + 1
    BY <1>1, <2>2 DEF ChangesAreHeard, SwitchedOff, SettingsSafe, SettingsTypeOK
  <2> QED
    BY <1>1, <2>1, <2>2
<1>7. Undisturbed'
  <2>1. ASSUME NEW f \in Handlers, NEW g \in Handlers,
               handler'[f].pc # "idle", handler'[g].pc # "idle",
               handler'[f].kind = handler'[g].kind, handler'[f].kind \notin met'
        PROVE  f = g
    BY <1>1, <1>2, <2>1 DEF Undisturbed, SettingsSafe, Idle
  <2>2. ASSUME NEW g \in Handlers, handler'[g].kind \notin met'
        PROVE  /\ handler'[g].pc = "save" => handler'[g].value = memory'[handler'[g].kind]
               /\ handler'[g].pc = "notify" =>
                    saved'[handler'[g].kind] = {memory'[handler'[g].kind]}
    BY <1>1, <1>2, <2>2 DEF Undisturbed, SettingsSafe, Idle
  <2>3. ASSUME NEW k \in clean' PROVE InFlight(k)' = {} /\ Load(k)' = memory'[k]
    <3>1. k \in Kinds
      BY <2>3, <1>4 DEF SettingsTypeOK
    <3>2. CASE k \in clean
      BY <1>1, <1>5, <3>1, <3>2 DEF Undisturbed, SettingsSafe, Load
    <3>3. CASE k \notin clean
      <4>1. k = kind /\ kind \notin met /\ handler[h].pc = "notify"
        BY <1>1, <2>3, <3>3
      <4>2. InFlight(k)' = {}
        BY <1>1, <1>2, <4>1 DEF InFlight, Undisturbed, SettingsSafe, kind, Idle
      <4>3. saved[k] = {memory[k]}
        BY <4>1 DEF Undisturbed, SettingsSafe, kind
      <4>4. Load(k)' = memory'[k]
        BY <1>1, <4>3 DEF Load
      <4> QED
        BY <4>2, <4>4
    <3> QED
      BY <3>2, <3>3
  <2> QED
    BY <2>1, <2>2, <2>3 DEF Undisturbed
<1> QED
  BY <1>4, <1>6, <1>7 DEF SettingsSafe

(* The turns of the scheduler leave the settings and their handlers alone. *)
LEMMA SchedulerKeeps ==
  ASSUME SettingsSafe, SchedulerNext \/ TimerFires PROVE SettingsSafe'
<1>1. UNCHANGED <<memory, saved, handler, version, clean, met, unsaved>>
  BY DEF SchedulerNext, ReadInterval, Sleep, Hear, EndScan, TimerFires
<1>2. Undisturbed'
  BY <1>1 DEF Undisturbed, InFlight, Load, SettingsSafe
<1>3. scheduler' \in [pc : {"top", "chosen", "asleep", "scan"}, interval : Delays,
                      seen : 0..version]
  <2>1. memory.interval \in Delays /\ version \in 0..version
    BY DEF SettingsSafe, SettingsTypeOK
  <2> QED
    BY <2>1 DEF SchedulerNext, ReadInterval, Sleep, Hear, EndScan, TimerFires, Goto, SettingsSafe, SettingsTypeOK
<1>4. late' \in Nat
  BY DEF SchedulerNext, ReadInterval, Sleep, Hear, EndScan, TimerFires, SettingsSafe, SettingsTypeOK
<1>5. SettingsTypeOK'
  BY <1>1, <1>3, <1>4 DEF SettingsSafe, SettingsTypeOK
<1>6. ChangesAreHeard'
  BY <1>1 DEF SchedulerNext, ReadInterval, Sleep, Hear, EndScan, TimerFires, Goto, SettingsSafe,
              SettingsTypeOK, ChangesAreHeard, InFlight
<1>7. SwitchedOff'
  <2>1. CASE SchedulerNext
    BY <1>1, <2>1 DEF SchedulerNext, ReadInterval, Sleep, Hear, EndScan, Goto, SettingsSafe, SettingsTypeOK,
                      SwitchedOff, InFlight
  <2>2. CASE TimerFires
    BY <1>1, <2>2 DEF TimerFires, Goto, SettingsSafe, SettingsTypeOK, SwitchedOff, InFlight
  <2> QED
    BY <2>1, <2>2
<1> QED
  BY <1>2, <1>5, <1>6, <1>7 DEF SettingsSafe

(* A restart loads values within their limits, and nobody has changed any yet. *)
LEMMA CrashKeeps == ASSUME SettingsSafe, Crash PROVE SettingsSafe'
<1> USE SettingsAssumption DEF SettingsAssumption
<1>1. memory' \in [options : Values.options, interval : Delays, limit : Values.limit]
  BY LoadsInLimits DEF Crash, SettingsSafe
<1>2. \A h \in Handlers : handler'[h] = Idle
  BY DEF Crash
<1>3. Idle \in [pc : {"idle"}, kind : Kinds, value : Values["limit"]] /\ Idle.kind = "limit"
  BY DEF Idle, Kinds, Values
<1>4. scheduler' \in [pc : {"top"}, interval : Delays, seen : 0..version']
  BY DEF Crash, Delays, Values
<1>5. SettingsTypeOK'
  BY <1>1, <1>2, <1>3, <1>4 DEF Crash, SettingsTypeOK, SettingsSafe
<1>6. ChangesAreHeard' /\ SwitchedOff'
  BY DEF Crash, ChangesAreHeard, SwitchedOff
<1>7. Undisturbed'
  BY <1>2 DEF Crash, Undisturbed, InFlight, Load, Idle
<1> QED
  BY <1>5, <1>6, <1>7 DEF SettingsSafe

(* Every step keeps the invariant. *)
LEMMA NextKeeps == SettingsSafe /\ [SettingsNext]_settingsVars => SettingsSafe'
<1> SUFFICES ASSUME SettingsSafe, [SettingsNext]_settingsVars PROVE SettingsSafe'
  OBVIOUS
<1>1. CASE \E h \in Handlers : Change(h) \/ Save(h) \/ SaveError(h) \/ Notify(h)
  BY <1>1, ChangeKeeps, SaveKeeps, LastStepKeeps
<1>2. CASE SchedulerNext \/ TimerFires
  BY <1>2, SchedulerKeeps
<1>3. CASE Crash
  BY <1>3, CrashKeeps
<1>4. CASE UNCHANGED settingsVars
  BY <1>4 DEF settingsVars, SettingsSafe, SettingsTypeOK, ChangesAreHeard, SwitchedOff, Undisturbed, InFlight, Load
<1> QED
  BY <1>1, <1>2, <1>3, <1>4 DEF SettingsNext

(* The invariant holds in every behaviour. *)
LEMMA AlwaysSafe == SettingsSpec => []SettingsSafe
  BY FirstSettings, NextKeeps, PTL DEF SettingsSpec

(* Types and limits hold, no change of the interval passes a scheduler that is about to *)
(* sleep, and after the schedule was acknowledged as off one scan at most begins, for   *)
(* any number of requests that overlap in any way, failing saves and restarts.          *)
THEOREM SettingsInvariant == SettingsSpec => []SettingsInv
<1>1. SettingsSafe => SettingsInv
  BY DEF SettingsSafe, SettingsInv, SwitchedOff, OneLateScan, SettingsTypeOK
<1> QED
  BY <1>1, AlwaysSafe, PTL

(* A change that was acknowledged and met no other of its kind is what a restart loads, *)
(* also when handlers of other kinds save, fail or announce in between.                 *)
THEOREM AcknowledgedIsLoaded == SettingsSpec => []AcknowledgedSurvives
<1>1. SettingsSafe => AcknowledgedSurvives
  BY DEF SettingsSafe, Undisturbed, AcknowledgedSurvives
<1> QED
  BY <1>1, AlwaysSafe, PTL
===============================================================================
