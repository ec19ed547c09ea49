--------------------------- MODULE SubtitleTextProofs ---------------------------
(***************************************************************************)
(* Proofs about SubtitleText, for every set of subtitles, options, fonts   *)
(* and names, every digest and every length of lines: reading a renamed    *)
(* text, what rewriting the drawings leaves, the loop over the fonts in    *)
(* use, and what stripping takes out.                                      *)
(***************************************************************************)
EXTENDS SubtitleText, DataProofs

-------------------------------------------------------------------------------
(* Reading a line.                                                             *)

States == [style : Styles, level : Int]    \* the style in effect and drawing_level

(* A word as a name: it is looked up by that word, and stripping '@' leaves it. *)
LEMMA NameTypes ==
    ASSUME NEW face \in Words
    PROVE  /\ Name(face) \in FontNames
           /\ Lookup(Name(face)) = face /\ NormFont(Name(face)) = Name(face)
<1>1. Name(face) \in FontNames /\ Name(face).at = FALSE /\ Name(face).face = face
  BY DEF Name, FontNames
<1>2. ASSUME NEW n \in FontNames, n.at = FALSE PROVE NormFont(n) = n
  BY <1>2 DEF FontNames, NormFont
<1> QED
  BY <1>1, <1>2 DEF Lookup

(* The style assumed for a line of no known style has the type of the others. *)
LEMMA ArialIsAStyle == Arial \in Styles
<1>1. Name("arial") \in FontNames
  BY TextAssumption, NameTypes DEF TextAssumption
<1> QED
  BY <1>1 DEF Arial, Styles

(* A tag leaves a style and a level.                                           *)
LEMMA TagTypes ==
    ASSUME NEW s \in States, NEW tag \in Tags, NEW base \in Styles,
           NEW styles, styles \in [DOMAIN styles -> Styles]
    PROVE  ApplyTag(s, tag, base, styles) \in States
<1>1. s.style \in Styles /\ s.level \in Int /\ tag.font \in FontNames /\ tag.num \in Int
  BY DEF States, Tags
<1>2. CASE tag.name = "fn"
  <2>1. NormFont(tag.font) \in FontNames
    BY <1>1 DEF NormFont, FontNames
  <2>2. [s EXCEPT !.style.font = NormFont(tag.font)] \in States
    BY <1>1, <2>1 DEF States, Styles
  <2> QED
    BY <1>2, <2>2 DEF ApplyTag
<1>3. CASE tag.name = "r"
  <2>1. Reset(s.style, tag, base, styles) \in Styles
    BY <1>1 DEF Reset
  <2>2. [s EXCEPT !.style = Reset(@, tag, base, styles)] \in States
    BY <1>1, <2>1 DEF States
  <2> QED
    BY <1>3, <2>2 DEF ApplyTag
<1>4. CASE tag.name = "b"
  <2>1. ASSUME NEW b \in BOOLEAN PROVE [s EXCEPT !.style.bold = b] \in States
    BY <1>1 DEF States, Styles
  <2>2. (tag.num = Empty \/ tag.num >= 600 \/ tag.num \in {1, -1}) \in BOOLEAN
    OBVIOUS
  <2> QED
    BY <1>4, <2>1, <2>2 DEF ApplyTag
<1>5. CASE tag.name = "i"
  <2>1. ASSUME NEW b \in BOOLEAN PROVE [s EXCEPT !.style.italic = b] \in States
    BY <1>1 DEF States, Styles
  <2>2. (tag.num \notin {Empty, Junk, 0}) \in BOOLEAN
    OBVIOUS
  <2> QED
    BY <1>5, <2>1, <2>2 DEF ApplyTag
<1>6. CASE tag.name = "p"
  <2>1. ASSUME NEW n \in Int PROVE [s EXCEPT !.level = n] \in States
    BY <1>1 DEF States
  <2> QED
    BY <1>1, <1>6, <2>1 DEF ApplyTag
<1> QED
  BY <1>2, <1>3, <1>4, <1>5, <1>6 DEF Tags

(* after[k] is what is in effect after the first k tags, starting from s.      *)
IsAfterTags(after, s, tags, base, styles) ==
    /\ after[0] = s
    /\ \A k \in 1..Len(tags) : after[k] = ApplyTag(after[k - 1], tags[k], base, styles)

(* The tags of a block are read one after the other, and leave a state: the recursion *)
(* of AfterTags defines what its equations say.                                       *)
LEMMA TagsRead ==
    ASSUME NEW s \in States, NEW tags \in Seq(Tags), NEW base \in Styles,
           NEW styles, styles \in [DOMAIN styles -> Styles]
    PROVE  \E after \in [0..Len(tags) -> States] :
              /\ IsAfterTags(after, s, tags, base, styles)
              /\ AfterTags(s, tags, base, styles) = after[Len(tags)]
<1> DEFINE n == Len(tags)
           step == [p \in (1..n) \X States |-> ApplyTag(p[2], tags[p[1]], base, styles)]
<1>1. n \in Nat /\ \A k \in 1..n : tags[k] \in Tags
  BY LenProperties, ElementOfSeq
<1> HIDE DEF n
<1>2. step \in [(1..n) \X States -> States]
  <2>1. ASSUME NEW p \in (1..n) \X States PROVE ApplyTag(p[2], tags[p[1]], base, styles) \in States
    <3>1. p[2] \in States /\ tags[p[1]] \in Tags
      BY <1>1
    <3> QED
      BY <3>1, TagTypes
  <2> QED
    BY <2>1
<1>3. \A k \in 1..n, t \in States : step[<<k, t>>] = ApplyTag(t, tags[k], base, styles)
  OBVIOUS
<1> HIDE DEF step
<1>4. PICK f \in [0..n -> States] : IsRecursion(f, n, s, step)
  BY <1>1, <1>2, RecursionExists
<1>5. IsAfterTags(f, s, tags, base, styles)
  <2>1. \A k \in 1..n : f[k - 1] \in States
    BY <1>1
  <2> QED
    BY <1>3, <1>4, <2>1 DEF IsRecursion, IsAfterTags, n
<1> DEFINE Is(g) == g = [k \in 0..n |->
                          IF k = 0 THEN s ELSE ApplyTag(g[k - 1], tags[k], base, styles)]
           c == CHOOSE g : Is(g)
<1>6. Is(f)
  <2>1. \A k \in 0..n : f[k] = IF k = 0 THEN s ELSE ApplyTag(f[k - 1], tags[k], base, styles)
    BY <1>1, <1>5 DEF IsAfterTags, n
  <2> QED
    BY <2>1
<1>7. AfterTags(s, tags, base, styles) = c[n]
  BY DEF AfterTags, n
<1>8. Is(c)
  <2> HIDE DEF Is
  <2> QED
    BY <1>6
<1> HIDE DEF c
<1>9. c[0] = f[0] /\ GoesOn(c, f, n)
  <2>0. \A k \in 0..n : c[k] = IF k = 0 THEN s ELSE ApplyTag(c[k - 1], tags[k], base, styles)
    BY <1>8
  <2>1. c[0] = s /\ \A k \in 1..n : c[k] = ApplyTag(c[k - 1], tags[k], base, styles)
    BY <1>1, <2>0
  <2> QED
    BY <1>5, <2>1 DEF IsAfterTags, GoesOn, n
<1>10. c[n] = f[n]
  BY <1>1, <1>9, RecursionAgrees
<1> QED
  BY <1>5, <1>7, <1>10 DEF n

(* The readings of a line are states.                                          *)
IsReading(after, styles, line) ==
    /\ after[0] = [style |-> BaseStyle(styles, line), level |-> 0]
    /\ \A i \in 1..Len(line.atoms) :
          after[i] = AfterTags(after[i - 1], line.atoms[i].tags, BaseStyle(styles, line), styles)

(* What a line starts with is a state. *)
LEMMA BaseTypes ==
    ASSUME NEW styles, styles \in [DOMAIN styles -> Styles], NEW line
    PROVE  /\ BaseStyle(styles, line) \in Styles
           /\ [style |-> BaseStyle(styles, line), level |-> 0] \in States
BY ArialIsAStyle DEF BaseStyle, States

(* A line is read atom by atom, and after each of them a state is in effect. *)
LEMMA LineRead ==
    ASSUME NEW styles, styles \in [DOMAIN styles -> Styles], NEW line \in Lines
    PROVE  \E after \in [0..Len(line.atoms) -> States] :
              /\ IsReading(after, styles, line)
              /\ \A i \in 0..Len(line.atoms) : Reading(styles, line)[i] = after[i]
<1> DEFINE n == Len(line.atoms)
           base == BaseStyle(styles, line)
           start == [style |-> base, level |-> 0]
           step == [p \in (1..n) \X States |-> AfterTags(p[2], line.atoms[p[1]].tags, base, styles)]
<1>1. n \in Nat /\ \A i \in 1..n : line.atoms[i].tags \in Seq(Tags)
  <2>1. line.atoms \in Seq(Atoms)
    BY DEF Lines
  <2>2. n \in Nat /\ \A i \in 1..n : line.atoms[i] \in Atoms
    BY <2>1, LenProperties, ElementOfSeq
  <2> QED
    BY <2>2 DEF Atoms
<1>2. base \in Styles /\ start \in States
  BY BaseTypes
<1> HIDE DEF n, base, start
<1>3. step \in [(1..n) \X States -> States]
  <2>1. ASSUME NEW p \in (1..n) \X States
        PROVE  AfterTags(p[2], line.atoms[p[1]].tags, base, styles) \in States
    <3> DEFINE tags == line.atoms[p[1]].tags
    <3>1. p[2] \in States /\ tags \in Seq(Tags)
      BY <1>1
    <3> HIDE DEF tags
    <3>2. PICK after \in [0..Len(tags) -> States] : AfterTags(p[2], tags, base, styles) = after[Len(tags)]
      BY <1>2, <3>1, TagsRead
    <3>3. Len(tags) \in Nat
      BY <3>1, LenProperties
    <3>4. after[Len(tags)] \in States
      BY <3>3
    <3> QED
      BY <3>2, <3>4 DEF tags
  <2> QED
    BY <2>1
<1>4. \A i \in 1..n, t \in States : step[<<i, t>>] = AfterTags(t, line.atoms[i].tags, base, styles)
  OBVIOUS
<1> HIDE DEF step
<1>5. PICK f \in [0..n -> States] : IsRecursion(f, n, start, step)
  BY <1>1, <1>2, <1>3, RecursionExists
<1>6. IsReading(f, styles, line)
  <2>1. \A i \in 1..n : f[i - 1] \in States
    BY <1>1
  <2> QED
    BY <1>4, <1>5, <2>1 DEF IsRecursion, IsReading, n, base, start
<1> DEFINE Is(g) == g = [i \in 0..n |->
                          IF i = 0 THEN start ELSE AfterTags(g[i - 1], line.atoms[i].tags, base, styles)]
           c == CHOOSE g : Is(g)
<1>7. Is(f)
  <2>1. \A i \in 0..n : f[i] = IF i = 0 THEN start
                              ELSE AfterTags(f[i - 1], line.atoms[i].tags, base, styles)
    BY <1>1, <1>6 DEF IsReading, n, base, start
  <2> QED
    BY <2>1
<1>8. Reading(styles, line) = c
  BY DEF Reading, n, base, start
<1>9. Is(c)
  <2> HIDE DEF Is
  <2> QED
    BY <1>7
<1> HIDE DEF c
<1>10. c[0] = f[0] /\ GoesOn(c, f, n)
  <2>0. \A i \in 0..n : c[i] = IF i = 0 THEN start
                              ELSE AfterTags(c[i - 1], line.atoms[i].tags, base, styles)
    BY <1>9
  <2>1. c[0] = start /\ \A i \in 1..n : c[i] = AfterTags(c[i - 1], line.atoms[i].tags, base, styles)
    BY <1>1, <2>0
  <2> QED
    BY <1>6, <2>1 DEF IsReading, GoesOn, n, base, start
<1>11. \A i \in 0..n : c[i] = f[i]
  BY <1>1, <1>10, RecursionAgrees
<1> QED
  BY <1>6, <1>8, <1>11 DEF n

-------------------------------------------------------------------------------
(* Renaming.                                                                   *)

(* A renaming as the loop assigns it: no empty name is renamed or given, the   *)
(* drawing font's is neither.                                                  *)
Renames(map) ==
    /\ DOMAIN map \subseteq Words \ {"", "assdrawsubset"}
    /\ \A face \in DOMAIN map :
          \E new \in Words \ {"", "assdrawsubset"} : map[face] = Name(new)

(* Renaming and norm_font can be taken in either order.                        *)
LEMMA RenamedNorm ==
    ASSUME NEW map, Renames(map), NEW n \in FontNames
    PROVE  /\ Renamed(n, map) \in FontNames
           /\ NormFont(Renamed(n, map)) = Renamed(NormFont(n), map)
           /\ NormFont(n) \in FontNames /\ Lookup(NormFont(n)) = Lookup(n)
           /\ NormFont(Renamed(n, map)) = NoName <=> NormFont(n) = NoName
<1>1. NormFont(n) \in FontNames /\ NormFont(n).face = n.face
  BY DEF NormFont, FontNames
<1>2. CASE Lookup(n) \in DOMAIN map
  <2>1. PICK new \in Words \ {"", "assdrawsubset"} : map[Lookup(n)] = Name(new)
    BY <1>2 DEF Renames
  <2>2. Name(new) \in FontNames /\ NormFont(Name(new)) = Name(new) /\ Lookup(Name(new)) = new
    BY <2>1, NameTypes
  <2>3. Renamed(n, map) = Name(new) /\ Renamed(NormFont(n), map) = Name(new)
    BY <1>1, <1>2, <2>1 DEF Renamed, Lookup
  <2>4. NormFont(n) # NoName
    <3>1. Lookup(n) # ""
      BY <1>2 DEF Renames
    <3>2. NoName.face = ""
      BY DEF NoName, Name
    <3>3. NormFont(n).face # ""
      BY <1>1, <3>1 DEF Lookup
    <3> QED
      BY <3>2, <3>3
  <2>5. Name(new) # NoName
    BY <2>1 DEF NoName, Name
  <2> QED
    BY <1>1, <2>2, <2>3, <2>4, <2>5 DEF Lookup
<1>3. CASE Lookup(n) \notin DOMAIN map
  <2>1. Renamed(n, map) = n /\ Renamed(NormFont(n), map) = NormFont(n)
    BY <1>1, <1>3 DEF Renamed, Lookup
  <2> QED
    BY <1>1, <2>1 DEF Lookup
<1> QED
  BY <1>2, <1>3

(* b2 is b with its font renamed; or neither has a font of the file: the line  *)
(* has no known style, and Arial is assumed for it.                            *)
Alike(b2, b, map, known) ==
    /\ b2.bold = b.bold /\ b2.italic = b.italic
    /\ \/ NormFont(b2.font) = Renamed(NormFont(b.font), map)
       \/ ~known /\ b2.font = Arial.font /\ b.font = Arial.font

(* t is what s becomes in the renamed text.                                    *)
Follows(t, s, map, known) == t.level = s.level /\ Alike(t.style, s.style, map, known)

StyleTable(styles) == styles \in [DOMAIN styles -> Styles]

(* Renaming the styles keeps the table's type and its keys, and changes fonts only. *)
LEMMA StylesRenamed ==
    ASSUME NEW map, Renames(map), NEW styles, StyleTable(styles)
    PROVE  /\ StyleTable(RenameStyles(styles, map))
           /\ DOMAIN RenameStyles(styles, map) = DOMAIN styles
           /\ \A s \in DOMAIN styles, known \in BOOLEAN :
                 Alike(RenameStyles(styles, map)[s], styles[s], map, known)
<1> DEFINE new == RenameStyles(styles, map)
<1>1. DOMAIN new = DOMAIN styles
      /\ \A s \in DOMAIN styles : new[s] = [styles[s] EXCEPT !.font = Renamed(@, map)]
  BY DEF RenameStyles
<1>2. new = [s \in DOMAIN new |-> new[s]]
  BY DEF RenameStyles
<1> HIDE DEF new
<1>3. ASSUME NEW s \in DOMAIN styles
      PROVE  /\ new[s] \in Styles /\ new[s].font = Renamed(styles[s].font, map)
             /\ new[s].bold = styles[s].bold /\ new[s].italic = styles[s].italic
  <2>1. styles[s] \in Styles
    BY DEF StyleTable
  <2>2. styles[s].font \in FontNames
    BY <2>1 DEF Styles
  <2>3. Renamed(styles[s].font, map) \in FontNames
    BY <2>2, RenamedNorm
  <2> QED
    BY <1>1, <2>1, <2>3 DEF Styles
<1>4. ASSUME NEW s \in DOMAIN styles, NEW known \in BOOLEAN PROVE Alike(new[s], styles[s], map, known)
  <2>1. styles[s].font \in FontNames
    BY DEF StyleTable, Styles
  <2>2. NormFont(new[s].font) = Renamed(NormFont(styles[s].font), map)
    BY <1>3, <2>1, RenamedNorm
  <2> QED
    BY <1>3, <2>2 DEF Alike
<1> QED
  BY <1>1, <1>2, <1>3, <1>4 DEF StyleTable, new

(* Renaming a tag changes at most the font of a \fn. *)
LEMMA TagRenamed ==
    ASSUME NEW map, Renames(map), NEW tag \in Tags
    PROVE  /\ RenameTag(tag, map) \in Tags
           /\ RenameTag(tag, map).name = tag.name
           /\ RenameTag(tag, map).style = tag.style
           /\ RenameTag(tag, map).num = tag.num
           /\ tag.name = "fn" => RenameTag(tag, map).font = Renamed(tag.font, map)
<1>1. tag.font \in FontNames
  BY DEF Tags
<1>2. Renamed(tag.font, map) \in FontNames
  BY <1>1, RenamedNorm
<1> QED
  BY <1>2 DEF RenameTag, Tags

(* A renamed tag does to a renamed state what the tag does to the state.       *)
LEMMA TagFollows ==
    ASSUME NEW map, Renames(map), NEW known \in BOOLEAN,
           NEW styles, StyleTable(styles),
           NEW base \in Styles, NEW base2 \in Styles, Alike(base2, base, map, known),
           NEW s \in States, NEW t \in States, Follows(t, s, map, known), NEW tag \in Tags
    PROVE  Follows(ApplyTag(t, RenameTag(tag, map), base2, RenameStyles(styles, map)),
                   ApplyTag(s, tag, base, styles), map, known)
<1> DEFINE tag2 == RenameTag(tag, map)
           new == RenameStyles(styles, map)
<1>1. /\ tag2 \in Tags /\ tag2.name = tag.name /\ tag2.style = tag.style /\ tag2.num = tag.num
      /\ tag.name = "fn" => tag2.font = Renamed(tag.font, map)
  BY TagRenamed
<1>2. /\ DOMAIN new = DOMAIN styles
      /\ \A r \in DOMAIN styles : Alike(new[r], styles[r], map, known)
  BY StylesRenamed
<1>3. /\ s.style \in Styles /\ t.style \in Styles /\ s.level \in Int /\ t.level \in Int
      /\ tag.font \in FontNames /\ tag2.font \in FontNames
  BY <1>1 DEF States, Tags
<1>4. t.level = s.level /\ Alike(t.style, s.style, map, known)
  BY DEF Follows
<1> HIDE DEF tag2, new
<1> SUFFICES Follows(ApplyTag(t, tag2, base2, new), ApplyTag(s, tag, base, styles), map, known)
  BY DEF tag2, new
<1>5. CASE tag.name = "fn"
  <2>1. /\ NormFont(tag2.font) = Renamed(NormFont(tag.font), map)
        /\ NormFont(tag2.font) = NoName <=> NormFont(tag.font) = NoName
    BY <1>1, <1>3, <1>5, RenamedNorm
  <2>2. CASE NormFont(tag.font) = NoName
    BY <1>1, <1>4, <1>5, <2>1, <2>2 DEF ApplyTag, Follows
  <2>3. CASE NormFont(tag.font) # NoName
    <3> DEFINE s1 == [s EXCEPT !.style.font = NormFont(tag.font)]
               t1 == [t EXCEPT !.style.font = NormFont(tag2.font)]
    <3>1. ApplyTag(t, tag2, base2, new) = t1 /\ ApplyTag(s, tag, base, styles) = s1
      BY <1>1, <1>5, <2>1, <2>3 DEF ApplyTag
    <3>2. /\ s1.style.font = NormFont(tag.font) /\ s1.style.bold = s.style.bold
          /\ s1.style.italic = s.style.italic /\ s1.level = s.level
      BY <1>3 DEF States, Styles
    <3>3. /\ t1.style.font = NormFont(tag2.font) /\ t1.style.bold = t.style.bold
          /\ t1.style.italic = t.style.italic /\ t1.level = t.level
      BY <1>3 DEF States, Styles
    <3>4. NormFont(NormFont(tag.font)) = NormFont(tag.font)
          /\ NormFont(NormFont(tag2.font)) = NormFont(tag2.font)
      BY <1>3 DEF NormFont, FontNames
    <3> HIDE DEF s1, t1
    <3>5. Alike(t1.style, s1.style, map, known)
      BY <1>4, <2>1, <3>2, <3>3, <3>4 DEF Alike
    <3> QED
      BY <1>4, <3>1, <3>2, <3>3, <3>5 DEF Follows
  <2> QED
    BY <2>2, <2>3
<1>6. CASE tag.name = "r"
  <2> DEFINE rs == Reset(s.style, tag, base, styles)
             rt == Reset(t.style, tag2, base2, new)
  <2>1. Alike(rt, rs, map, known)
    BY <1>1, <1>2, <1>4 DEF Reset
  <2>2. ApplyTag(t, tag2, base2, new) = [t EXCEPT !.style = rt]
        /\ ApplyTag(s, tag, base, styles) = [s EXCEPT !.style = rs]
    BY <1>1, <1>6 DEF ApplyTag
  <2> HIDE DEF rs, rt
  <2>3. /\ [t EXCEPT !.style = rt].style = rt /\ [t EXCEPT !.style = rt].level = t.level
        /\ [s EXCEPT !.style = rs].style = rs /\ [s EXCEPT !.style = rs].level = s.level
    BY DEF States
  <2> QED
    BY <1>4, <2>1, <2>2, <2>3 DEF Follows
<1>7. CASE tag.name = "b"
  <2> DEFINE on == tag.num = Empty \/ tag.num >= 600 \/ tag.num \in {1, -1}
  <2>1. CASE tag.num = Junk
    BY <1>1, <1>4, <1>7, <2>1 DEF ApplyTag, Follows
  <2>2. CASE tag.num # Junk
    <3>1. ApplyTag(t, tag2, base2, new) = [t EXCEPT !.style.bold = on]
          /\ ApplyTag(s, tag, base, styles) = [s EXCEPT !.style.bold = on]
      BY <1>1, <1>7, <2>2 DEF ApplyTag
    <3> HIDE DEF on
    <3>2. ASSUME NEW r \in States
          PROVE  /\ [r EXCEPT !.style.bold = on].level = r.level
                 /\ [r EXCEPT !.style.bold = on].style.bold = on
                 /\ [r EXCEPT !.style.bold = on].style.italic = r.style.italic
                 /\ [r EXCEPT !.style.bold = on].style.font = r.style.font
      BY DEF States, Styles
    <3> QED
      BY <1>4, <3>1, <3>2 DEF Follows, Alike
  <2> QED
    BY <2>1, <2>2
<1>8. CASE tag.name = "i"
  <2> DEFINE on == tag.num \notin {Empty, Junk, 0}
  <2>1. ApplyTag(t, tag2, base2, new) = [t EXCEPT !.style.italic = on]
        /\ ApplyTag(s, tag, base, styles) = [s EXCEPT !.style.italic = on]
    BY <1>1, <1>8 DEF ApplyTag
  <2> HIDE DEF on
  <2>2. ASSUME NEW r \in States
        PROVE  /\ [r EXCEPT !.style.italic = on].level = r.level
               /\ [r EXCEPT !.style.italic = on].style.italic = on
               /\ [r EXCEPT !.style.italic = on].style.bold = r.style.bold
               /\ [r EXCEPT !.style.italic = on].style.font = r.style.font
    BY DEF States, Styles
  <2> QED
    BY <1>4, <2>1, <2>2 DEF Follows, Alike
<1>9. CASE tag.name = "p"
  <2> DEFINE level == IF tag.num \in {Empty, Junk} THEN 0 ELSE tag.num
  <2>1. ApplyTag(t, tag2, base2, new) = [t EXCEPT !.level = level]
        /\ ApplyTag(s, tag, base, styles) = [s EXCEPT !.level = level]
    BY <1>1, <1>9 DEF ApplyTag
  <2> HIDE DEF level
  <2>2. ASSUME NEW r \in States
        PROVE  [r EXCEPT !.level = level].level = level /\ [r EXCEPT !.level = level].style = r.style
    BY DEF States
  <2> QED
    BY <1>4, <2>1, <2>2 DEF Follows
<1> QED
  BY <1>5, <1>6, <1>7, <1>8, <1>9 DEF Tags

(* ... and so do the tags of a block.                                          *)
RenamedTags(tags2, tags, map) ==
    /\ tags2 \in Seq(Tags) /\ Len(tags2) = Len(tags)
    /\ \A k \in 1..Len(tags) : tags2[k] = RenameTag(tags[k], map)

(* Renamed tags take states that follow one another to states that do. *)
LEMMA TagsFollow ==
    ASSUME NEW map, Renames(map), NEW known \in BOOLEAN,
           NEW styles, StyleTable(styles),
           NEW base \in Styles, NEW base2 \in Styles, Alike(base2, base, map, known),
           NEW s \in States, NEW t \in States, Follows(t, s, map, known),
           NEW tags \in Seq(Tags), NEW tags2, RenamedTags(tags2, tags, map)
    PROVE  Follows(AfterTags(t, tags2, base2, RenameStyles(styles, map)),
                   AfterTags(s, tags, base, styles), map, known)
<1> DEFINE new == RenameStyles(styles, map)
           n == Len(tags)
<1>1. StyleTable(new) /\ styles \in [DOMAIN styles -> Styles] /\ new \in [DOMAIN new -> Styles]
  BY StylesRenamed DEF StyleTable
<1>2. n \in Nat /\ \A k \in 1..n : tags[k] \in Tags
  BY LenProperties, ElementOfSeq
<1>3. tags2 \in Seq(Tags) /\ Len(tags2) = n /\ \A k \in 1..n : tags2[k] = RenameTag(tags[k], map)
  BY DEF RenamedTags
<1> HIDE DEF new, n
<1>4. PICK f \in [0..n -> States] :
         IsAfterTags(f, s, tags, base, styles) /\ AfterTags(s, tags, base, styles) = f[n]
  BY <1>1, TagsRead DEF n
<1>5. PICK g \in [0..n -> States] :
         IsAfterTags(g, t, tags2, base2, new) /\ AfterTags(t, tags2, base2, new) = g[n]
  BY <1>1, <1>3, TagsRead
<1>6. f[0] = s /\ \A k \in 1..n : f[k] = ApplyTag(f[k - 1], tags[k], base, styles)
  BY <1>4 DEF IsAfterTags, n
<1>7. g[0] = t /\ \A k \in 1..n : g[k] = ApplyTag(g[k - 1], tags2[k], base2, new)
  BY <1>3, <1>5 DEF IsAfterTags
<1> DEFINE Good == {k \in 0..n : Follows(g[k], f[k], map, known)}
<1>8. 0 \in Good
  BY <1>2, <1>6, <1>7
<1>9. ASSUME NEW k \in 1..n, k - 1 \in Good PROVE k \in Good
  <2>1. f[k - 1] \in States /\ g[k - 1] \in States /\ Follows(g[k - 1], f[k - 1], map, known)
    BY <1>2, <1>9
  <2>2. Follows(ApplyTag(g[k - 1], RenameTag(tags[k], map), base2, new),
                ApplyTag(f[k - 1], tags[k], base, styles), map, known)
    BY <1>2, <2>1, TagFollows DEF new
  <2> QED
    BY <1>3, <1>6, <1>7, <2>2
<1> HIDE DEF Good
<1>10. \A k \in 0..n : k \in Good
  BY <1>2, <1>8, <1>9, UpTo
<1>11. n \in 0..n
  BY <1>2
<1> QED
  BY <1>4, <1>5, <1>10, <1>11 DEF Good, new

(* Renaming an atom changes only its tags, each into its renaming. *)
LEMMA AtomRenamed ==
    ASSUME NEW map, Renames(map), NEW atom \in Atoms
    PROVE  /\ RenameAtom(atom, map) \in Atoms
           /\ RenameAtom(atom, map).kind = atom.kind /\ RenameAtom(atom, map).ch = atom.ch
           /\ RenamedTags(RenameAtom(atom, map).tags, atom.tags, map)
<1> DEFINE tags == atom.tags
           new == [t \in DOMAIN tags |-> RenameTag(tags[t], map)]
<1>1. tags \in Seq(Tags)
  BY DEF Atoms
<1>2. Len(tags) \in Nat /\ DOMAIN tags = 1..Len(tags) /\ \A k \in 1..Len(tags) : tags[k] \in Tags
  BY <1>1, LenProperties, ElementOfSeq
<1>3. \A k \in 1..Len(tags) : RenameTag(tags[k], map) \in Tags
  BY <1>2, TagRenamed
<1>4. new \in [1..Len(tags) -> Tags]
  BY <1>2, <1>3
<1>5. new \in Seq(Tags) /\ Len(new) = Len(tags)
  BY <1>2, <1>4, SeqDef, LenProperties
<1>6. RenamedTags(new, tags, map)
  BY <1>2, <1>5 DEF RenamedTags
<1>7. RenameAtom(atom, map) = [atom EXCEPT !.tags = new]
  BY DEF RenameAtom
<1> HIDE DEF new
<1> QED
  BY <1>5, <1>6, <1>7 DEF Atoms

(* line2 is the beginning of line, renamed.                                    *)
Begins(line2, line, map) ==
    /\ line2 \in Lines /\ line2.style = line.style
    /\ Len(line2.atoms) <= Len(line.atoms)
    /\ \A k \in 1..Len(line2.atoms) : line2.atoms[k] = RenameAtom(line.atoms[k], map)

LineAtoms(line, n) ==
    /\ line.atoms \in Seq(Atoms) /\ n = Len(line.atoms) /\ n \in Nat /\ DOMAIN line.atoms = 1..n
    /\ \A k \in 1..n : line.atoms[k] \in Atoms /\ line.atoms[k].tags \in Seq(Tags)

(* The atoms of a typed line, by number. *)
LEMMA AtomsOfLine ==
    ASSUME NEW line \in Lines
    PROVE  \E n \in Nat : LineAtoms(line, n)
<1>1. line.atoms \in Seq(Atoms)
  BY DEF Lines
<1>2. /\ Len(line.atoms) \in Nat /\ DOMAIN line.atoms = 1..Len(line.atoms)
      /\ \A k \in 1..Len(line.atoms) : line.atoms[k] \in Atoms
  BY <1>1, LenProperties, ElementOfSeq
<1>3. \A k \in 1..Len(line.atoms) : line.atoms[k].tags \in Seq(Tags)
  BY <1>2 DEF Atoms
<1> QED
  BY <1>1, <1>2, <1>3 DEF LineAtoms

(* The readings of both go along with each other.                              *)
LEMMA LinesFollow ==
    ASSUME NEW map, Renames(map), NEW styles, StyleTable(styles),
           NEW line \in Lines, NEW line2, Begins(line2, line, map),
           NEW known \in BOOLEAN, known = (line.style \in DOMAIN styles)
    PROVE  \A k \in 0..Len(line2.atoms) :
              /\ Reading(styles, line)[k] \in States
              /\ Reading(RenameStyles(styles, map), line2)[k] \in States
              /\ Follows(Reading(RenameStyles(styles, map), line2)[k], Reading(styles, line)[k],
                         map, known)
<1> DEFINE new == RenameStyles(styles, map)
           base == BaseStyle(styles, line)
           base2 == BaseStyle(new, line2)
<1>1. /\ StyleTable(new) /\ styles \in [DOMAIN styles -> Styles] /\ new \in [DOMAIN new -> Styles]
      /\ DOMAIN new = DOMAIN styles
      /\ \A s \in DOMAIN styles : Alike(new[s], styles[s], map, known)
  <2>0. /\ StyleTable(new) /\ DOMAIN new = DOMAIN styles
        /\ \A s \in DOMAIN styles, k \in BOOLEAN : Alike(new[s], styles[s], map, k)
    BY StylesRenamed
  <2>1. \A s \in DOMAIN styles : Alike(new[s], styles[s], map, known)
    <3> HIDE DEF new
    <3> QED
      BY <2>0
  <2> HIDE DEF new
  <2> QED
    BY <2>0, <2>1 DEF StyleTable
<1>2. line2 \in Lines /\ line2.style = line.style
  BY DEF Begins
<1>3. PICK n \in Nat : LineAtoms(line, n)
  BY AtomsOfLine
<1>4. PICK m \in Nat : LineAtoms(line2, m)
  BY <1>2, AtomsOfLine
<1>5. /\ m <= n /\ Len(line.atoms) = n /\ Len(line2.atoms) = m
      /\ \A k \in 1..m : /\ line2.atoms[k] = RenameAtom(line.atoms[k], map)
                         /\ line.atoms[k] \in Atoms /\ line.atoms[k].tags \in Seq(Tags)
                         /\ k \in 1..n
  BY <1>3, <1>4 DEF Begins, LineAtoms
<1>6. base \in Styles /\ base2 \in Styles /\ [style |-> base, level |-> 0] \in States
      /\ [style |-> base2, level |-> 0] \in States
  BY <1>1, BaseTypes
<1>7. Alike(base2, base, map, known)
  <2>1. CASE known
    <3>1. base = styles[line.style] /\ base2 = new[line.style]
      BY <1>1, <1>2, <2>1 DEF BaseStyle
    <3> QED
      BY <1>1, <2>1, <3>1
  <2>2. CASE ~known
    <3>1. base = Arial /\ base2 = Arial
      BY <1>1, <1>2, <2>2 DEF BaseStyle
    <3> QED
      BY <2>2, <3>1 DEF Alike
  <2> QED
    BY <2>1, <2>2
<1> HIDE DEF new
<1>8. PICK f \in [0..n -> States] :
         IsReading(f, styles, line) /\ \A k \in 0..n : Reading(styles, line)[k] = f[k]
  BY <1>1, <1>5, LineRead
<1>9. PICK g \in [0..m -> States] :
         IsReading(g, new, line2) /\ \A k \in 0..m : Reading(new, line2)[k] = g[k]
  BY <1>1, <1>2, <1>5, LineRead
<1> HIDE DEF base, base2
<1>10. /\ f[0] = [style |-> base, level |-> 0]
       /\ \A k \in 1..n : f[k] = AfterTags(f[k - 1], line.atoms[k].tags, base, styles)
  BY <1>5, <1>8 DEF IsReading, base
<1>11. /\ g[0] = [style |-> base2, level |-> 0]
       /\ \A k \in 1..m : g[k] = AfterTags(g[k - 1], line2.atoms[k].tags, base2, new)
  BY <1>5, <1>9 DEF IsReading, base2
<1> DEFINE Good == {k \in 0..m : Follows(g[k], f[k], map, known)}
<1>12. 0 \in Good
  <2>1. Follows(g[0], f[0], map, known)
    BY <1>7, <1>10, <1>11 DEF Follows
  <2> QED
    BY <2>1
<1>13. ASSUME NEW k \in 1..m, k - 1 \in Good PROVE k \in Good
  <2>1. /\ f[k - 1] \in States /\ g[k - 1] \in States /\ Follows(g[k - 1], f[k - 1], map, known)
    BY <1>5, <1>13
  <2>2. /\ line.atoms[k].tags \in Seq(Tags)
        /\ RenamedTags(line2.atoms[k].tags, line.atoms[k].tags, map)
    BY <1>5, AtomRenamed
  <2> DEFINE tags == line.atoms[k].tags
             tags2 == line2.atoms[k].tags
             f1 == f[k - 1]
             g1 == g[k - 1]
  <2>3. Follows(AfterTags(g1, tags2, base2, new), AfterTags(f1, tags, base, styles), map, known)
    <3>1. /\ f1 \in States /\ g1 \in States /\ Follows(g1, f1, map, known)
          /\ tags \in Seq(Tags) /\ RenamedTags(tags2, tags, map)
      BY <2>1, <2>2
    <3> HIDE DEF tags, tags2, f1, g1
    <3> QED
      BY <1>6, <1>7, <3>1, TagsFollow DEF new
  <2>4. f[k] = AfterTags(f1, tags, base, styles) /\ g[k] = AfterTags(g1, tags2, base2, new)
    BY <1>5, <1>10, <1>11
  <2>5. Follows(g[k], f[k], map, known)
    BY <2>3, <2>4
  <2> QED
    BY <2>5
<1> HIDE DEF Good
<1>14. \A k \in 0..m : k \in Good
  BY <1>12, <1>13, UpTo
<1>15. ASSUME NEW k \in 0..m
       PROVE  /\ Reading(styles, line)[k] \in States /\ Reading(new, line2)[k] \in States
              /\ Follows(Reading(new, line2)[k], Reading(styles, line)[k], map, known)
  <2>1. k \in 0..n /\ k \in Good
    BY <1>5, <1>14
  <2>2. Reading(styles, line)[k] = f[k] /\ Reading(new, line2)[k] = g[k]
    BY <1>8, <1>9, <2>1
  <2>3. f[k] \in States /\ g[k] \in States /\ Follows(g[k], f[k], map, known)
    BY <2>1 DEF Good
  <2> QED
    BY <2>2, <2>3
<1> QED
  BY <1>5, <1>15 DEF new

(* What a character of the renamed beginning uses, it used before under the    *)
(* font's old name, or it is the Arial of a line of no known style.            *)
WasUsed(u2, u, map, known) ==
    /\ u2.ch = u.ch /\ u2.slot = u.slot
    /\ u2.font = Renamed(u.font, map) \/ (~known /\ u2.font = Arial.font)

(* What a renamed beginning of a line uses is what the line used, under the new names. *)
LEMMA UsesFollow ==
    ASSUME NEW map, Renames(map), NEW styles, StyleTable(styles),
           NEW line \in Lines, NEW line2, Begins(line2, line, map),
           NEW known \in BOOLEAN, known = (line.style \in DOMAIN styles),
           NEW u2 \in LineUses(RenameStyles(styles, map), line2)
    PROVE  \E u \in LineUses(styles, line) : WasUsed(u2, u, map, known)
<1> DEFINE after == Reading(styles, line)
           after2 == Reading(RenameStyles(styles, map), line2)
<1>1. PICK n \in Nat : LineAtoms(line, n)
  BY AtomsOfLine
<1>2. PICK m \in Nat : LineAtoms(line2, m)
  BY AtomsOfLine DEF Begins
<1>3. PICK i \in 1..m : u2 \in Use(after2[i - 1], line2.atoms[i])
  BY <1>2 DEF LineUses, LineAtoms
<1>4. /\ i \in 1..n /\ i - 1 \in 0..m /\ line.atoms[i] \in Atoms
      /\ line2.atoms[i] = RenameAtom(line.atoms[i], map) /\ m = Len(line2.atoms)
  BY <1>1, <1>2, <1>3 DEF LineAtoms, Begins
<1> DEFINE s == after[i - 1]
           t == after2[i - 1]
           atom == line.atoms[i]
<1>5. s \in States /\ t \in States /\ Follows(t, s, map, known)
  BY <1>4, LinesFollow
<1>6. line2.atoms[i].kind = atom.kind /\ line2.atoms[i].ch = atom.ch
  BY <1>4, AtomRenamed
<1>7. ASSUME NEW u \in Use(s, atom) PROVE u \in LineUses(styles, line)
  BY <1>1, <1>4 DEF LineUses, LineAtoms
<1> HIDE DEF after, after2, s, t, atom
<1>8. /\ atom.kind # "block" /\ ~(t.level > 0) /\ NormFont(t.style.font) # NoName
      /\ u2 = [font |-> NormFont(t.style.font), slot |-> SlotOf(t.style), ch |-> atom.ch]
  BY <1>3, <1>6 DEF Use, t
<1>9. /\ t.level = s.level /\ t.style.bold = s.style.bold /\ t.style.italic = s.style.italic
      /\ SlotOf(t.style) = SlotOf(s.style)
  BY <1>5 DEF Follows, Alike, SlotOf
<1> DEFINE u == [font |-> NormFont(s.style.font), slot |-> SlotOf(s.style), ch |-> atom.ch]
<1>10. ASSUME NormFont(s.style.font) # NoName PROVE u \in LineUses(styles, line)
  BY <1>7, <1>8, <1>9, <1>10 DEF Use
<1>11. CASE NormFont(t.style.font) = Renamed(NormFont(s.style.font), map)
  <2>1. s.style.font \in FontNames /\ t.style.font \in FontNames
    BY <1>5 DEF States, Styles
  <2>2. NormFont(s.style.font) # NoName
    <3>1. ASSUME NormFont(s.style.font) = NoName PROVE FALSE
      <4>1. "" \notin DOMAIN map /\ Lookup(NoName) = ""
        BY DEF Renames, Lookup, NoName, Name
      <4>2. Renamed(NoName, map) = NoName
        BY <4>1 DEF Renamed
      <4> QED
        BY <1>8, <1>11, <3>1, <4>2
    <3> QED
      BY <3>1
  <2>3. WasUsed(u2, u, map, known)
    BY <1>8, <1>9, <1>11 DEF WasUsed
  <2> QED
    BY <1>10, <2>2, <2>3
<1>12. CASE ~known /\ t.style.font = Arial.font /\ s.style.font = Arial.font
  <2>1. "arial" \in Words
    BY TextAssumption DEF TextAssumption
  <2>2. NormFont(Arial.font) = Arial.font
    BY <2>1, NameTypes DEF Arial
  <2>3. WasUsed(u2, u, map, known)
    BY <1>8, <1>9, <1>12, <2>2 DEF WasUsed
  <2>4. NormFont(s.style.font) # NoName
    BY <1>8, <1>12
  <2> QED
    BY <1>10, <2>3, <2>4
<1> QED
  BY <1>5, <1>11, <1>12 DEF Follows, Alike

-------------------------------------------------------------------------------
(* Drawings made glyphs.                                                       *)

DrawStates == [out : Seq(Atoms), entries : Seq(Seq(Atoms)), upto : Int]

(* A pair is a sequence, element by element. *)
LEMMA PairOfSeq ==
    ASSUME NEW S, NEW a \in S, NEW b \in S
    PROVE  <<a, b>> \in Seq(S) /\ Len(<<a, b>>) = 2
OBVIOUS

(* The block before a glyph is an atom and selects the drawing font. *)
LEMMA DrawBlockIsAnAtom == DrawBlock \in Atoms /\ UsesDrawName(DrawBlock)
<1>1. {"", "assdrawsubset"} \subseteq Words
  BY TextAssumption DEF TextAssumption
<1>2. DrawName \in FontNames /\ NoName \in FontNames
  BY <1>1, NameTypes DEF DrawName, NoName
<1>3. Fn(DrawName) \in Tags /\ P(0) \in Tags
  <2>0. "" \in Words
    BY <1>1
  <2>1. ASSUME NEW font \in FontNames, NEW style \in Words PROVE Tag("fn", font, style, 0) \in Tags
    BY DEF Tag, Tags
  <2>2. ASSUME NEW font \in FontNames, NEW style \in Words PROVE Tag("p", font, style, 0) \in Tags
    BY DEF Tag, Tags
  <2> QED
    BY <1>2, <2>0, <2>1, <2>2 DEF Fn, P
<1>4. <<Fn(DrawName), P(0)>> \in Seq(Tags)
  BY <1>3, PairOfSeq
<1>5. DrawBlock \in Atoms
  BY <1>4 DEF DrawBlock, Block, Atoms
<1>6. DrawBlock.tags = <<Fn(DrawName), P(0)>>
  BY DEF DrawBlock, Block
<1>7. 1 \in DOMAIN DrawBlock.tags /\ DrawBlock.tags[1] = Fn(DrawName)
  BY <1>6
<1>8. Fn(DrawName).name = "fn" /\ Fn(DrawName).font = DrawName
  BY DEF Fn, Tag
<1> QED
  BY <1>5, <1>7, <1>8 DEF UsesDrawName

(* The glyph is an atom. *)
LEMMA GlyphIsAnAtom ==
    ASSUME NEW k \in Nat PROVE Ch(Glyph(k)) \in Atoms
<1>1. Glyph(k) \in Int /\ <<>> \in Seq(Tags)
  BY DEF Glyph
<1> QED
  BY <1>1 DEF Ch, Atoms

(* The new entries, once a drawing is among them.                              *)
LEMMA EntryFound ==
    ASSUME NEW entries \in Seq(Seq(Atoms)), NEW data \in Seq(Atoms), NEW new,
           new = IF data \in ToSet(entries) THEN entries ELSE Append(entries, data)
    PROVE  new \in Seq(Seq(Atoms)) /\ EntryOf(new, data) \in Nat
<1>1. new \in Seq(Seq(Atoms)) /\ \E k \in DOMAIN new : new[k] = data
  <2>1. CASE data \in ToSet(entries)
    BY <2>1 DEF ToSet
  <2>2. CASE data \notin ToSet(entries)
    <3> DEFINE longer == Append(entries, data)
    <3>1. /\ longer \in Seq(Seq(Atoms)) /\ Len(longer) = Len(entries) + 1
          /\ longer[Len(entries) + 1] = data
      BY AppendProperties
    <3>2. Len(entries) \in Nat /\ DOMAIN longer = 1..Len(longer)
      BY <3>1, LenProperties
    <3>3. Len(entries) + 1 \in DOMAIN longer
      BY <3>1, <3>2
    <3>4. new = longer
      BY <2>2
    <3> HIDE DEF longer
    <3> QED
      BY <3>1, <3>3, <3>4
  <2> QED
    BY <2>1, <2>2
<1>2. DOMAIN new \subseteq Nat
  BY <1>1, LenProperties
<1> QED
  BY <1>1, <1>2 DEF EntryOf

(* The end of a drawing that has one lies behind its beginning. *)
LEMMA EndFound ==
    ASSUME NEW atoms \in Seq(Atoms), NEW i \in 1..Len(atoms), DrawingEnd(atoms, i) # 0
    PROVE  /\ DrawingEnd(atoms, i) \in i + 1..Len(atoms)
           /\ SubSeq(atoms, i, DrawingEnd(atoms, i)) \in Seq(Atoms)
<1> DEFINE ends == {k \in i + 1..Len(atoms) : DrawingLevel(atoms[k]) = 0}
<1>1. Len(atoms) \in Nat /\ \A k \in 1..Len(atoms) : atoms[k] \in Atoms
  BY LenProperties, ElementOfSeq
<1>2. ends \in SUBSET Nat /\ ends # {}
  BY <1>1 DEF DrawingEnd
<1>3. DrawingEnd(atoms, i) = CHOOSE k \in ends : \A e \in ends : k <= e
  BY <1>2 DEF DrawingEnd
<1>4. \E k \in ends : \A e \in ends : k <= e
  <2> HIDE DEF ends
  <2> QED
    BY <1>2, Least
<1>5. DrawingEnd(atoms, i) \in ends
  <2> HIDE DEF ends
  <2> QED
    BY <1>3, <1>4
<1>6. DrawingEnd(atoms, i) \in i + 1..Len(atoms)
  BY <1>5
<1>7. \A k \in i..DrawingEnd(atoms, i) : atoms[k] \in Atoms
  BY <1>1, <1>6
<1> QED
  BY <1>1, <1>6, <1>7, SubSeqProperties

(* One step of the rewriting keeps the types of what is accumulated. *)
LEMMA RewriteTypes ==
    ASSUME NEW acc \in DrawStates, NEW atoms \in Seq(Atoms), NEW i \in 1..Len(atoms)
    PROVE  RewriteAtom(acc, atoms, i) \in DrawStates
<1> DEFINE end  == DrawingEnd(atoms, i)
           data == SubSeq(atoms, i, end)
           new  == IF data \in ToSet(acc.entries) THEN acc.entries ELSE Append(acc.entries, data)
           pair == <<DrawBlock, Ch(Glyph(EntryOf(new, data)))>>
<1>1. acc.out \in Seq(Atoms) /\ acc.entries \in Seq(Seq(Atoms)) /\ acc.upto \in Int
  BY DEF DrawStates
<1>2. CASE i <= acc.upto
  BY <1>2 DEF RewriteAtom
<1>3. CASE ~(i <= acc.upto) /\ DrawingLevel(atoms[i]) \in 1..15 /\ end # 0
  <2>1. end \in Int /\ data \in Seq(Atoms)
    BY <1>3, EndFound
  <2>2. new \in Seq(Seq(Atoms)) /\ EntryOf(new, data) \in Nat
    <3> HIDE DEF data
    <3> QED
      BY <1>1, <2>1, EntryFound
  <2>3. pair \in Seq(Atoms)
    <3> HIDE DEF new, data
    <3> QED
      BY <2>2, GlyphIsAnAtom, DrawBlockIsAnAtom, PairOfSeq
  <2>4. acc.out \o pair \in Seq(Atoms)
    <3> HIDE DEF pair
    <3> QED
      BY <1>1, <2>3, ConcatProperties
  <2>5. RewriteAtom(acc, atoms, i) = [out |-> acc.out \o pair, entries |-> new, upto |-> end]
    BY <1>3 DEF RewriteAtom
  <2> HIDE DEF end, data, new, pair
  <2> QED
    BY <2>1, <2>2, <2>4, <2>5 DEF DrawStates
<1>4. CASE ~(i <= acc.upto) /\ ~(DrawingLevel(atoms[i]) \in 1..15 /\ end # 0)
  <2>1. RewriteAtom(acc, atoms, i) = [acc EXCEPT !.out = Append(@, atoms[i])]
    BY <1>4 DEF RewriteAtom
  <2>2. atoms[i] \in Atoms
    BY ElementOfSeq
  <2>3. Append(acc.out, atoms[i]) \in Seq(Atoms)
    BY <1>1, <2>2, AppendProperties
  <2> QED
    BY <1>1, <2>1, <2>3 DEF DrawStates
<1> QED
  BY <1>2, <1>3, <1>4

(* The first i atoms are taken over, or there is a glyph and what is before    *)
(* the first one is.                                                           *)
Untouched(acc, atoms, i) ==
    acc.upto = 0 /\ Len(acc.out) = i /\ \A k \in 1..i : acc.out[k] = atoms[k]
GlyphAt(out, atoms, d) ==
    d <= Len(out) /\ out[d] = DrawBlock /\ \A k \in 1..d - 1 : out[k] = atoms[k]
Kept(acc, atoms, i) ==
    Untouched(acc, atoms, i) \/ \E d \in 1..i : GlyphAt(acc.out, atoms, d)

(* A glyph stays where it is when the text grows behind it. *)
LEMMA GlyphStays ==
    ASSUME NEW atoms, NEW out, NEW longer, Len(out) \in Nat, Len(longer) \in Nat,
           Len(out) <= Len(longer), \A k \in 1..Len(out) : longer[k] = out[k],
           NEW d \in Nat \ {0}, GlyphAt(out, atoms, d)
    PROVE  GlyphAt(longer, atoms, d)
<1>1. d \in 1..Len(out) /\ \A k \in 1..d - 1 : k \in 1..Len(out)
  BY DEF GlyphAt
<1> QED
  BY <1>1 DEF GlyphAt

(* One step of the rewriting keeps everything before the first glyph as it was. *)
LEMMA RewriteKeeps ==
    ASSUME NEW atoms \in Seq(Atoms), NEW i \in 1..Len(atoms), NEW j \in Nat, i = j + 1,
           NEW acc \in DrawStates, Kept(acc, atoms, j)
    PROVE  Kept(RewriteAtom(acc, atoms, i), atoms, i)
<1> DEFINE end  == DrawingEnd(atoms, i)
           data == SubSeq(atoms, i, end)
           new  == IF data \in ToSet(acc.entries) THEN acc.entries ELSE Append(acc.entries, data)
           pair == <<DrawBlock, Ch(Glyph(EntryOf(new, data)))>>
           next == RewriteAtom(acc, atoms, i)
<1>1. acc.out \in Seq(Atoms) /\ acc.entries \in Seq(Seq(Atoms)) /\ acc.upto \in Int
      /\ Len(acc.out) \in Nat /\ i \in Nat
  BY LenProperties DEF DrawStates
<1>2. CASE i <= acc.upto
  <2>1. next = acc
    BY <1>2 DEF RewriteAtom
  <2>2. ~Untouched(acc, atoms, j)
    BY <1>1, <1>2 DEF Untouched
  <2>3. PICK d \in 1..j : GlyphAt(acc.out, atoms, d)
    BY <2>2 DEF Kept
  <2>4. d \in 1..i
    OBVIOUS
  <2> QED
    BY <2>1, <2>3, <2>4 DEF Kept
<1>3. CASE ~(i <= acc.upto) /\ DrawingLevel(atoms[i]) \in 1..15 /\ end # 0
  <2>1. end \in Int /\ data \in Seq(Atoms)
    BY <1>3, EndFound
  <2>2. new \in Seq(Seq(Atoms)) /\ EntryOf(new, data) \in Nat
    <3> HIDE DEF data
    <3> QED
      BY <1>1, <2>1, EntryFound
  <2>3. pair \in Seq(Atoms) /\ Len(pair) = 2
    <3> HIDE DEF new, data
    <3> QED
      BY <2>2, GlyphIsAnAtom, DrawBlockIsAnAtom, PairOfSeq
  <2>4. next.out = acc.out \o pair
    BY <1>3 DEF RewriteAtom
  <2>5. pair[1] = DrawBlock
    OBVIOUS
  <2> HIDE DEF end, data, new, pair
  <2>6. /\ Len(next.out) = Len(acc.out) + 2
        /\ \A k \in 1..Len(acc.out) : next.out[k] = acc.out[k]
        /\ next.out[Len(acc.out) + 1] = DrawBlock
    <3> DEFINE o == acc.out
    <3>1. /\ Len(o \o pair) = Len(o) + 2
          /\ \A k \in 1..Len(o) + 2 :
                (o \o pair)[k] = IF k <= Len(o) THEN o[k] ELSE pair[k - Len(o)]
      <4>1. o \in Seq(Atoms)
        BY <1>1
      <4> HIDE DEF o
      <4>2. /\ Len(o \o pair) = Len(o) + Len(pair)
            /\ \A k \in 1..Len(o) + Len(pair) :
                  (o \o pair)[k] = IF k <= Len(o) THEN o[k] ELSE pair[k - Len(o)]
        BY <2>3, <4>1, ConcatProperties
      <4> QED
        BY <2>3, <4>2
    <3>2. \A k \in 1..Len(acc.out) : k \in 1..Len(acc.out) + 2 /\ k <= Len(acc.out)
      BY <1>1
    <3>3. /\ Len(acc.out) + 1 \in 1..Len(acc.out) + 2 /\ ~(Len(acc.out) + 1 <= Len(acc.out))
          /\ (Len(acc.out) + 1) - Len(acc.out) = 1
      BY <1>1
    <3> QED
      BY <2>4, <2>5, <3>1, <3>2, <3>3
  <2> HIDE DEF next
  <2>7. CASE Untouched(acc, atoms, j)
    <3>1. GlyphAt(next.out, atoms, i)
      BY <1>1, <2>6, <2>7 DEF Untouched, GlyphAt
    <3> QED
      BY <1>1, <3>1 DEF Kept, next
  <2>8. CASE \E d \in 1..j : GlyphAt(acc.out, atoms, d)
    <3>1. PICK d \in 1..j : GlyphAt(acc.out, atoms, d)
      BY <2>8
    <3>2. d \in Nat \ {0} /\ d \in 1..i
      BY <1>1
    <3> DEFINE o == acc.out
               longer == next.out
    <3>3. /\ GlyphAt(o, atoms, d) /\ Len(o) \in Nat /\ Len(longer) \in Nat /\ Len(o) <= Len(longer)
          /\ \A k \in 1..Len(o) : longer[k] = o[k]
      BY <1>1, <2>6, <3>1
    <3> HIDE DEF o, longer
    <3>4. GlyphAt(longer, atoms, d)
      BY <3>2, <3>3, GlyphStays
    <3> QED
      BY <3>2, <3>4 DEF Kept, next, longer
  <2> QED
    BY <2>7, <2>8 DEF Kept
<1>4. CASE ~(i <= acc.upto) /\ ~(DrawingLevel(atoms[i]) \in 1..15 /\ end # 0)
  <2>1. next = [acc EXCEPT !.out = Append(@, atoms[i])]
    BY <1>4 DEF RewriteAtom
  <2>2. atoms[i] \in Atoms
    BY ElementOfSeq
  <2>3. next.out = Append(acc.out, atoms[i]) /\ next.upto = acc.upto
    BY <2>1 DEF DrawStates
  <2>4. /\ Len(next.out) = Len(acc.out) + 1
        /\ \A k \in 1..Len(acc.out) : next.out[k] = acc.out[k]
        /\ next.out[Len(acc.out) + 1] = atoms[i]
    <3> DEFINE o == acc.out
               a == atoms[i]
    <3>1. /\ Len(Append(o, a)) = Len(o) + 1
          /\ \A k \in 1..Len(o) : Append(o, a)[k] = o[k]
          /\ Append(o, a)[Len(o) + 1] = a
      <4>1. o \in Seq(Atoms) /\ a \in Atoms
        BY <1>1, <2>2
      <4> HIDE DEF o, a
      <4> QED
        BY <4>1, AppendProperties
    <3> HIDE DEF next
    <3> QED
      BY <2>3, <3>1
  <2> HIDE DEF next
  <2>5. CASE Untouched(acc, atoms, j)
    <3>1. Untouched(next, atoms, i)
      BY <1>1, <2>3, <2>4, <2>5 DEF Untouched
    <3> QED
      BY <3>1 DEF Kept, next
  <2>6. CASE \E d \in 1..j : GlyphAt(acc.out, atoms, d)
    <3>1. PICK d \in 1..j : GlyphAt(acc.out, atoms, d)
      BY <2>6
    <3>2. d \in Nat \ {0} /\ d \in 1..i
      BY <1>1
    <3> DEFINE o == acc.out
               longer == next.out
    <3>3. /\ GlyphAt(o, atoms, d) /\ Len(o) \in Nat /\ Len(longer) \in Nat /\ Len(o) <= Len(longer)
          /\ \A k \in 1..Len(o) : longer[k] = o[k]
      BY <1>1, <2>4, <3>1
    <3> HIDE DEF o, longer
    <3>4. GlyphAt(longer, atoms, d)
      BY <3>2, <3>3, GlyphStays
    <3> QED
      BY <3>2, <3>4 DEF Kept, next, longer
  <2> QED
    BY <2>5, <2>6 DEF Kept
<1> QED
  BY <1>2, <1>3, <1>4

(* acc[i] is what rewriting has made of the first i atoms.                     *)
IsRewriting(acc, atoms, known) ==
    /\ acc[0] = [out |-> <<>>, entries |-> known, upto |-> 0]
    /\ \A i \in 1..Len(atoms) : acc[i] = RewriteAtom(acc[i - 1], atoms, i)

(* Rewriting a line goes through such states, to the last of them. *)
LEMMA RewritingDone ==
    ASSUME NEW atoms \in Seq(Atoms), NEW known \in Seq(Seq(Atoms))
    PROVE  \E acc \in [0..Len(atoms) -> DrawStates] :
              /\ IsRewriting(acc, atoms, known)
              /\ RewriteDrawings(atoms, known) = acc[Len(atoms)]
<1> DEFINE n == Len(atoms)
           start == [out |-> <<>>, entries |-> known, upto |-> 0]
           step == [p \in (1..n) \X DrawStates |-> RewriteAtom(p[2], atoms, p[1])]
<1>1. n \in Nat
  BY LenProperties
<1>2. start \in DrawStates
  <2>1. <<>> \in Seq(Atoms)
    OBVIOUS
  <2> QED
    BY <2>1 DEF DrawStates
<1>3. step \in [(1..n) \X DrawStates -> DrawStates]
  <2>1. ASSUME NEW p \in (1..n) \X DrawStates PROVE RewriteAtom(p[2], atoms, p[1]) \in DrawStates
    BY RewriteTypes
  <2> QED
    BY <2>1
<1>4. \A i \in 1..n, a \in DrawStates : step[<<i, a>>] = RewriteAtom(a, atoms, i)
  OBVIOUS
<1> HIDE DEF n, start, step
<1>5. PICK f \in [0..n -> DrawStates] : IsRecursion(f, n, start, step)
  BY <1>1, <1>2, <1>3, RecursionExists
<1>6. f[0] = start /\ \A i \in 1..n : f[i] = RewriteAtom(f[i - 1], atoms, i)
  <2>1. \A i \in 1..n : f[i - 1] \in DrawStates
    BY <1>1
  <2> QED
    BY <1>4, <1>5, <2>1 DEF IsRecursion
<1> DEFINE Is(g) == g = [i \in 0..n |->
                          IF i = 0 THEN start ELSE RewriteAtom(g[i - 1], atoms, i)]
           c == CHOOSE g : Is(g)
<1>7. Is(f)
  <2>1. \A i \in 0..n : f[i] = IF i = 0 THEN start ELSE RewriteAtom(f[i - 1], atoms, i)
    BY <1>1, <1>6
  <2> QED
    BY <2>1
<1>8. RewriteDrawings(atoms, known) = c[n]
  BY DEF RewriteDrawings, n, start
<1>9. Is(c)
  <2> HIDE DEF Is
  <2> QED
    BY <1>7
<1> HIDE DEF c
<1>10. c[0] = f[0] /\ GoesOn(c, f, n)
  <2>0. \A i \in 0..n : c[i] = IF i = 0 THEN start ELSE RewriteAtom(c[i - 1], atoms, i)
    BY <1>9
  <2>1. c[0] = start /\ \A i \in 1..n : c[i] = RewriteAtom(c[i - 1], atoms, i)
    BY <1>1, <2>0
  <2> QED
    BY <1>6, <2>1 DEF GoesOn
<1>11. c[n] = f[n] /\ f[n] \in DrawStates
  <2>1. \A i \in 0..n : c[i] = f[i]
    BY <1>1, <1>10, RecursionAgrees
  <2>2. n \in 0..n
    BY <1>1
  <2> QED
    BY <2>1, <2>2
<1>12. IsRewriting(f, atoms, known)
  BY <1>6 DEF IsRewriting, start, n
<1> QED
  BY <1>8, <1>11, <1>12 DEF n

(* So does the rewriting of a line: untouched, or untouched up to a glyph. *)
LEMMA DrawingsRewritten ==
    ASSUME NEW atoms \in Seq(Atoms), NEW known \in Seq(Seq(Atoms))
    PROVE  /\ RewriteDrawings(atoms, known) \in DrawStates
           /\ Kept(RewriteDrawings(atoms, known), atoms, Len(atoms))
<1> DEFINE n == Len(atoms)
           start == [out |-> <<>>, entries |-> known, upto |-> 0]
<1>1. n \in Nat
  BY LenProperties
<1> HIDE DEF n, start
<1>5. PICK f \in [0..n -> DrawStates] :
         IsRewriting(f, atoms, known) /\ RewriteDrawings(atoms, known) = f[n]
  BY RewritingDone DEF n
<1>6. f[0] = start /\ \A i \in 1..n : f[i] = RewriteAtom(f[i - 1], atoms, i)
  BY <1>5 DEF IsRewriting, start, n
<1> DEFINE Good == {i \in 0..n : Kept(f[i], atoms, i)}
<1>12. 0 \in Good
  <2>1. Untouched(start, atoms, 0)
    BY DEF Untouched, start
  <2> QED
    BY <1>1, <1>6, <2>1 DEF Kept
<1>13. ASSUME NEW i \in 1..n, i - 1 \in Good PROVE i \in Good
  <2>1. PICK j \in Nat : i = j + 1 /\ i - 1 = j
    BY <1>1
  <2>2. f[j] \in DrawStates /\ Kept(f[j], atoms, j) /\ f[i] = RewriteAtom(f[j], atoms, i)
    BY <1>1, <1>6, <1>13, <2>1
  <2>3. Kept(RewriteAtom(f[j], atoms, i), atoms, i)
    <3> DEFINE a == f[j]
    <3>1. a \in DrawStates /\ Kept(a, atoms, j)
      BY <2>2
    <3> HIDE DEF a
    <3>2. Kept(RewriteAtom(a, atoms, i), atoms, i)
      BY <2>1, <3>1, RewriteKeeps DEF n
    <3> QED
      BY <3>2 DEF a
  <2> QED
    BY <2>2, <2>3
<1> HIDE DEF Good
<1>14. \A i \in 0..n : i \in Good
  BY <1>1, <1>12, <1>13, UpTo
<1>15. Kept(f[n], atoms, n)
  <2>1. n \in 0..n
    BY <1>1
  <2> QED
    BY <1>14, <2>1 DEF Good
<1>16. f[n] \in DrawStates
  BY <1>1
<1> QED
  BY <1>5, <1>15, <1>16 DEF n

(* What rewriting makes of a line: the beginning of it, to the end or to the   *)
(* first glyph, is as it was.                                                  *)
Redrawn(out, atoms) ==
    \/ Len(out) <= Len(atoms) /\ \A k \in 1..Len(out) : out[k] = atoms[k]
    \/ \E d \in 1..Len(atoms) : GlyphAt(out, atoms, d)
RedrawnLine(line2, line) ==
    \E out \in Seq(Atoms) : Redrawn(out, line.atoms) /\ line2 = [line EXCEPT !.atoms = out]

(* A line with its drawings rewritten is redrawn in that sense. *)
LEMMA LineRedrawn ==
    ASSUME NEW line \in Lines, NEW known \in Seq(Seq(Atoms))
    PROVE  /\ RedrawnLine([line EXCEPT !.atoms = RewriteDrawings(@, known).out], line)
           /\ RewriteDrawings(line.atoms, known).entries \in Seq(Seq(Atoms))
<1> DEFINE atoms == line.atoms
           acc == RewriteDrawings(atoms, known)
<1>1. atoms \in Seq(Atoms)
  BY DEF Lines
<1> HIDE DEF atoms
<1>2. acc \in DrawStates /\ Kept(acc, atoms, Len(atoms))
  BY <1>1, DrawingsRewritten
<1> HIDE DEF acc
<1>3. acc.out \in Seq(Atoms) /\ acc.entries \in Seq(Seq(Atoms)) /\ Len(atoms) \in Nat
  BY <1>1, <1>2, LenProperties DEF DrawStates
<1>4. Redrawn(acc.out, atoms)
  BY <1>2, <1>3 DEF Kept, Untouched, Redrawn
<1> QED
  BY <1>3, <1>4 DEF RedrawnLine, acc, atoms

(* A line no drawing of which is made a glyph.                                 *)
LEMMA LineLeft ==
    ASSUME NEW line \in Lines PROVE RedrawnLine(line, line)
<1>1. line.atoms \in Seq(Atoms)
  BY DEF Lines
<1>2. Len(line.atoms) \in Nat
  BY <1>1, LenProperties
<1>3. Redrawn(line.atoms, line.atoms)
  BY <1>2 DEF Redrawn
<1>4. line = [line EXCEPT !.atoms = line.atoms]
  BY DEF Lines
<1> QED
  BY <1>1, <1>3, <1>4 DEF RedrawnLine

(* known[i] are the drawings of the first i lines.                             *)
IsKnown(known, lines) ==
    /\ known[0] = <<>>
    /\ \A i \in 1..Len(lines) :
          known[i] = RewriteDrawings(lines[i].atoms, known[i - 1]).entries

(* The lines of a subtitle are rewritten with the drawings known from the lines before. *)
LEMMA DrawingsKnown ==
    ASSUME NEW lines \in Seq(Lines)
    PROVE  \E known \in [0..Len(lines) -> Seq(Seq(Atoms))] :
              /\ IsKnown(known, lines)
              /\ DrawingsAsFont(lines).entries = known[Len(lines)]
              /\ DOMAIN DrawingsAsFont(lines).lines = DOMAIN lines
              /\ \A i \in DOMAIN lines :
                    DrawingsAsFont(lines).lines[i] =
                       [lines[i] EXCEPT !.atoms = RewriteDrawings(@, known[i - 1]).out]
<1> DEFINE n == Len(lines)
           D == Seq(Seq(Atoms))
           step == [p \in (1..n) \X D |-> RewriteDrawings(lines[p[1]].atoms, p[2]).entries]
<1>1. n \in Nat /\ DOMAIN lines = 1..n /\ \A i \in 1..n : lines[i] \in Lines
  BY LenProperties, ElementOfSeq
<1>2. <<>> \in D
  OBVIOUS
<1>3. step \in [(1..n) \X D -> D]
  <2>1. ASSUME NEW p \in (1..n) \X D PROVE RewriteDrawings(lines[p[1]].atoms, p[2]).entries \in D
    <3>1. p[2] \in D /\ lines[p[1]] \in Lines
      BY <1>1
    <3> QED
      BY <3>1, LineRedrawn
  <2> QED
    BY <2>1
<1>4. \A i \in 1..n, d \in D : step[<<i, d>>] = RewriteDrawings(lines[i].atoms, d).entries
  OBVIOUS
<1> HIDE DEF n, D, step
<1>5. PICK f \in [0..n -> D] : IsRecursion(f, n, <<>>, step)
  BY <1>1, <1>2, <1>3, RecursionExists
<1>6. f[0] = <<>> /\ \A i \in 1..n : f[i] = RewriteDrawings(lines[i].atoms, f[i - 1]).entries
  <2>1. \A i \in 1..n : f[i - 1] \in D
    BY <1>1
  <2> QED
    BY <1>4, <1>5, <2>1 DEF IsRecursion
<1> DEFINE Is(g) == g = [i \in 0..n |-> IF i = 0 THEN <<>>
                                        ELSE RewriteDrawings(lines[i].atoms, g[i - 1]).entries]
           c == CHOOSE g : Is(g)
<1>7. Is(f)
  <2>1. \A i \in 0..n : f[i] = IF i = 0 THEN <<>>
                              ELSE RewriteDrawings(lines[i].atoms, f[i - 1]).entries
    BY <1>1, <1>6
  <2> QED
    BY <2>1
<1>8. /\ DrawingsAsFont(lines).entries = c[n]
      /\ DOMAIN DrawingsAsFont(lines).lines = DOMAIN lines
      /\ \A i \in DOMAIN lines :
            DrawingsAsFont(lines).lines[i] =
               [lines[i] EXCEPT !.atoms = RewriteDrawings(@, c[i - 1]).out]
  BY DEF DrawingsAsFont, n
<1>9. Is(c)
  <2> HIDE DEF Is
  <2> QED
    BY <1>7
<1> HIDE DEF c
<1>10. c[0] = f[0] /\ GoesOn(c, f, n)
  <2>0. \A i \in 0..n : c[i] = IF i = 0 THEN <<>>
                              ELSE RewriteDrawings(lines[i].atoms, c[i - 1]).entries
    BY <1>9
  <2>1. c[0] = <<>> /\ \A i \in 1..n : c[i] = RewriteDrawings(lines[i].atoms, c[i - 1]).entries
    BY <1>1, <2>0
  <2> QED
    BY <1>6, <2>1 DEF GoesOn
<1>11. \A i \in 0..n : c[i] = f[i]
  BY <1>1, <1>10, RecursionAgrees
<1>12. /\ DrawingsAsFont(lines).entries = f[n]
       /\ \A i \in DOMAIN lines :
             DrawingsAsFont(lines).lines[i] =
                [lines[i] EXCEPT !.atoms = RewriteDrawings(@, f[i - 1]).out]
  <2>1. n \in 0..n /\ \A i \in DOMAIN lines : i - 1 \in 0..n
    BY <1>1
  <2> QED
    BY <1>8, <1>11, <2>1
<1>13. IsKnown(f, lines)
  BY <1>6 DEF IsKnown, n
<1> QED
  BY <1>8, <1>12, <1>13 DEF n, D

(* All lines of a subtitle are redrawn. *)
LEMMA LinesRedrawn ==
    ASSUME NEW lines \in Seq(Lines)
    PROVE  /\ DrawingsAsFont(lines).entries \in Seq(Seq(Atoms))
           /\ DOMAIN DrawingsAsFont(lines).lines = DOMAIN lines
           /\ \A i \in DOMAIN lines : RedrawnLine(DrawingsAsFont(lines).lines[i], lines[i])
<1>1. Len(lines) \in Nat /\ DOMAIN lines = 1..Len(lines)
      /\ \A i \in 1..Len(lines) : lines[i] \in Lines
  BY LenProperties, ElementOfSeq
<1>2. PICK known \in [0..Len(lines) -> Seq(Seq(Atoms))] :
         /\ DrawingsAsFont(lines).entries = known[Len(lines)]
         /\ DOMAIN DrawingsAsFont(lines).lines = DOMAIN lines
         /\ \A i \in DOMAIN lines :
               DrawingsAsFont(lines).lines[i] =
                  [lines[i] EXCEPT !.atoms = RewriteDrawings(@, known[i - 1]).out]
  BY DrawingsKnown
<1>3. ASSUME NEW i \in DOMAIN lines PROVE RedrawnLine(DrawingsAsFont(lines).lines[i], lines[i])
  <2>1. known[i - 1] \in Seq(Seq(Atoms)) /\ lines[i] \in Lines
    BY <1>1
  <2> QED
    BY <1>2, <2>1, LineRedrawn
<1>4. known[Len(lines)] \in Seq(Seq(Atoms))
  BY <1>1
<1> QED
  BY <1>2, <1>3, <1>4

-------------------------------------------------------------------------------
(* The beginning of a converted line.                                          *)

RenameLine(line, map) == [line EXCEPT !.atoms = [k \in DOMAIN @ |-> RenameAtom(@[k], map)]]

(* The atoms of a renamed line are the renamed atoms. *)
LEMMA LineRenamed ==
    ASSUME NEW map, Renames(map), NEW line \in Lines
    PROVE  /\ RenameLine(line, map) \in Lines /\ RenameLine(line, map).style = line.style
           /\ Len(RenameLine(line, map).atoms) = Len(line.atoms)
           /\ \A k \in 1..Len(line.atoms) :
                 RenameLine(line, map).atoms[k] = RenameAtom(line.atoms[k], map)
<1> DEFINE atoms == line.atoms
           new == [k \in DOMAIN atoms |-> RenameAtom(atoms[k], map)]
<1>1. PICK n \in Nat : LineAtoms(line, n)
  BY AtomsOfLine
<1>2. n = Len(atoms) /\ DOMAIN atoms = 1..n /\ \A k \in 1..n : atoms[k] \in Atoms
  BY <1>1 DEF LineAtoms
<1>3. new \in [1..n -> Atoms]
  BY <1>2, AtomRenamed
<1>4. new \in Seq(Atoms) /\ Len(new) = n /\ \A k \in 1..n : new[k] = RenameAtom(atoms[k], map)
  BY <1>2, <1>3, SeqDef, LenProperties
<1>5. RenameLine(line, map) = [line EXCEPT !.atoms = new]
  BY DEF RenameLine
<1> HIDE DEF new
<1>6. [line EXCEPT !.atoms = new] \in Lines /\ [line EXCEPT !.atoms = new].style = line.style
      /\ [line EXCEPT !.atoms = new].atoms = new
  BY <1>4 DEF Lines
<1> QED
  BY <1>2, <1>4, <1>5, <1>6

(* The drawing font's tags get no other name.                                  *)
LEMMA DrawNameStays ==
    ASSUME NEW map, Renames(map)
    PROVE  UsesDrawName(RenameAtom(DrawBlock, map))
<1> DEFINE tags == <<Fn(DrawName), P(0)>>
<1>1. DrawBlock.tags = tags
  BY DEF DrawBlock, Block
<1>2. RenameAtom(DrawBlock, map).tags = [t \in DOMAIN tags |-> RenameTag(tags[t], map)]
  BY <1>1 DEF RenameAtom, DrawBlock, Block
<1>3. 1 \in DOMAIN tags /\ tags[1] = Fn(DrawName)
  OBVIOUS
<1> HIDE DEF tags
<1>4. 1 \in DOMAIN RenameAtom(DrawBlock, map).tags
      /\ RenameAtom(DrawBlock, map).tags[1] = RenameTag(Fn(DrawName), map)
  BY <1>2, <1>3
<1>5. "assdrawsubset" \notin DOMAIN map /\ Lookup(DrawName) = "assdrawsubset"
  BY DEF Renames, DrawName, Lookup, Name
<1>6. Renamed(DrawName, map) = DrawName
  BY <1>5 DEF Renamed
<1>7. Fn(DrawName).name = "fn" /\ Fn(DrawName).font = DrawName
  BY DEF Fn, Tag
<1>8. RenameTag(Fn(DrawName), map) = [Fn(DrawName) EXCEPT !.font = DrawName]
  BY <1>6, <1>7 DEF RenameTag
<1>9. RenameTag(Fn(DrawName), map).name = "fn" /\ RenameTag(Fn(DrawName), map).font = DrawName
  BY <1>8 DEF Fn, Tag
<1> QED
  BY <1>4, <1>9 DEF UsesDrawName

(* ... nor is anything lost before the first of them.                          *)
LEMMA BeginningKept ==
    ASSUME NEW map, Renames(map), NEW line \in Lines, NEW line2, RedrawnLine(line2, line)
    PROVE  /\ Begins(BeforeDrawings(RenameLine(line2, map)), line, map)
           /\ RenameLine(line2, map).style = line.style
<1> DEFINE line3 == RenameLine(line2, map)
           atoms3 == line3.atoms
           drawn == {k \in DOMAIN atoms3 : UsesDrawName(atoms3[k])}
           m == CHOOSE k \in drawn : \A d \in drawn : k <= d
           result == BeforeDrawings(line3)
<1>1. PICK out \in Seq(Atoms) : Redrawn(out, line.atoms) /\ line2 = [line EXCEPT !.atoms = out]
  BY DEF RedrawnLine
<1>2. line2 \in Lines /\ line2.style = line.style /\ line2.atoms = out
  BY <1>1 DEF Lines
<1>3. PICK n \in Nat : LineAtoms(line, n)
  BY AtomsOfLine
<1>4. n = Len(line.atoms) /\ Len(out) \in Nat
  BY <1>3, LenProperties DEF LineAtoms
<1>5. /\ line3 \in Lines /\ line3.style = line.style /\ Len(atoms3) = Len(out)
      /\ \A k \in 1..Len(out) : atoms3[k] = RenameAtom(out[k], map)
  BY <1>2, LineRenamed
<1>6. atoms3 \in Seq(Atoms) /\ DOMAIN atoms3 = 1..Len(out) /\ \A k \in 1..Len(out) : atoms3[k] \in Atoms
  <2>1. atoms3 \in Seq(Atoms)
    BY <1>5 DEF Lines
  <2> HIDE DEF atoms3
  <2> QED
    BY <1>5, <2>1, LenProperties, ElementOfSeq
<1>7. result = IF drawn = {} THEN line3 ELSE [line3 EXCEPT !.atoms = SubSeq(atoms3, 1, m - 1)]
  BY DEF BeforeDrawings
<1> HIDE DEF line3, atoms3, result
<1>8. CASE drawn = {}
  <2>1. ASSUME NEW d \in 1..n, GlyphAt(out, line.atoms, d) PROVE FALSE
    <3>1. d \in 1..Len(out) /\ out[d] = DrawBlock
      BY <1>3, <1>4, <2>1 DEF GlyphAt
    <3>2. d \in drawn
      BY <1>5, <1>6, <3>1, DrawNameStays
    <3> QED
      BY <1>8, <3>2
  <2>2. Len(out) <= n /\ \A k \in 1..Len(out) : out[k] = line.atoms[k]
    BY <1>1, <1>4, <2>1 DEF Redrawn
  <2>3. result = line3
    BY <1>7, <1>8
  <2>4. Len(result.atoms) = Len(out)
        /\ \A k \in 1..Len(out) : result.atoms[k] = RenameAtom(line.atoms[k], map)
    BY <1>5, <2>2, <2>3 DEF atoms3
  <2> QED
    BY <1>4, <1>5, <2>2, <2>3, <2>4 DEF Begins, result, line3
<1>9. CASE drawn # {}
  <2>1. m \in drawn /\ \A d \in drawn : m <= d
    <3>1. drawn \in SUBSET Nat
      BY <1>6
    <3>2. \E k \in drawn : \A d \in drawn : k <= d
      <4> HIDE DEF drawn
      <4> QED
        BY <1>9, <3>1, Least
    <3> HIDE DEF drawn
    <3> QED
      BY <3>2
  <2>2. m \in 1..Len(out)
    BY <1>6, <2>1
  <2> DEFINE front == SubSeq(atoms3, 1, m - 1)
  <2>3. /\ front \in Seq(Atoms) /\ Len(front) = m - 1
        /\ \A k \in 1..m - 1 : front[k] = atoms3[k]
    <3> HIDE DEF m
    <3>0. 1 \in Int /\ m - 1 \in Int /\ \A k \in 1..m - 1 : atoms3[k] \in Atoms
      BY <1>4, <1>6, <2>2
    <3>1. /\ front \in Seq(Atoms) /\ Len(front) = IF 1 <= m - 1 THEN m - 1 - 1 + 1 ELSE 0
          /\ \A k \in 1..m - 1 - 1 + 1 : front[k] = atoms3[1 + k - 1]
      BY <3>0, SubSeqProperties
    <3> HIDE DEF front
    <3>2. Len(front) = m - 1
      BY <2>2, <3>1
    <3>3. ASSUME NEW k \in 1..m - 1 PROVE front[k] = atoms3[k]
      <4>1. k \in 1..m - 1 - 1 + 1 /\ 1 + k - 1 = k
        BY <2>2
      <4> QED
        BY <3>1, <4>1
    <3> QED
      BY <3>1, <3>2, <3>3
  <2>4. result = [line3 EXCEPT !.atoms = front]
    BY <1>7, <1>9
  <2> HIDE DEF front, m
  <2>5. result \in Lines /\ result.style = line.style /\ result.atoms = front
    BY <1>5, <2>3, <2>4 DEF Lines
  <2>6. m - 1 <= n /\ \A k \in 1..m - 1 : out[k] = line.atoms[k]
    <3>1. CASE Len(out) <= n /\ \A k \in 1..Len(out) : out[k] = line.atoms[k]
      BY <1>4, <2>2, <3>1
    <3>2. ASSUME NEW d \in 1..n, GlyphAt(out, line.atoms, d)
          PROVE  m - 1 <= n /\ \A k \in 1..m - 1 : out[k] = line.atoms[k]
      <4>1. d \in 1..Len(out) /\ out[d] = DrawBlock /\ \A k \in 1..d - 1 : out[k] = line.atoms[k]
        BY <1>3, <1>4, <3>2 DEF GlyphAt
      <4>2. d \in drawn
        BY <1>5, <1>6, <4>1, DrawNameStays
      <4>3. m <= d
        BY <2>1, <4>2
      <4> QED
        BY <1>4, <2>2, <4>1, <4>3
    <3> QED
      BY <1>1, <1>4, <3>1, <3>2 DEF Redrawn
  <2>7. \A k \in 1..m - 1 : result.atoms[k] = RenameAtom(line.atoms[k], map)
    <3>1. \A k \in 1..m - 1 : k \in 1..Len(out)
      BY <1>4, <2>2
    <3> QED
      BY <1>5, <2>3, <2>5, <2>6, <3>1
  <2>8. Len(result.atoms) = m - 1 /\ Len(result.atoms) <= Len(line.atoms)
    BY <1>4, <2>3, <2>5, <2>6
  <2> QED
    BY <1>5, <2>5, <2>7, <2>8 DEF Begins, result, line3
<1> QED
  BY <1>8, <1>9

-------------------------------------------------------------------------------
(* What a subtitle uses, and the fonts made for it.                            *)

SlotNames == {"normal", "bold", "italic", "boldItalic"}
UseRecords == [font : FontNames, slot : SlotNames, ch : Int]
Fonts == [original : FontNames, family : FontNames, slot : SlotNames, chars : SUBSET Int,
          draws : Seq(Seq(Atoms)), data : ToSet(FontFiles)]

(* The slots, spelt out. *)
LEMMA TheSlots ==
    /\ ToSet(Slots) = SlotNames /\ Slots[1] = "normal"
    /\ Len(Slots) = 4 /\ DOMAIN Slots = 1..4
<1>1. Slots = <<"normal", "bold", "italic", "boldItalic">>
  BY DEF Slots
<1>2. DOMAIN Slots = 1..4 /\ Len(Slots) = 4
  BY <1>1
<1>3. ToSet(Slots) = {Slots[1], Slots[2], Slots[3], Slots[4]}
  <2>1. \A i : i \in 1..4 <=> i \in {1, 2, 3, 4}
    OBVIOUS
  <2> QED
    BY <1>2, <2>1 DEF ToSet
<1>4. Slots[1] = "normal" /\ Slots[2] = "bold" /\ Slots[3] = "italic" /\ Slots[4] = "boldItalic"
  BY <1>1
<1> QED
  BY <1>2, <1>3, <1>4 DEF SlotNames

(* A typed text uses fonts, slots and characters. *)
LEMMA UsesTyped ==
    ASSUME NEW doc \in Documents
    PROVE  Uses(doc) \subseteq UseRecords
<1>1. doc.styles \in [DOMAIN doc.styles -> Styles] /\ doc.lines \in Seq(Lines)
  BY TextAssumption DEF TextAssumption
<1> DEFINE styles == doc.styles
<1>2. \A i \in DOMAIN doc.lines : doc.lines[i] \in Lines
  BY <1>1, LenProperties, ElementOfSeq
<1>3. ASSUME NEW line \in Lines PROVE LineUses(styles, line) \subseteq UseRecords
  <2>1. PICK n \in Nat : LineAtoms(line, n)
    BY AtomsOfLine
  <2>2. PICK after \in [0..n -> States] : \A i \in 0..n : Reading(styles, line)[i] = after[i]
    <3>1. styles \in [DOMAIN styles -> Styles]
      BY <1>1
    <3> HIDE DEF styles
    <3> QED
      BY <2>1, <3>1, LineRead DEF LineAtoms
  <2>3. ASSUME NEW s \in States, NEW atom \in Atoms PROVE Use(s, atom) \subseteq UseRecords
    <3>1. s.style \in Styles /\ s.style.font \in FontNames /\ s.style.bold \in BOOLEAN
          /\ s.style.italic \in BOOLEAN /\ atom.ch \in Int
      BY DEF States, Styles, Atoms
    <3>2. NormFont(s.style.font) \in FontNames
      BY <3>1 DEF NormFont, FontNames
    <3>3. SlotOf(s.style) \in SlotNames
      BY <3>1 DEF SlotOf, SlotNames
    <3> QED
      BY <3>1, <3>2, <3>3 DEF Use, UseRecords
  <2>4. ASSUME NEW i \in DOMAIN line.atoms
        PROVE  Use(Reading(styles, line)[i - 1], line.atoms[i]) \subseteq UseRecords
    <3>1. i \in 1..n /\ i - 1 \in 0..n /\ line.atoms[i] \in Atoms
      BY <2>1 DEF LineAtoms
    <3>2. Reading(styles, line)[i - 1] \in States
      BY <2>2, <3>1
    <3> QED
      BY <2>3, <3>1, <3>2
  <2> QED
    BY <2>4 DEF LineUses
<1> QED
  BY <1>2, <1>3 DEF Uses

(* A singleton or nothing, for each index.                                     *)
LEMMA PiecesOfSeq ==
    ASSUME NEW S, NEW n \in Nat, NEW seqs \in [1..n -> Seq(S)]
    PROVE  seqs \in Seq(Seq(S)) /\ DOMAIN seqs = 1..n
BY SeqDef

(* A sequence of one element. *)
LEMMA SingletonSeq ==
    ASSUME NEW S, NEW x \in S
    PROVE  <<x>> \in Seq(S) /\ ToSet(<<x>>) = {x}
<1>1. <<x>> \in Seq(S) /\ DOMAIN <<x>> = 1..1 /\ <<x>>[1] = x
  OBVIOUS
<1> QED
  BY <1>1 DEF ToSet

(* The empty sequence has no elements. *)
LEMMA NothingInEmpty == ToSet(<<>>) = {}
BY DEF ToSet

(* Between one and i numbers of 1..i, if i is one of them.                     *)
LEMMA PartOfInterval ==
    ASSUME NEW i \in 1..4, NEW T \in SUBSET (1..i), i \in T
    PROVE  Cardinality(T) \in 1..4
<1>1. IsFiniteSet(1..i) /\ Cardinality(1..i) = i
  <2>1. 1 \in Int /\ i \in Int /\ i >= 1
    OBVIOUS
  <2> QED
    BY <2>1, FS_Interval
<1>2. IsFiniteSet(T) /\ Cardinality(T) <= Cardinality(1..i)
  BY <1>1, FS_Subset
<1>3. Cardinality(T) \in Nat /\ Cardinality(T) # 0
  BY <1>2, FS_CardinalityType, FS_EmptySet
<1> QED
  BY <1>1, <1>2, <1>3

(* subset_usage makes fonts under the family, and one for every character of   *)
(* the font in the slot that it needs.                                         *)
Cover(fonts, u) ==
    \E x \in ToSet(fonts) :
        u.ch \in x.chars /\ x.slot = IF options.multi THEN u.slot ELSE "normal"

(* subset_usage makes well-typed fonts under the family, which cover every use of the font. *)
LEMMA SubsetsMade ==
    ASSUME NEW font \in FontNames, NEW family \in FontNames, options \in Options,
           Len(embedded) \in Nat, EnoughFiles, Uses(text) \subseteq UseRecords
    PROVE  /\ Subsets(font, family) \in Seq(Fonts)
           /\ \A x \in ToSet(Subsets(font, family)) : x.original = font /\ x.family = family /\ x.draws = <<>>
           /\ \A u \in Uses(text) : u.font = font /\ u.ch # 0 => Cover(Subsets(font, family), u)
<1> DEFINE uses == Uses(text)
           cut == IF options.multi THEN [i \in 1..4 |-> {Slots[i]}] ELSE <<ToSet(Slots)>>
           n == IF options.multi THEN 4 ELSE 1
           InUse(i) == Chars(uses, font, cut[i]) # {}
           made(i) == [original |-> font, family |-> family, slot |-> Slots[i],
                       chars |-> Chars(uses, font, cut[i]), draws |-> <<>>,
                       data |-> FontFiles[Len(embedded) + Cardinality({k \in 1..i : InUse(k)})]]
           seqs == [i \in DOMAIN cut |-> IF InUse(i) THEN <<made(i)>> ELSE <<>>]
<1>1. /\ n \in 1..4 /\ DOMAIN cut = 1..n
      /\ \A i \in 1..n : cut[i] = IF options.multi THEN {Slots[i]} ELSE SlotNames
  <2>1. CASE options.multi
    BY <2>1
  <2>2. CASE ~options.multi
    <3>1. cut = <<SlotNames>> /\ n = 1
      BY <2>2, TheSlots
    <3> QED
      BY <2>2, <3>1
  <2> QED
    BY <2>1, <2>2
<1>2. Subsets(font, family) = FlattenSeq(seqs)
  BY DEF Subsets
<1> HIDE DEF cut, n
<1>3. ASSUME NEW i \in 1..n, InUse(i) PROVE made(i) \in Fonts
  <2> DEFINE T == {k \in 1..i : InUse(k)}
             card == Cardinality(T)
             chars == Chars(uses, font, cut[i])
  <2>1. i \in T /\ T \in SUBSET (1..i) /\ i \in 1..4
    BY <1>1, <1>3
  <2>2. card \in 1..4
    <3> HIDE DEF T
    <3> QED
      BY <2>1, PartOfInterval
  <2>3. chars \in SUBSET Int
    <3>1. \A u \in uses : u.ch \in Int
      BY DEF UseRecords
    <3> HIDE DEF uses
    <3> QED
      BY <3>1 DEF Chars
  <2>4. Slots[i] \in SlotNames
    BY <2>1, TheSlots DEF ToSet
  <2> HIDE DEF card, chars
  <2>5. FontFiles[Len(embedded) + card] \in ToSet(FontFiles)
    <3>1. Len(FontFiles) \in Nat /\ DOMAIN FontFiles = 1..Len(FontFiles)
      BY TextAssumption, LenProperties DEF TextAssumption
    <3>2. Len(embedded) + card \in DOMAIN FontFiles
      BY <2>2, <3>1, TheSlots DEF EnoughFiles
    <3> QED
      BY <3>2 DEF ToSet
  <2>6. <<>> \in Seq(Seq(Atoms))
    OBVIOUS
  <2> DEFINE d == FontFiles[Len(embedded) + card]
  <2>7. d \in ToSet(FontFiles) /\ made(i) = [original |-> font, family |-> family, slot |-> Slots[i],
                       chars |-> chars, draws |-> <<>>, data |-> d]
    BY <2>5 DEF card, chars
  <2> HIDE DEF d, made
  <2> QED
    BY <2>3, <2>4, <2>6, <2>7 DEF Fonts
<1>4. \A i \in 1..n : made(i).original = font /\ made(i).family = family /\ made(i).draws = <<>>
                      /\ made(i).slot = Slots[i] /\ made(i).chars = Chars(uses, font, cut[i])
  OBVIOUS
<1> HIDE DEF made
<1>5. seqs \in Seq(Seq(Fonts)) /\ DOMAIN seqs = 1..n
  <2>1. ASSUME NEW i \in 1..n PROVE (IF InUse(i) THEN <<made(i)>> ELSE <<>>) \in Seq(Fonts)
    <3>1. <<>> \in Seq(Fonts)
      OBVIOUS
    <3> QED
      BY <1>3, <3>1, SingletonSeq
  <2>2. seqs \in [1..n -> Seq(Fonts)] /\ n \in Nat
    BY <1>1, <2>1
  <2> HIDE DEF seqs
  <2> QED
    BY <2>2, PiecesOfSeq
<1>6. ASSUME NEW i \in 1..n PROVE ToSet(seqs[i]) = IF InUse(i) THEN {made(i)} ELSE {}
  <2>1. seqs[i] = IF InUse(i) THEN <<made(i)>> ELSE <<>>
    BY <1>1
  <2>2. ToSet(<<made(i)>>) = {made(i)}
    <3> DEFINE x == made(i)
    <3> HIDE DEF x
    <3>1. ToSet(<<x>>) = {x}
      BY SingletonSeq
    <3> QED
      BY <3>1 DEF x
  <2> QED
    BY <2>1, <2>2, NothingInEmpty
<1> HIDE DEF seqs
<1>7. /\ FlattenSeq(seqs) \in Seq(Fonts)
      /\ \A x : x \in ToSet(FlattenSeq(seqs)) <=> \E i \in 1..n : x \in ToSet(seqs[i])
  BY <1>5, FlattenElements
<1>8. \A x : x \in ToSet(FlattenSeq(seqs)) <=> \E i \in 1..n : InUse(i) /\ x = made(i)
  BY <1>6, <1>7
<1>9. ASSUME NEW u \in Uses(text), u.font = font, u.ch # 0 PROVE Cover(FlattenSeq(seqs), u)
  <2>1. u.slot \in SlotNames
    BY DEF UseRecords
  <2>2. PICK i \in 1..n : u.slot \in cut[i] /\ Slots[i] = IF options.multi THEN u.slot ELSE "normal"
    <3>1. CASE options.multi
      <4>1. PICK i \in 1..4 : Slots[i] = u.slot
        BY <2>1, TheSlots DEF ToSet
      <4>2. i \in 1..n
        BY <3>1 DEF n
      <4> QED
        BY <1>1, <3>1, <4>1, <4>2
    <3>2. CASE ~options.multi
      <4>1. 1 \in 1..n
        BY <1>1
      <4> QED
        BY <1>1, <2>1, <3>2, <4>1, TheSlots
    <3> QED
      BY <3>1, <3>2
  <2>3. u.ch \in Chars(uses, font, cut[i])
    BY <1>9, <2>2 DEF Chars
  <2>4. made(i) \in ToSet(FlattenSeq(seqs))
    BY <1>8, <2>3
  <2> QED
    BY <1>4, <2>2, <2>3, <2>4 DEF Cover
<1>10. ASSUME NEW x \in ToSet(FlattenSeq(seqs))
       PROVE  x.original = font /\ x.family = family /\ x.draws = <<>>
  BY <1>4, <1>8
<1> QED
  BY <1>2, <1>7, <1>9, <1>10

-------------------------------------------------------------------------------
(* The loop over the fonts in use.                                             *)

ExemptFace(face) == Exempt(Name(face))

(* Whether a font is left out depends on what it is looked up by. *)
LEMMA ExemptByName ==
    ASSUME NEW font PROVE Exempt(font) <=> ExemptFace(Lookup(font))
<1>1. Lookup(Name(Lookup(font))) = Lookup(font)
  BY DEF Lookup, Name
<1> QED
  BY <1>1 DEF ExemptFace, Exempt

(* Names given: to fonts of the index that are embedded, each its own, and     *)
(* none if the option is off.                                                  *)
NamesInv ==
    /\ Renames(names) /\ DOMAIN names \subseteq IndexedFaces
    /\ ~options.random => DOMAIN names = {}
    /\ \A face \in DOMAIN names : ~ExemptFace(face)
    /\ \A f, g \in DOMAIN names : names[f].face = names[g].face => f = g

(* A font is embedded under its own name or under the one it was given.        *)
NamedFor(e, map) ==
    \/ e.original = DrawName /\ e.family = DrawName
    \/ options.random /\ Lookup(e.original) \in DOMAIN map /\ e.family = map[Lookup(e.original)]
    \/ ~options.random /\ e.family = e.original
EmbeddedInv ==
    /\ embedded \in Seq(Fonts)
    /\ \A k \in DOMAIN embedded : NamedFor(embedded[k], names)

(* A font without a name it would have been given has no name to be found by,  *)
(* so that nothing is left of it in the text; but no such font is used.        *)
Served(u, fonts, map) ==
    /\ options.random => Lookup(u.font) \in DOMAIN map
    /\ u.ch # 0 =>
          \E k \in DOMAIN fonts :
             /\ Lookup(fonts[k].family) = Lookup(Renamed(u.font, map))
             /\ u.ch \in fonts[k].chars
             /\ fonts[k].slot = IF options.multi THEN u.slot ELSE "normal"

(* The loop has passed over a font, or it has served all its uses.             *)
UsesInv ==
    stage = "fonts" =>
        \A u \in Uses(text) :
            u.font \in todo \/ u.font \in missing \/ Exempt(u.font) \/ Served(u, embedded, names)

LoopInv ==
    /\ source \in Documents /\ options \in OptionSets
    /\ stage \in {"idle", "fonts", "converted", "failed", "stripped"}
    /\ todo \subseteq FontNames
    /\ \A font \in missing : Lookup(font) \notin IndexedFaces
    /\ stage \in {"idle", "fonts"} => text = source
    /\ stage = "idle" => embedded = <<>>
    /\ stage = "fonts" => ~HasFonts(text)
    /\ stage = "converted" /\ embedded = <<>> => text = source
    /\ NamesInv /\ EmbeddedInv /\ UsesInv

-------------------------------------------------------------------------------
(* The name a font gets.                                                       *)

(* map goes on from the names given before; the font has its name in it.       *)
Extends(map, font) ==
    /\ DOMAIN names \subseteq DOMAIN map
    /\ \A face \in DOMAIN names : map[face] = names[face]
    /\ options.random => Lookup(font) \in DOMAIN map
    /\ EmbeddedName(font) = Renamed(font, map)

(* NamesInv of any renaming.                                                   *)
NamesFit(map) ==
    /\ Renames(map) /\ DOMAIN map \subseteq IndexedFaces
    /\ ~options.random => DOMAIN map = {}
    /\ \A face \in DOMAIN map : ~ExemptFace(face)
    /\ \A f, g \in DOMAIN map : map[f].face = map[g].face => f = g

(* stable_font_name returns a digest nobody has yet, when one of its salts has one. *)
LEMMA StableNameIsFree ==
    ASSUME NEW face \in IndexedFaces, NEW used, FreeSalts(face, used) # {}
    PROVE  StableName(face, used) \in Words \ {"", "assdrawsubset"} /\ StableName(face, used) \notin used
<1> DEFINE free == FreeSalts(face, used)
           salt == CHOOSE s \in free : \A other \in free : s <= other
<1>1. free \in SUBSET Nat /\ free \subseteq 0..MaxSalt /\ \A s \in free : Digest(face, s) \notin used
  <2>1. free = {s \in 0..MaxSalt : Digest(face, s) \notin used}
    BY DEF FreeSalts
  <2> HIDE DEF free
  <2>2. 0..MaxSalt \subseteq Nat
    <3>1. MaxSalt \in Nat
      BY TextAssumption DEF TextAssumption
    <3> QED
      BY <3>1
  <2>3. ASSUME NEW s \in free PROVE s \in 0..MaxSalt /\ Digest(face, s) \notin used
    BY <2>1
  <2>4. free \subseteq 0..MaxSalt
    BY <2>3
  <2>5. free \in SUBSET Nat
    BY <2>2, <2>4
  <2> QED
    BY <2>3, <2>4, <2>5
<1>2. StableName(face, used) = Digest(face, salt)
  BY DEF StableName
<1>3. salt \in free
  <2> HIDE DEF free
  <2>1. \E s \in free : \A other \in free : s <= other
    BY <1>1, Least DEF free
  <2> QED
    BY <2>1
<1> HIDE DEF free, salt
<1>4. Digest(face, salt) \in Words \ {"", "assdrawsubset"} /\ Digest(face, salt) \notin used
  BY <1>1, <1>3, TextAssumption DEF TextAssumption
<1> QED
  BY <1>2, <1>4

(* The name a font gets leaves the renaming fit: one name for a font, and a font for a name. *)
LEMMA NameGiven ==
    ASSUME NamesInv, NEW font \in FontNames, Lookup(font) \in IndexedFaces, ~Exempt(font),
           options.random => \/ Lookup(font) \in DOMAIN names
                             \/ FreeSalts(Lookup(font), Given) # {}
    PROVE  /\ EmbeddedName(font) \in FontNames
           /\ Extends(IF options.random THEN NamesWith(font) ELSE names, font)
           /\ NamesFit(IF options.random THEN NamesWith(font) ELSE names)
<1> DEFINE face == Lookup(font)
           new == EmbeddedName(font)
<1>1. CASE ~options.random
  <2>1. new = font /\ DOMAIN names = {}
    BY <1>1 DEF EmbeddedName, NamesInv
  <2>2. Renamed(font, names) = font
    BY <2>1 DEF Renamed
  <2>3. Extends(names, font)
    BY <1>1, <2>1, <2>2 DEF Extends
  <2> QED
    BY <1>1, <2>1, <2>3 DEF NamesInv, NamesFit
<1>2. CASE options.random /\ face \in DOMAIN names
  <2>1. new = names[face]
    BY <1>2 DEF EmbeddedName
  <2>2. /\ DOMAIN NamesWith(font) = DOMAIN names
        /\ \A f \in DOMAIN names : NamesWith(font)[f] = names[f]
    <3> HIDE DEF new
    <3> QED
      BY <1>2, <2>1 DEF NamesWith, new
  <2>3. PICK word \in Words \ {"", "assdrawsubset"} : names[face] = Name(word)
    BY <1>2 DEF NamesInv, Renames
  <2>4. new \in FontNames
    BY <2>1, <2>3, NameTypes
  <2> DEFINE map == NamesWith(font)
  <2> HIDE DEF map, new
  <2>5. Renamed(font, map) = new
    BY <1>2, <2>1, <2>2 DEF Renamed, map
  <2>6. Extends(map, font)
    BY <1>2, <2>2, <2>5 DEF Extends, map, new
  <2>7. NamesFit(map)
    <3>1. Renames(map)
      BY <2>2 DEF NamesInv, Renames, map
    <3>2. \A f, g \in DOMAIN map : map[f].face = map[g].face => f = g
      BY <2>2 DEF NamesInv, map
    <3> QED
      BY <1>2, <2>2, <3>1, <3>2 DEF NamesInv, NamesFit, map
  <2> QED
    BY <1>2, <2>4, <2>6, <2>7 DEF map, new
<1>3. CASE options.random /\ face \notin DOMAIN names
  <2> DEFINE word == StableName(face, Given)
             map == NamesWith(font)
  <2>1. word \in Words \ {"", "assdrawsubset"} /\ word \notin Given
    BY <1>3, StableNameIsFree
  <2>2. new = Name(word)
    BY <1>3 DEF EmbeddedName
  <2> HIDE DEF word
  <2>3. new \in FontNames /\ new.face = word
    BY <2>1, <2>2, NameTypes DEF Lookup
  <2>4. /\ DOMAIN map = DOMAIN names \cup {face} /\ map[face] = new
        /\ \A f \in DOMAIN names : f # face /\ map[f] = names[f]
    <3>1. map = [f \in DOMAIN names \cup {face} |-> IF f = face THEN new ELSE names[f]]
      BY DEF NamesWith
    <3> HIDE DEF map, new, face
    <3> QED
      BY <1>3, <3>1
  <2> HIDE DEF map, new
  <2>5. Renamed(font, map) = new
    BY <2>4 DEF Renamed
  <2>6. Extends(map, font)
    BY <2>4, <2>5 DEF Extends, new
  <2>7. NamesFit(map)
    <3>1. Renames(map)
      <4>1. face # "" /\ face # "assdrawsubset" /\ face \in Words
        <5>1. face # Lookup(DrawName) /\ Lookup(DrawName) = "assdrawsubset"
          BY DEF Exempt, Lookup, DrawName, Name
        <5> QED
          BY <5>1, TextAssumption DEF TextAssumption
      <4>2. DOMAIN map \subseteq Words \ {"", "assdrawsubset"}
        BY <2>4, <4>1 DEF NamesInv, Renames
      <4>3. ASSUME NEW f \in DOMAIN map PROVE \E w \in Words \ {"", "assdrawsubset"} : map[f] = Name(w)
        BY <2>1, <2>2, <2>4 DEF NamesInv, Renames
      <4> QED
        BY <4>2, <4>3 DEF Renames
    <3>2. ASSUME NEW f \in DOMAIN map, NEW g \in DOMAIN map, map[f].face = map[g].face PROVE f = g
      <4>1. \A h \in DOMAIN names : names[h].face # word
        BY <2>1 DEF Given
      <4>2. \A h, i \in DOMAIN names : names[h].face = names[i].face => h = i
        BY DEF NamesInv
      <4> QED
        BY <2>3, <2>4, <3>2, <4>1, <4>2
    <3>3. \A f \in DOMAIN map : ~ExemptFace(f)
      BY <2>4, ExemptByName DEF NamesInv
    <3>4. DOMAIN map \subseteq IndexedFaces
      BY <2>4 DEF NamesInv
    <3> QED
      BY <1>3, <3>1, <3>2, <3>3, <3>4 DEF NamesFit
  <2> QED
    BY <1>3, <2>3, <2>6, <2>7 DEF map, new
<1> QED
  BY <1>1, <1>2, <1>3

-------------------------------------------------------------------------------
(* Each step keeps the invariant of the loop.                                  *)

(* The invariant holds before any job, *)
LEMMA InitLoop == Init => LoopInv
<1> SUFFICES ASSUME Init PROVE LoopInv
  OBVIOUS
<1>1. /\ source \in Documents /\ text = source /\ options \in OptionSets /\ stage = "idle"
      /\ todo = {} /\ embedded = <<>> /\ names = <<>> /\ missing = {}
  BY DEF Init
<1>2. DOMAIN names = {}
  BY <1>1
<1>3. NamesInv
  BY <1>2 DEF NamesInv, Renames
<1>4. EmbeddedInv
  <2>1. embedded \in Seq(Fonts) /\ DOMAIN embedded = {}
    BY <1>1
  <2> QED
    BY <2>1 DEF EmbeddedInv
<1>5. UsesInv
  BY <1>1 DEF UsesInv
<1> QED
  BY <1>1, <1>3, <1>4, <1>5 DEF LoopInv

(* it holds when a conversion has read the fonts in use, *)
LEMMA ReadKeepsLoop ==
    ASSUME LoopInv, ReadSubtitle PROVE LoopInv'
<1>1. /\ stage = "idle" /\ stage' \in {"failed", "fonts"} /\ todo' = {u.font : u \in Uses(text)}
      /\ UNCHANGED <<source, options, text, embedded, names, missing>>
  BY DEF ReadSubtitle, Unchanged
<1>2. text = source /\ source \in Documents
  BY <1>1 DEF LoopInv
<1>3. todo' \subseteq FontNames
  <2>1. Uses(text) \subseteq UseRecords
    BY <1>2, UsesTyped
  <2> QED
    BY <1>1, <2>1 DEF UseRecords
<1>4. Uses(text)' = Uses(text)
  BY <1>1 DEF Uses
<1>5. UsesInv' /\ (stage = "fonts" => ~HasFonts(text))'
  <2>1. HasFonts(text)' <=> HasFonts(text)
    BY <1>1 DEF HasFonts
  <2>2. stage' = "fonts" => ~HasFonts(text)
    BY DEF ReadSubtitle
  <2> QED
    BY <1>1, <1>4, <2>1, <2>2 DEF UsesInv
<1>6. NamesInv' /\ EmbeddedInv'
  BY <1>1 DEF LoopInv, NamesInv, EmbeddedInv, ExemptFace, Exempt, NamedFor
<1>7. stage' # "idle" /\ stage' # "converted" /\ stage' \in {"idle", "fonts", "converted", "failed", "stripped"}
  BY <1>1
<1> QED
  BY <1>1, <1>2, <1>3, <1>5, <1>6, <1>7 DEF LoopInv

(* What was served stays served.                                               *)
LEMMA ServedStays ==
    ASSUME NEW u, NEW font, NEW map, Extends(map, font), Served(u, embedded, names),
           NamesInv, NamesFit(map), EmbeddedInv, NEW more \in Seq(Fonts)
    PROVE  Served(u, embedded \o more, map)
<1> DEFINE longer == embedded \o more
<1>1. embedded \in Seq(Fonts)
  BY DEF EmbeddedInv
<1>2. \A k \in DOMAIN embedded : k \in DOMAIN longer /\ longer[k] = embedded[k]
  <2> DEFINE old == embedded
  <2>1. old \in Seq(Fonts)
    BY <1>1
  <2> HIDE DEF old
  <2>2. /\ old \o more \in Seq(Fonts) /\ Len(old \o more) = Len(old) + Len(more)
        /\ \A i \in 1..Len(old) + Len(more) :
              (old \o more)[i] = IF i <= Len(old) THEN old[i] ELSE more[i - Len(old)]
    BY <2>1, ConcatProperties
  <2>3. Len(old) \in Nat /\ Len(more) \in Nat /\ DOMAIN old = 1..Len(old)
        /\ DOMAIN (old \o more) = 1..Len(old \o more)
    BY <2>1, <2>2, LenProperties
  <2>4. \A k \in DOMAIN old : k \in DOMAIN (old \o more) /\ (old \o more)[k] = old[k]
    BY <2>2, <2>3
  <2> QED
    BY <2>4 DEF old
<1> HIDE DEF longer
<1>3. Renamed(u.font, map) = Renamed(u.font, names)
  <2>1. CASE options.random
    <3>1. Lookup(u.font) \in DOMAIN names
      BY <2>1 DEF Served
    <3> QED
      BY <3>1 DEF Extends, Renamed
  <2>2. CASE ~options.random
    <3>1. DOMAIN names = {} /\ DOMAIN map = {}
      BY <2>2 DEF NamesInv, NamesFit
    <3> QED
      BY <3>1 DEF Renamed
  <2> QED
    BY <2>1, <2>2
<1>4. options.random => Lookup(u.font) \in DOMAIN map
  BY DEF Served, Extends
<1>5. ASSUME u.ch # 0
      PROVE  \E k \in DOMAIN longer :
                /\ Lookup(longer[k].family) = Lookup(Renamed(u.font, map))
                /\ u.ch \in longer[k].chars
                /\ longer[k].slot = IF options.multi THEN u.slot ELSE "normal"
  <2>1. PICK k \in DOMAIN embedded :
                /\ Lookup(embedded[k].family) = Lookup(Renamed(u.font, names))
                /\ u.ch \in embedded[k].chars
                /\ embedded[k].slot = IF options.multi THEN u.slot ELSE "normal"
    BY <1>5 DEF Served
  <2>2. k \in DOMAIN longer /\ longer[k] = embedded[k]
    BY <1>2
  <2> QED
    BY <1>3, <2>1, <2>2
<1> QED
  BY <1>4, <1>5 DEF Served, longer

(* ... and the font the loop is at becomes so.                                 *)
LEMMA NowServed ==
    ASSUME NEW u, NEW map, NEW made \in Seq(Fonts), EmbeddedInv, Extends(map, u.font),
           \A x \in ToSet(made) : x.family = EmbeddedName(u.font),
           u.ch # 0 => Cover(made, u)
    PROVE  Served(u, embedded \o made, map)
<1> DEFINE longer == embedded \o made
<1>1. embedded \in Seq(Fonts)
  BY DEF EmbeddedInv
<1>2. \A k \in DOMAIN made : \E j \in DOMAIN longer : longer[j] = made[k]
  <2> DEFINE old == embedded
  <2>1. old \in Seq(Fonts)
    BY <1>1
  <2> HIDE DEF old
  <2>2. ToSet(old \o made) = ToSet(old) \cup ToSet(made)
    BY <2>1, ConcatElements
  <2>3. \A k \in DOMAIN made : made[k] \in ToSet(old \o made)
    BY <2>2 DEF ToSet
  <2>4. \A k \in DOMAIN made : \E j \in DOMAIN (old \o made) : (old \o made)[j] = made[k]
    BY <2>3 DEF ToSet
  <2> QED
    BY <2>4 DEF old
<1> HIDE DEF longer
<1>3. ASSUME u.ch # 0
      PROVE  \E k \in DOMAIN longer :
                /\ Lookup(longer[k].family) = Lookup(Renamed(u.font, map))
                /\ u.ch \in longer[k].chars
                /\ longer[k].slot = IF options.multi THEN u.slot ELSE "normal"
  <2>1. PICK x \in ToSet(made) : u.ch \in x.chars /\ x.slot = IF options.multi THEN u.slot ELSE "normal"
    BY <1>3 DEF Cover
  <2>2. PICK k \in DOMAIN made : made[k] = x
    BY <2>1 DEF ToSet
  <2>3. PICK j \in DOMAIN longer : longer[j] = x
    BY <1>2, <2>2
  <2>4. x.family = Renamed(u.font, map)
    BY <2>1 DEF Extends
  <2> QED
    BY <2>1, <2>3, <2>4
<1> QED
  BY <1>3 DEF Served, Extends, longer

(* Fonts made before keep the name they have, new ones have theirs.            *)
LEMMA EmbeddedNamed ==
    ASSUME EmbeddedInv, NEW font, NEW map, Extends(map, font), NEW made \in Seq(Fonts),
           \A x \in ToSet(made) : x.original = font /\ x.family = EmbeddedName(font),
           ~options.random => DOMAIN map = {}
    PROVE  /\ embedded \o made \in Seq(Fonts)
           /\ \A k \in DOMAIN (embedded \o made) : NamedFor((embedded \o made)[k], map)
<1>1. embedded \in Seq(Fonts) /\ \A k \in DOMAIN embedded : NamedFor(embedded[k], names)
  BY DEF EmbeddedInv
<1>2. ASSUME NEW x \in ToSet(embedded) PROVE NamedFor(x, map)
  <2>1. NamedFor(x, names)
    BY <1>1 DEF ToSet
  <2> QED
    BY <2>1 DEF NamedFor, Extends
<1>3. ASSUME NEW x \in ToSet(made) PROVE NamedFor(x, map)
  <2>1. x.original = font /\ x.family = Renamed(font, map)
    BY DEF Extends
  <2>2. CASE options.random
    BY <2>1, <2>2 DEF NamedFor, Extends, Renamed
  <2>3. CASE ~options.random
    BY <2>1, <2>3 DEF NamedFor, Renamed
  <2> QED
    BY <2>2, <2>3
<1> DEFINE old == embedded
<1>4. old \in Seq(Fonts)
  BY <1>1
<1> HIDE DEF old
<1>5. old \o made \in Seq(Fonts) /\ ToSet(old \o made) = ToSet(old) \cup ToSet(made)
  BY <1>4, ConcatProperties, ConcatElements
<1>6. \A k \in DOMAIN (old \o made) : (old \o made)[k] \in ToSet(old \o made)
  BY DEF ToSet
<1> QED
  BY <1>2, <1>3, <1>5, <1>6 DEF old

(* and each round of the loop keeps it. *)
LEMMA EmbedKeepsLoop ==
    ASSUME LoopInv, NEW font \in todo, EmbedFont(font) PROVE LoopInv'
<1>1. /\ stage = "fonts" /\ todo' = todo \ {font}
      /\ UNCHANGED <<source, options, text, stage>>
  BY DEF EmbedFont, Unchanged
<1>2. /\ text = source /\ source \in Documents /\ options \in Options /\ font \in FontNames
      /\ NamesInv /\ EmbeddedInv /\ UsesInv
  BY <1>1, TextAssumption DEF LoopInv, TextAssumption
<1>3. Uses(text) \subseteq UseRecords /\ Uses(text)' = Uses(text)
  BY <1>1, <1>2, UsesTyped DEF Uses
<1>4. \A f : Exempt(f)' <=> Exempt(f)
  BY <1>1 DEF Exempt
<1>5. \A f : ExemptFace(f)' <=> ExemptFace(f)
  BY <1>1 DEF ExemptFace, Exempt
<1>6. /\ (source \in Documents /\ options \in OptionSets)' /\ (todo \subseteq FontNames)'
      /\ ~HasFonts(text)'
      /\ stage' = "fonts" /\ text' = source'
      /\ (stage \in {"idle", "fonts", "converted", "failed", "stripped"})'
  BY <1>1, <1>2 DEF LoopInv
<1>7. SUFFICES (\A f \in missing : Lookup(f) \notin IndexedFaces)' /\ (NamesInv /\ EmbeddedInv /\ UsesInv)'
  BY <1>6 DEF LoopInv
<1>8. CASE /\ UNCHANGED <<embedded, names>>
           /\ \/ Exempt(font) /\ UNCHANGED missing
              \/ Lookup(font) \notin IndexedFaces /\ missing' = missing \cup {font}
  <2>1. NamesInv' /\ EmbeddedInv'
    BY <1>1, <1>2, <1>5, <1>8 DEF NamesInv, EmbeddedInv, NamedFor
  <2>2. \A u : Served(u, embedded, names)' <=> Served(u, embedded, names)
    BY <1>1, <1>8 DEF Served
  <2>3. UsesInv'
    BY <1>1, <1>2, <1>3, <1>4, <1>8, <2>2 DEF UsesInv
  <2>4. (\A f \in missing : Lookup(f) \notin IndexedFaces)'
    BY <1>8 DEF LoopInv
  <2> QED
    BY <2>1, <2>3, <2>4
<1>9. CASE /\ ~Exempt(font) /\ Lookup(font) \in IndexedFaces /\ EnoughFiles
           /\ options.random => \/ Lookup(font) \in DOMAIN names
                                \/ FreeSalts(Lookup(font), Given) # {}
           /\ embedded' = embedded \o Subsets(font, EmbeddedName(font))
           /\ names' = IF options.random THEN NamesWith(font) ELSE names
           /\ UNCHANGED missing
  <2> DEFINE family == EmbeddedName(font)
             made == Subsets(font, family)
             map == IF options.random THEN NamesWith(font) ELSE names
  <2>1. family \in FontNames /\ Extends(map, font) /\ NamesFit(map)
    BY <1>2, <1>9, NameGiven
  <2>2. Len(embedded) \in Nat
    BY <1>2, LenProperties DEF EmbeddedInv
  <2> HIDE DEF family, map
  <2>3. /\ made \in Seq(Fonts) /\ \A x \in ToSet(made) : x.original = font /\ x.family = family
        /\ \A u \in Uses(text) : u.font = font /\ u.ch # 0 => Cover(made, u)
    BY <1>2, <1>3, <1>9, <2>1, <2>2, SubsetsMade
  <2> HIDE DEF made
  <2>4. embedded' = embedded \o made /\ names' = map
    BY <1>9 DEF map, made, family
  <2>5. NamesInv'
    BY <1>1, <1>5, <2>1, <2>4 DEF NamesInv, NamesFit
  <2>6. EmbeddedInv'
    <3>1. ~options.random => DOMAIN map = {}
      BY <2>1 DEF NamesFit
    <3>2. /\ embedded \o made \in Seq(Fonts)
          /\ \A k \in DOMAIN (embedded \o made) : NamedFor((embedded \o made)[k], map)
      BY <1>2, <2>1, <2>3, <3>1, EmbeddedNamed DEF family
    <3>3. \A e : NamedFor(e, map)' <=> NamedFor(e, map')
      BY <1>1 DEF NamedFor
    <3> DEFINE longer == embedded \o made
    <3>4. longer \in Seq(Fonts) /\ (\A k \in DOMAIN longer : NamedFor(longer[k], map)) /\ embedded' = longer
      BY <2>4, <3>2
    <3> HIDE DEF longer
    <3> QED
      BY <1>1, <2>4, <3>4 DEF EmbeddedInv, NamedFor
  <2>7. ASSUME NEW u \in Uses(text)
        PROVE  u.font \in todo' \/ u.font \in missing \/ Exempt(u.font) \/ Served(u, embedded \o made, map)
    <3>1. CASE u.font = font
      <4>1. Served(u, embedded \o made, map)
        BY <1>2, <2>1, <2>3, <3>1, NowServed DEF family
      <4> QED
        BY <4>1
    <3>2. CASE u.font # font /\ Served(u, embedded, names)
      <4>1. Served(u, embedded \o made, map)
        BY <1>2, <2>1, <2>3, <3>2, ServedStays
      <4> QED
        BY <4>1
    <3> QED
      BY <1>1, <1>2, <3>1, <3>2 DEF UsesInv
  <2>8. UsesInv'
    <3> DEFINE longer == embedded \o made
    <3>1. /\ embedded' = longer
          /\ \A u \in Uses(text) : u.font \in todo' \/ u.font \in missing \/ Exempt(u.font)
                                   \/ Served(u, longer, map)
      BY <2>4, <2>7
    <3> HIDE DEF longer
    <3>2. \A u : Served(u, longer, map) => Served(u, embedded, names)'
      BY <1>1, <2>4, <3>1 DEF Served
    <3> QED
      BY <1>3, <1>4, <1>9, <3>1, <3>2 DEF UsesInv
  <2>9. (\A f \in missing : Lookup(f) \notin IndexedFaces)'
    BY <1>9 DEF LoopInv
  <2> QED
    BY <2>5, <2>6, <2>8, <2>9
<1>10. \/ Exempt(font) /\ UNCHANGED <<embedded, names, missing>>
       \/ /\ ~Exempt(font) /\ Lookup(font) \notin IndexedFaces
          /\ missing' = missing \cup {font} /\ UNCHANGED <<embedded, names>>
       \/ /\ ~Exempt(font) /\ Lookup(font) \in IndexedFaces /\ EnoughFiles
          /\ options.random => \/ Lookup(font) \in DOMAIN names
                               \/ FreeSalts(Lookup(font), Given) # {}
          /\ embedded' = embedded \o Subsets(font, EmbeddedName(font))
          /\ names' = IF options.random THEN NamesWith(font) ELSE names
          /\ UNCHANGED missing
  <2>1. CASE Exempt(font)
    BY <2>1 DEF EmbedFont
  <2>2. CASE ~Exempt(font) /\ Lookup(font) \notin IndexedFaces
    BY <2>2 DEF EmbedFont
  <2>3. CASE ~Exempt(font) /\ Lookup(font) \in IndexedFaces
    BY <2>3 DEF EmbedFont
  <2> QED
    BY <2>1, <2>2, <2>3
<1>11. CASE Exempt(font) /\ UNCHANGED <<embedded, names, missing>>
  <2>1. UNCHANGED <<embedded, names>> /\ Exempt(font) /\ UNCHANGED missing
    BY <1>11
  <2> QED
    BY <1>8, <2>1
<1>12. CASE /\ ~Exempt(font) /\ Lookup(font) \notin IndexedFaces
            /\ missing' = missing \cup {font} /\ UNCHANGED <<embedded, names>>
  BY <1>8, <1>12
<1> QED
  BY <1>9, <1>10, <1>11, <1>12

(* A subtitle without fonts names the drawing font nowhere.                    *)
LEMMA NoDrawName ==
    ASSUME NEW doc, ~HasMarker(doc), NEW i \in DOMAIN doc.lines
    PROVE  /\ \A k \in DOMAIN doc.lines[i].atoms : ~UsesDrawName(doc.lines[i].atoms[k])
           /\ BeforeDrawings(doc.lines[i]) = doc.lines[i]
<1>1. \A n \in Names(doc) : Lookup(n) # Lookup(DrawName)
  BY DEF HasMarker
<1>2. ASSUME NEW k \in DOMAIN doc.lines[i].atoms, NEW t \in DOMAIN doc.lines[i].atoms[k].tags
      PROVE  doc.lines[i].atoms[k].tags[t].font \in Names(doc)
  <2> DEFINE atoms == doc.lines[i].atoms
             tags == atoms[k].tags
             fonts == UNION {ToSet(atoms[m].tags) : m \in DOMAIN atoms}
  <2>1. tags[t] \in ToSet(tags)
    BY DEF ToSet
  <2>2. tags[t] \in fonts
    BY <2>1
  <2> HIDE DEF fonts
  <2>3. tags[t].font \in {x.font : x \in fonts}
    BY <2>2
  <2> QED
    BY <2>3 DEF Names, fonts
<1>3. \A k \in DOMAIN doc.lines[i].atoms : ~UsesDrawName(doc.lines[i].atoms[k])
  BY <1>1, <1>2 DEF UsesDrawName
<1>4. BeforeDrawings(doc.lines[i]) = doc.lines[i]
  BY <1>3 DEF BeforeDrawings
<1> QED
  BY <1>3, <1>4

(* What WriteSubset writes, in parts.                                          *)
DrawnText == IF options.draw THEN DrawingsAsFont(text.lines)
             ELSE [lines |-> text.lines, entries |-> <<>>]
DrawFont(entries) ==
    [original |-> DrawName, family |-> DrawName, slot |-> "normal",
     chars |-> {Glyph(k) : k \in DOMAIN entries}, draws |-> entries,
     data |-> FontFiles[Len(embedded) + 1]]

(* WriteSubset, with what it writes named. *)
LEMMA WriteInParts ==
    ASSUME WriteSubset
    PROVE  /\ stage = "fonts" /\ stage' = "converted" /\ todo = {} /\ EnoughFiles
           /\ UNCHANGED <<source, options, todo, names, missing, unreadable>>
           /\ embedded' = IF DrawnText.entries = <<>> THEN embedded
                          ELSE Append(embedded, DrawFont(DrawnText.entries))
           /\ text' = IF embedded' = <<>> THEN text
                      ELSE WithFonts(text, DrawnText.lines, embedded', names)
BY DEF WriteSubset, Unchanged, DrawnText, DrawFont

(* What becomes of the drawings is well typed, whatever the option says. *)
LEMMA DrawnTyped ==
    ASSUME text.lines \in Seq(Lines)
    PROVE  /\ DrawnText.entries \in Seq(Seq(Atoms))
           /\ DOMAIN DrawnText.lines = DOMAIN text.lines
           /\ \A i \in DOMAIN text.lines : RedrawnLine(DrawnText.lines[i], text.lines[i])
<1>1. CASE options.draw
  <2>1. DrawnText = DrawingsAsFont(text.lines)
    BY <1>1 DEF DrawnText
  <2> QED
    BY <2>1, LinesRedrawn
<1>2. CASE ~options.draw
  <2>1. DrawnText.lines = text.lines /\ DrawnText.entries = <<>>
    BY <1>2 DEF DrawnText
  <2>2. \A i \in DOMAIN text.lines : text.lines[i] \in Lines
    BY LenProperties, ElementOfSeq
  <2>3. <<>> \in Seq(Seq(Atoms))
    OBVIOUS
  <2> QED
    BY <2>1, <2>2, <2>3, LineLeft
<1> QED
  BY <1>1, <1>2

(* The drawing font is a font like the others. *)
LEMMA DrawFontTyped ==
    ASSUME NEW entries \in Seq(Seq(Atoms)), Len(embedded) \in Nat, EnoughFiles
    PROVE  DrawFont(entries) \in Fonts
<1>1. DrawName \in FontNames
  BY TextAssumption, NameTypes DEF TextAssumption, DrawName
<1>2. {Glyph(k) : k \in DOMAIN entries} \in SUBSET Int
  <2>1. DOMAIN entries \subseteq Nat
    BY LenProperties
  <2>2. \A k \in Nat : Glyph(k) \in Int
    BY DEF Glyph
  <2> QED
    BY <2>1, <2>2
<1>3. FontFiles[Len(embedded) + 1] \in ToSet(FontFiles)
  <2>1. Len(FontFiles) \in Nat /\ DOMAIN FontFiles = 1..Len(FontFiles)
    BY TextAssumption, LenProperties DEF TextAssumption
  <2>2. Len(embedded) + 1 \in DOMAIN FontFiles
    BY <2>1, TheSlots DEF EnoughFiles
  <2> QED
    BY <2>2 DEF ToSet
<1> DEFINE chars == {Glyph(k) : k \in DOMAIN entries}
           data == FontFiles[Len(embedded) + 1]
<1> HIDE DEF chars, data
<1>4. DrawFont(entries) = [original |-> DrawName, family |-> DrawName, slot |-> "normal",
                           chars |-> chars, draws |-> entries, data |-> data]
  BY DEF DrawFont, chars, data
<1>5. chars \in SUBSET Int /\ data \in ToSet(FontFiles)
  BY <1>2, <1>3 DEF chars, data
<1> QED
  BY <1>1, <1>4, <1>5 DEF Fonts, SlotNames

(* Writing adds at most the drawing font.                                      *)
LEMMA WriteAddsDrawFont ==
    ASSUME LoopInv, WriteSubset
    PROVE  /\ embedded' \in Seq(Fonts)
           /\ \A k \in DOMAIN embedded : k \in DOMAIN embedded' /\ embedded'[k] = embedded[k]
           /\ \A k \in DOMAIN embedded' : k \in DOMAIN embedded \/ embedded'[k] = DrawFont(DrawnText.entries)
<1> DEFINE old == embedded
           more == DrawFont(DrawnText.entries)
<1>1. /\ stage = "fonts" /\ EnoughFiles
      /\ embedded' = IF DrawnText.entries = <<>> THEN old ELSE Append(old, more)
  BY WriteInParts
<1>2. old \in Seq(Fonts) /\ text.lines \in Seq(Lines)
  BY <1>1, TextAssumption DEF LoopInv, EmbeddedInv, TextAssumption
<1>3. Len(old) \in Nat /\ DOMAIN old = 1..Len(old)
  BY <1>2, LenProperties
<1>4. more \in Fonts
  BY <1>1, <1>2, <1>3, DrawnTyped, DrawFontTyped
<1> HIDE DEF old, more
<1>5. CASE embedded' = old
  BY <1>2, <1>5 DEF old
<1>6. CASE embedded' = Append(old, more)
  <2> DEFINE new == Append(old, more)
  <2>1. /\ new \in Seq(Fonts) /\ Len(new) = Len(old) + 1
        /\ \A k \in 1..Len(old) : new[k] = old[k]
        /\ new[Len(old) + 1] = more
    BY <1>2, <1>4, AppendProperties
  <2>2. DOMAIN new = 1..Len(new)
    BY <2>1, LenProperties
  <2>3. embedded' = new
    BY <1>6
  <2> HIDE DEF new
  <2> QED
    BY <1>3, <2>1, <2>2, <2>3 DEF old, more
<1> QED
  BY <1>1, <1>5, <1>6

(* Writing keeps the invariant. *)
LEMMA WriteKeepsLoop ==
    ASSUME LoopInv, WriteSubset PROVE LoopInv'
<1>1. /\ stage = "fonts" /\ stage' = "converted"
      /\ UNCHANGED <<source, options, todo, names, missing>>
      /\ embedded' = <<>> => text' = text
  BY WriteInParts
<1>2. NamesInv'
  BY <1>1 DEF LoopInv, NamesInv, ExemptFace, Exempt
<1>3. EmbeddedInv'
  <2>1. \A k \in DOMAIN embedded : NamedFor(embedded[k], names)
    BY DEF LoopInv, EmbeddedInv
  <2>2. NamedFor(DrawFont(DrawnText.entries), names)
    BY DEF DrawFont, NamedFor
  <2>3. ASSUME NEW k \in DOMAIN embedded' PROVE NamedFor(embedded'[k], names)
    BY <2>1, <2>2, WriteAddsDrawFont
  <2> QED
    BY <1>1, <2>3, WriteAddsDrawFont DEF EmbeddedInv, NamedFor
<1>4. UsesInv'
  BY <1>1 DEF UsesInv
<1>5. /\ stage' # "idle" /\ stage' # "fonts"
      /\ stage' \in {"idle", "fonts", "converted", "failed", "stripped"}
  BY <1>1
<1>6. text = source
  BY <1>1 DEF LoopInv
<1> QED
  BY <1>1, <1>2, <1>3, <1>4, <1>5, <1>6 DEF LoopInv

(* Every step keeps the invariant. *)
LEMMA LoopKept ==
    ASSUME LoopInv, [Next]_vars PROVE LoopInv'
<1>1. CASE ReadSubtitle
  BY <1>1, ReadKeepsLoop
<1>2. CASE \E font \in todo : EmbedFont(font)
  BY <1>2, EmbedKeepsLoop
<1>3. CASE WorkerFails
  <2>1. /\ stage' = "failed" /\ UNCHANGED <<source, options, text, todo, embedded, names, missing>>
    BY <1>3 DEF WorkerFails, Unchanged
  <2>2. NamesInv' /\ EmbeddedInv' /\ UsesInv'
    BY <2>1 DEF LoopInv, NamesInv, EmbeddedInv, UsesInv, ExemptFace, Exempt, NamedFor
  <2> QED
    BY <2>1, <2>2 DEF LoopInv
<1>4. CASE WriteSubset
  BY <1>4, WriteKeepsLoop
<1>5. CASE \E failing \in SUBSET {f.data : f \in ToSet(ParseFonts(text.section))} :
              StripSubtitle(failing)
  <2>1. /\ stage' = "stripped" /\ UNCHANGED <<source, options, todo, embedded, names, missing>>
    BY <1>5 DEF StripSubtitle
  <2>2. NamesInv' /\ EmbeddedInv' /\ UsesInv'
    BY <2>1 DEF LoopInv, NamesInv, EmbeddedInv, UsesInv, ExemptFace, Exempt, NamedFor
  <2> QED
    BY <2>1, <2>2 DEF LoopInv
<1>6. CASE Done \/ UNCHANGED vars
  <2>1. UNCHANGED vars
    BY <1>6 DEF Done
  <2>2. HasFonts(text)' <=> HasFonts(text)
    BY <2>1 DEF HasFonts, vars
  <2>3. Uses(text)' = Uses(text)
    BY <2>1 DEF Uses, vars
  <2>4. NamesInv' /\ EmbeddedInv' /\ UsesInv'
    BY <2>1, <2>3 DEF vars, LoopInv, NamesInv, EmbeddedInv, UsesInv, ExemptFace, Exempt, NamedFor, Served
  <2> QED
    BY <2>1, <2>2, <2>4 DEF LoopInv, vars
<1> QED
  BY <1>1, <1>2, <1>3, <1>4, <1>5, <1>6 DEF Next

-------------------------------------------------------------------------------
(* After the conversion, every character is in an embedded font.               *)

(* What the converted text is made of. *)
LEMMA ConvertedParts ==
    ASSUME LoopInv, WriteSubset, embedded' # <<>>
    PROVE  /\ text'.styles = RenameStyles(text.styles, names)
           /\ DOMAIN text'.lines = DOMAIN text.lines
           /\ \A i \in DOMAIN text.lines : text'.lines[i] = RenameLine(DrawnText.lines[i], names)
<1>1. text' = WithFonts(text, DrawnText.lines, embedded', names) /\ text = source /\ source \in Documents
  BY WriteInParts DEF LoopInv
<1>2. DOMAIN text = {"info", "comments", "styles", "section", "stray", "lines"} /\ text.lines \in Seq(Lines)
  BY <1>1, TextAssumption DEF TextAssumption
<1>3. text'.styles = RenameStyles(text.styles, names) /\ text'.lines = RenameTags(DrawnText.lines, names)
  BY <1>1, <1>2 DEF WithFonts
<1>4. DOMAIN DrawnText.lines = DOMAIN text.lines
  BY <1>2, DrawnTyped
<1> QED
  BY <1>3, <1>4 DEF RenameTags, RenameLine

(* When the conversion writes, every character is in an embedded font. *)
LEMMA WriteEmbeds ==
    ASSUME LoopInv, WriteSubset PROVE CharactersAreEmbedded'
<1>1. /\ stage = "fonts" /\ todo = {} /\ UNCHANGED <<source, options, names, missing>>
  BY WriteInParts
<1>2. /\ text = source /\ source \in Documents /\ NamesInv /\ Renames(names) /\ ~HasMarker(text)
      /\ StyleTable(text.styles) /\ text.lines \in Seq(Lines)
      /\ \A i \in DOMAIN text.lines : text.lines[i] \in Lines
  <2>1. text = source /\ source \in Documents /\ NamesInv /\ ~HasFonts(text)
    BY <1>1 DEF LoopInv
  <2>2. StyleTable(text.styles) /\ text.lines \in Seq(Lines)
    BY <2>1, TextAssumption DEF TextAssumption, StyleTable
  <2>3. \A i \in DOMAIN text.lines : text.lines[i] \in Lines
    BY <2>2, LenProperties, ElementOfSeq
  <2> QED
    BY <2>1, <2>2, <2>3 DEF NamesInv, HasFonts
<1>3. ASSUME NEW u \in Uses(text)
      PROVE  u.font \in missing \/ Exempt(u.font) \/ Served(u, embedded, names)
  BY <1>1 DEF LoopInv, UsesInv
<1>4. \A f : Exempt(f)' <=> Exempt(f)
  BY <1>1 DEF Exempt
<1> DEFINE Embeds(line, u) ==
             \/ u.ch = 0
             \/ u.font \in missing \/ Exempt(u.font)
             \/ line.style \notin DOMAIN text'.styles /\ u.font = Arial.font
             \/ \E k \in DOMAIN embedded' :
                   /\ Lookup(embedded'[k].family) = Lookup(u.font)
                   /\ u.ch \in embedded'[k].chars
                   /\ embedded'[k].slot = IF options.multi THEN u.slot ELSE "normal"
<1>5. SUFFICES ASSUME NEW i \in DOMAIN text'.lines,
                      NEW u2 \in LineUses(text'.styles, BeforeDrawings(text'.lines[i]))
               PROVE  Embeds(text'.lines[i], u2)
  BY <1>1, <1>4 DEF CharactersAreEmbedded
<1>6. CASE embedded' = <<>>
  <2>1. text' = text
    BY <1>6, WriteInParts
  <2>2. u2 \in Uses(text)
    <3>1. BeforeDrawings(text.lines[i]) = text.lines[i]
      BY <1>2, <2>1, NoDrawName
    <3> QED
      BY <1>5, <2>1, <3>1 DEF Uses
  <2>3. DOMAIN embedded = {}
    <3>1. \A k \in DOMAIN embedded : k \in DOMAIN embedded'
      BY WriteAddsDrawFont
    <3>2. DOMAIN embedded' = {}
      BY <1>6
    <3> QED
      BY <3>1, <3>2
  <2> QED
    BY <1>3, <2>2, <2>3 DEF Served
<1>7. CASE embedded' # <<>>
  <2> DEFINE line == text.lines[i]
             line2 == BeforeDrawings(text'.lines[i])
             known == line.style \in DOMAIN text.styles
  <2>1. /\ text'.styles = RenameStyles(text.styles, names) /\ i \in DOMAIN text.lines
        /\ text'.lines[i] = RenameLine(DrawnText.lines[i], names)
    BY <1>7, ConvertedParts
  <2>2. RedrawnLine(DrawnText.lines[i], line) /\ line \in Lines
    BY <1>2, <2>1, DrawnTyped
  <2>3. Begins(line2, line, names) /\ text'.lines[i].style = line.style
    BY <1>2, <2>1, <2>2, BeginningKept
  <2>4. DOMAIN text'.styles = DOMAIN text.styles
    BY <1>2, <2>1, StylesRenamed
  <2>5. u2 \in LineUses(RenameStyles(text.styles, names), line2)
    BY <1>5, <2>1
  <2>6. known \in BOOLEAN
    OBVIOUS
  <2> HIDE DEF line2
  <2>7. \E u \in LineUses(text.styles, line) : WasUsed(u2, u, names, known)
    <3> DEFINE k == known
               styles == text.styles
               l == line
    <3>1. /\ StyleTable(styles) /\ l \in Lines /\ Begins(line2, l, names)
          /\ k \in BOOLEAN /\ k = (l.style \in DOMAIN styles)
          /\ u2 \in LineUses(RenameStyles(styles, names), line2)
      BY <1>2, <2>2, <2>3, <2>5, <2>6
    <3> HIDE DEF k, styles, l
    <3>2. \E u \in LineUses(styles, l) : WasUsed(u2, u, names, k)
      BY <1>2, <3>1, UsesFollow
    <3> QED
      BY <3>2 DEF k, styles, l
  <2>8. PICK u \in LineUses(text.styles, line) : WasUsed(u2, u, names, known)
    BY <2>7
  <2>9. u \in Uses(text)
    BY <2>1, <2>8 DEF Uses
  <2>10. u2.ch = u.ch /\ u2.slot = u.slot
    BY <2>8 DEF WasUsed
  <2>11. CASE ~known /\ u2.font = Arial.font
    BY <2>3, <2>4, <2>11
  <2>12. CASE u2.font = Renamed(u.font, names) /\ u.font \in missing
    <3>1. Lookup(u.font) \notin DOMAIN names
      BY <2>12 DEF LoopInv, NamesInv
    <3>2. u2.font = u.font
      BY <2>12, <3>1 DEF Renamed
    <3> QED
      BY <2>12, <3>2
  <2>13. CASE u2.font = Renamed(u.font, names) /\ Exempt(u.font)
    <3>1. Lookup(u.font) \notin DOMAIN names
      BY <1>2, <2>13, ExemptByName DEF NamesInv
    <3>2. u2.font = u.font
      BY <2>13, <3>1 DEF Renamed
    <3> QED
      BY <2>13, <3>2
  <2>14. CASE u2.font = Renamed(u.font, names) /\ Served(u, embedded, names)
    <3>1. CASE u.ch = 0
      BY <2>10, <3>1
    <3>2. CASE u.ch # 0
      <4>1. PICK k \in DOMAIN embedded :
               /\ Lookup(embedded[k].family) = Lookup(Renamed(u.font, names))
               /\ u.ch \in embedded[k].chars
               /\ embedded[k].slot = IF options.multi THEN u.slot ELSE "normal"
        BY <2>14, <3>2 DEF Served
      <4>2. k \in DOMAIN embedded' /\ embedded'[k] = embedded[k]
        BY WriteAddsDrawFont
      <4> QED
        BY <2>10, <2>14, <4>1, <4>2
    <3> QED
      BY <3>1, <3>2
  <2> QED
    BY <1>3, <2>8, <2>9, <2>11, <2>12, <2>13, <2>14 DEF WasUsed
<1> QED
  BY <1>6, <1>7

(* README line 3: the fonts a subtitle needs are embedded.                     *)
THEOREM CharactersStayEmbedded == Spec => []CharactersAreEmbedded
<1>1. Init => LoopInv /\ CharactersAreEmbedded
  BY InitLoop DEF Init, CharactersAreEmbedded
<1>2. LoopInv /\ [Next]_vars => LoopInv'
  BY LoopKept
<1>3. LoopInv /\ CharactersAreEmbedded /\ [Next]_vars => CharactersAreEmbedded'
  <2> SUFFICES ASSUME LoopInv, CharactersAreEmbedded, [Next]_vars PROVE CharactersAreEmbedded'
    OBVIOUS
  <2>1. CASE WriteSubset
    BY <2>1, WriteEmbeds
  <2>2. CASE Done \/ UNCHANGED vars
    <3>1. UNCHANGED vars
      BY <2>2 DEF Done
    <3> QED
      BY <3>1 DEF vars, CharactersAreEmbedded, Exempt
  <2>3. CASE ReadSubtitle
    BY <2>3 DEF ReadSubtitle, CharactersAreEmbedded
  <2>4. CASE \E font \in todo : EmbedFont(font)
    BY <2>4 DEF EmbedFont, CharactersAreEmbedded
  <2>5. CASE WorkerFails
    BY <2>5 DEF WorkerFails, CharactersAreEmbedded
  <2>6. CASE \E failing \in SUBSET {f.data : f \in ToSet(ParseFonts(text.section))} :
                StripSubtitle(failing)
    BY <2>6 DEF StripSubtitle, CharactersAreEmbedded
  <2> QED
    BY <2>1, <2>2, <2>3, <2>4, <2>5, <2>6 DEF Next
<1> QED
  BY <1>1, <1>2, <1>3, PTL DEF Spec

-------------------------------------------------------------------------------
(* Fonts read from a section and written to one.                               *)

FoundFonts == [family : FontNames, slot : ToSet(Slots) \cup {""}, data : Seq(Byte)]

(* Joining no sequences. *)
LEMMA FlattenNothing == FlattenSeq(<<>>) = <<>>
BY DEF FlattenSeq

(* A function of the positions of an empty sequence is empty.                  *)
LEMMA NoPositions ==
    ASSUME NEW S, NEW seqs \in [DOMAIN <<>> -> Seq(S)]
    PROVE  seqs = <<>>
<1>1. DOMAIN <<>> = 1..0
  OBVIOUS
<1>2. seqs \in Seq(Seq(S)) /\ DOMAIN seqs = 1..0
  BY <1>1, PiecesOfSeq
<1>3. Len(seqs) = 0
  BY <1>2, LenProperties
<1> QED
  BY <1>2, <1>3, EmptySeq

(* The chosen elements of a sequence are elements of it, and chosen. *)
LEMMA ThoseElements ==
    ASSUME NEW S, NEW seq \in Seq(S), NEW kept
    PROVE  /\ Those(seq, kept) \in Seq(S)
           /\ \A x \in ToSet(Those(seq, kept)) : x \in ToSet(seq) /\ x \in kept
<1> DEFINE seqs == [i \in DOMAIN seq |-> IF seq[i] \in kept THEN <<seq[i]>> ELSE <<>>]
<1>1. Len(seq) \in Nat /\ DOMAIN seq = 1..Len(seq) /\ \A i \in 1..Len(seq) : seq[i] \in S
  BY LenProperties, ElementOfSeq
<1>2. ASSUME NEW i \in DOMAIN seq
      PROVE  /\ seqs[i] \in Seq(S)
             /\ \A x \in ToSet(seqs[i]) : x = seq[i] /\ seq[i] \in kept
  <2>1. CASE seq[i] \in kept
    <3>1. <<seq[i]>> \in Seq(S) /\ ToSet(<<seq[i]>>) = {seq[i]}
      BY <1>1, SingletonSeq
    <3> QED
      BY <2>1, <3>1
  <2>2. CASE seq[i] \notin kept
    <3>1. seqs[i] = <<>>
      BY <2>2
    <3> QED
      BY <3>1, NothingInEmpty, EmptySeq
  <2> QED
    BY <2>1, <2>2
<1>3. DOMAIN seqs = DOMAIN seq /\ seqs = [i \in DOMAIN seqs |-> seqs[i]]
  OBVIOUS
<1>4. Those(seq, kept) = FlattenSeq(seqs)
  BY DEF Those
<1> HIDE DEF seqs
<1>5. seqs \in Seq(Seq(S)) /\ DOMAIN seqs = DOMAIN seq
  <2>1. seqs \in [1..Len(seq) -> Seq(S)]
    BY <1>1, <1>2, <1>3
  <2> QED
    BY <1>1, <2>1, PiecesOfSeq
<1>6. /\ FlattenSeq(seqs) \in Seq(S)
      /\ \A x : x \in ToSet(FlattenSeq(seqs)) <=> \E i \in DOMAIN seqs : x \in ToSet(seqs[i])
  BY <1>5, FlattenElements
<1>7. \A i \in DOMAIN seq : seq[i] \in ToSet(seq)
  BY DEF ToSet
<1> QED
  BY <1>2, <1>4, <1>5, <1>6, <1>7

(* ... all of them. *)
LEMMA ThoseHold ==
    ASSUME NEW S, NEW seq \in Seq(S), NEW kept, NEW x \in ToSet(seq), x \in kept
    PROVE  x \in ToSet(Those(seq, kept))
<1> DEFINE seqs == [i \in DOMAIN seq |-> IF seq[i] \in kept THEN <<seq[i]>> ELSE <<>>]
<1>1. Len(seq) \in Nat /\ DOMAIN seq = 1..Len(seq) /\ \A i \in 1..Len(seq) : seq[i] \in S
  BY LenProperties, ElementOfSeq
<1>2. \A i \in 1..Len(seq) : seqs[i] \in Seq(S)
  BY <1>1, SingletonSeq, EmptySeq
<1>3. DOMAIN seqs = 1..Len(seq) /\ seqs = [i \in DOMAIN seqs |-> seqs[i]]
  BY <1>1
<1>4. PICK i \in DOMAIN seq : x = seq[i]
  BY DEF ToSet
<1>5. seqs[i] = <<x>>
  BY <1>4
<1>6. Those(seq, kept) = FlattenSeq(seqs)
  BY DEF Those
<1> HIDE DEF seqs
<1>7. seqs \in Seq(Seq(S))
  <2>1. seqs \in [1..Len(seq) -> Seq(S)]
    BY <1>2, <1>3
  <2> QED
    BY <1>1, <2>1, PiecesOfSeq
<1>8. x \in ToSet(seqs[i])
  BY <1>5, SingletonSeq
<1> QED
  BY <1>1, <1>3, <1>4, <1>6, <1>7, <1>8, FlattenElements

(* None are chosen from an empty sequence. *)
LEMMA ThoseOfNone ==
    ASSUME NEW kept PROVE Those(<<>>, kept) = <<>>
<1> DEFINE seqs == [i \in DOMAIN <<>> |-> IF <<>>[i] \in kept THEN <<<<>>[i]>> ELSE <<>>]
<1>1. seqs \in [DOMAIN <<>> -> Seq({})]
  <2>1. DOMAIN <<>> = {}
    OBVIOUS
  <2> QED
    BY <2>1
<1>2. Those(<<>>, kept) = FlattenSeq(seqs)
  BY DEF Those
<1> HIDE DEF seqs
<1> QED
  BY <1>1, <1>2, NoPositions, FlattenNothing

(* The characters of a block, what they decode to and what fonts encode to are *)
(* sequences of numbers.                                                       *)
LEMMA BlockTyped ==
    ASSUME NEW section \in Seq(FontLines), NEW k \in DOMAIN section
    PROVE  BlockChars(section, k) \in Seq(Int)
<1> DEFINE ends == {e \in k + 1..Len(section) + 1 :
                      e \in DOMAIN section => \/ section[e].kind \in {"blank", "fontname"}
                                             \/ LooksLikeHeader(section[e])}
           end == CHOOSE e \in ends : \A f \in ends : e <= f
           seqs == [i \in 1..end - k - 1 |-> section[k + i].chars]
<1>1. /\ Len(section) \in Nat /\ DOMAIN section = 1..Len(section) /\ k \in Nat
      /\ \A i \in 1..Len(section) : section[i] \in FontLines
  BY LenProperties, ElementOfSeq
<1>2. ends \in SUBSET Nat /\ Len(section) + 1 \in ends /\ ends \subseteq k + 1..Len(section) + 1
  BY <1>1
<1>3. BlockChars(section, k) = FlattenSeq(seqs)
  BY DEF BlockChars
<1>4. end \in ends
  <2> HIDE DEF ends
  <2>1. \E e \in ends : \A f \in ends : e <= f
    BY <1>2, Least
  <2> QED
    BY <2>1
<1> HIDE DEF end, ends
<1>5. end \in Int /\ end - k - 1 \in Nat /\ end <= Len(section) + 1
  BY <1>1, <1>2, <1>4
<1>6. ASSUME NEW i \in 1..end - k - 1 PROVE section[k + i].chars \in Seq(Int)
  <2>1. k + i \in 1..Len(section)
    BY <1>1, <1>5
  <2>2. section[k + i] \in FontLines
    BY <1>1, <2>1
  <2> QED
    BY <2>2 DEF FontLines
<1>7. seqs \in [1..end - k - 1 -> Seq(Int)]
  BY <1>6
<1> HIDE DEF seqs
<1>8. seqs \in Seq(Seq(Int))
  BY <1>5, <1>7, PiecesOfSeq
<1> QED
  BY <1>3, <1>8, FlattenElements

(* Encoding and decoding sequences of numbers gives sequences of numbers. *)
LEMMA CodedTyped ==
    ASSUME NEW s \in Seq(Int)
    PROVE  Encode(s) \in Seq(Int) /\ Decode(s) \in Seq(Int)
<1>1. Len(s) \in Nat
  BY LenProperties
<1>2. ASSUME NEW i \in Int, i >= 1 PROVE At(s, i) \in Int
  BY <1>1, <1>2, ElementOfSeq DEF At
<1>3. ASSUME NEW g \in Nat PROVE ByteGroup(s, g) \in Int /\ CharGroup(s, g) \in Int
  <2>1. /\ At(s, 3*g + 1) \in Int /\ At(s, 3*g + 2) \in Int /\ At(s, 3*g + 3) \in Int
        /\ At(s, 4*g + 1) \in Int /\ At(s, 4*g + 2) \in Int /\ At(s, 4*g + 3) \in Int
        /\ At(s, 4*g + 4) \in Int
    BY <1>2
  <2> DEFINE a == At(s, 3*g + 1)
             b == At(s, 3*g + 2)
             c == At(s, 3*g + 3)
             w == At(s, 4*g + 1)
             x == At(s, 4*g + 2)
             y == At(s, 4*g + 3)
             z == At(s, 4*g + 4)
  <2>2. /\ ByteGroup(s, g) = 256 * (256 * a + b) + c
        /\ CharGroup(s, g) = 64 * (64 * (64 * w + x) + y) + z
    BY DEF ByteGroup, CharGroup
  <2> HIDE DEF a, b, c, w, x, y, z
  <2>3. /\ a \in Int /\ b \in Int /\ c \in Int
        /\ w \in Int /\ x \in Int /\ y \in Int /\ z \in Int
    BY <2>1 DEF a, b, c, w, x, y, z
  <2> QED
    BY <2>2, <2>3
<1>4. ASSUME NEW v \in Int, NEW place \in Int PROVE CharOf(v, place) \in Int /\ ByteOf(v, place) \in Int
  BY DEF CharOf, ByteOf
<1>5. Encode(s) \in Seq(Int)
  <2>1. EncodedLength(Len(s)) \in Nat
    BY <1>1, Lengths
  <2>2. ASSUME NEW k \in 1..EncodedLength(Len(s))
        PROVE  CharOf(ByteGroup(s, (k - 1) \div 4), (k - 1) % 4) \in Int
    <3>1. (k - 1) \div 4 \in Nat /\ (k - 1) % 4 \in Int
      BY <2>1
    <3> QED
      BY <1>3, <1>4, <3>1
  <2>3. Encode(s) \in [1..EncodedLength(Len(s)) -> Int]
    BY <2>2 DEF Encode
  <2> QED
    BY <2>1, <2>3, SeqDef
<1>6. Decode(s) \in Seq(Int)
  <2>1. DecodedLength(Len(s)) \in Nat
    <3> DEFINE q == Len(s) \div 4
               r == Len(s) % 4
    <3>1. q \in Nat /\ r \in 0..3
      BY <1>1
    <3>2. DecodedLength(Len(s)) = 3 * q + (IF r = 0 THEN 0 ELSE r - 1)
      BY DEF DecodedLength
    <3> HIDE DEF q, r
    <3> QED
      BY <3>1, <3>2
  <2>2. ASSUME NEW i \in 1..DecodedLength(Len(s))
        PROVE  ByteOf(CharGroup(s, (i - 1) \div 3), (i - 1) % 3) \in Int
    <3>1. (i - 1) \div 3 \in Nat /\ (i - 1) % 3 \in Int
      BY <2>1
    <3> QED
      BY <1>3, <1>4, <3>1
  <2>3. Decode(s) \in [1..DecodedLength(Len(s)) -> Int]
    BY <2>2 DEF Decode
  <2> QED
    BY <2>1, <2>3, SeqDef
<1> QED
  BY <1>5, <1>6

(* What is read from a section are fonts. *)
LEMMA FontsParsed ==
    ASSUME NEW section \in Seq(FontLines)
    PROVE  ParseFonts(section) \in Seq(FoundFonts)
<1> DEFINE Inside(k) == \A h \in 1..k : ~LooksLikeHeader(section[h])
           Found(k) == [family |-> section[k].family, slot |-> section[k].slot,
                        data |-> Decode(BlockChars(section, k))]
           seqs == [k \in DOMAIN section |->
              IF section[k].kind = "fontname" /\ Inside(k) /\ Decodes(BlockChars(section, k))
              THEN <<Found(k)>> ELSE <<>>]
<1>1. Len(section) \in Nat /\ DOMAIN section = 1..Len(section)
      /\ \A i \in 1..Len(section) : section[i] \in FontLines
  BY LenProperties, ElementOfSeq
<1>2. ASSUME NEW k \in DOMAIN section, Decodes(BlockChars(section, k))
      PROVE  Found(k) \in FoundFonts
  <2>1. section[k].family \in FontNames /\ section[k].slot \in ToSet(Slots) \cup {""}
    BY <1>1 DEF FontLines
  <2>2. Decode(BlockChars(section, k)) \in Seq(Byte)
    BY <1>2, BlockTyped, DecodedBytes
  <2> QED
    BY <2>1, <2>2 DEF FoundFonts
<1>3. ParseFonts(section) = FlattenSeq(seqs)
  BY DEF ParseFonts
<1>4. ASSUME NEW k \in DOMAIN section PROVE seqs[k] \in Seq(FoundFonts)
  <2> HIDE DEF Found, Inside
  <2>1. Decodes(BlockChars(section, k)) => <<Found(k)>> \in Seq(FoundFonts)
    BY <1>2, SingletonSeq
  <2>2. <<>> \in Seq(FoundFonts)
    OBVIOUS
  <2> QED
    BY <2>1, <2>2
<1>5. DOMAIN seqs = DOMAIN section /\ seqs = [k \in DOMAIN seqs |-> seqs[k]]
  OBVIOUS
<1> HIDE DEF seqs
<1>6. seqs \in [1..Len(section) -> Seq(FoundFonts)]
  BY <1>1, <1>4, <1>5
<1>7. seqs \in Seq(Seq(FoundFonts))
  BY <1>1, <1>6, PiecesOfSeq
<1> QED
  BY <1>3, <1>7, FlattenElements

(* An empty section holds none. *)
LEMMA NoFontsParsed == ParseFonts(<<>>) = <<>>
<1> DEFINE Inside(k) == \A h \in 1..k : ~LooksLikeHeader(<<>>[h])
           Found(k) == [family |-> <<>>[k].family, slot |-> <<>>[k].slot,
                        data |-> Decode(BlockChars(<<>>, k))]
           seqs == [k \in DOMAIN <<>> |->
              IF <<>>[k].kind = "fontname" /\ Inside(k) /\ Decodes(BlockChars(<<>>, k))
              THEN <<Found(k)>> ELSE <<>>]
<1>1. seqs \in [DOMAIN <<>> -> Seq({})]
  <2>1. DOMAIN <<>> = {}
    OBVIOUS
  <2> QED
    BY <2>1
<1>2. ParseFonts(<<>>) = FlattenSeq(seqs)
  BY DEF ParseFonts
<1> HIDE DEF seqs
<1> QED
  BY <1>1, <1>2, NoPositions, FlattenNothing

(* Lines of a section that name no font or one of the families.                *)
LinesOf(families) == {line \in FontLines : line.family \in families \cup {NoName}}

(* A line that names one of the families, or none. *)
LEMMA LineTyped ==
    ASSUME NEW families \in SUBSET FontNames, NEW kind \in {"fontname", "data", "blank"},
           NEW family \in families \cup {NoName}, NEW slot \in ToSet(Slots) \cup {""},
           NEW chars \in Seq(Int)
    PROVE  FontLine(kind, family, slot, chars) \in LinesOf(families)
<1>1. NoName \in FontNames
  BY TextAssumption, NameTypes DEF TextAssumption, NoName
<1>2. FontLine(kind, family, slot, chars) \in FontLines
  BY <1>1 DEF FontLine, FontLines
<1>3. FontLine(kind, family, slot, chars).family = family
  BY DEF FontLine
<1> QED
  BY <1>2, <1>3 DEF LinesOf

(* A section names the fonts it was built from, and no others.                 *)
LEMMA SectionBuilt ==
    ASSUME NEW fonts \in Seq(FoundFonts)
    PROVE  FontSection(fonts) \in Seq(LinesOf({f.family : f \in ToSet(fonts)}))
<1> DEFINE families == {f.family : f \in ToSet(fonts)}
           T == LinesOf(families)
           Opening(i) == <<FontLine("fontname", fonts[i].family, fonts[i].slot, <<>>)>>
           Closing == <<FontLine("blank", NoName, "", <<>>)>>
           seqs == [i \in DOMAIN fonts |-> Opening(i) \o DataLines(Encode(fonts[i].data)) \o Closing]
<1>1. /\ Len(fonts) \in Nat /\ DOMAIN fonts = 1..Len(fonts)
      /\ \A i \in 1..Len(fonts) : fonts[i] \in FoundFonts /\ fonts[i].family \in families
  <2>1. Len(fonts) \in Nat /\ DOMAIN fonts = 1..Len(fonts) /\ \A i \in 1..Len(fonts) : fonts[i] \in FoundFonts
    BY LenProperties, ElementOfSeq
  <2>2. \A i \in 1..Len(fonts) : fonts[i] \in ToSet(fonts)
    BY <2>1 DEF ToSet
  <2> QED
    BY <2>1, <2>2
<1>2. families \in SUBSET FontNames
  <2>1. \A f \in ToSet(fonts) : f \in FoundFonts
    BY <1>1 DEF ToSet
  <2> QED
    BY <2>1 DEF FoundFonts
<1>3. FontSection(fonts) = FlattenSeq(seqs)
  BY DEF FontSection
<1> HIDE DEF families
<1>4. <<>> \in Seq(Int)
  OBVIOUS
<1>5. Closing \in Seq(T)
  <2>1. FontLine("blank", NoName, "", <<>>) \in T
    BY <1>2, <1>4, LineTyped
  <2> HIDE DEF T
  <2> QED
    BY <2>1, SingletonSeq
<1>6. ASSUME NEW i \in DOMAIN fonts PROVE Opening(i) \in Seq(T)
  <2>1. fonts[i].slot \in ToSet(Slots) \cup {""} /\ fonts[i].family \in families \cup {NoName}
    BY <1>1 DEF FoundFonts
  <2>2. FontLine("fontname", fonts[i].family, fonts[i].slot, <<>>) \in T
    BY <1>2, <1>4, <2>1, LineTyped
  <2> HIDE DEF T
  <2> QED
    BY <2>2, SingletonSeq
<1>7. ASSUME NEW chars \in Seq(Int) PROVE DataLines(chars) \in Seq(T)
  <2> DEFINE n == Len(chars)
             q == (n + LineLength - 1) \div LineLength
  <2>1. n \in Nat /\ LineLength \in Nat \ {0} /\ \A j \in 1..n : chars[j] \in Int
    BY TextAssumption, LenProperties, ElementOfSeq DEF TextAssumption
  <2>2. q \in Nat
    <3> HIDE DEF n
    <3>1. n + LineLength - 1 \in Nat
      BY <2>1
    <3> QED
      BY <2>1, <3>1
  <2>3. ASSUME NEW k \in 1..q
        PROVE  SubSeq(chars, (k - 1) * LineLength + 1,
                      IF k * LineLength < n THEN k * LineLength ELSE n) \in Seq(Int)
    <3> DEFINE from == (k - 1) * LineLength + 1
               to == IF k * LineLength < n THEN k * LineLength ELSE n
    <3>1. (k - 1) * LineLength \in Nat /\ k * LineLength \in Nat
      BY <2>1, <2>2
    <3>2. from \in Int /\ from >= 1 /\ to \in Int /\ to <= n
      BY <2>1, <3>1
    <3> HIDE DEF from, to
    <3>3. \A j \in from..to : chars[j] \in Int
      BY <2>1, <3>2
    <3>4. SubSeq(chars, from, to) \in Seq(Int)
      BY <3>2, <3>3, SubSeqProperties
    <3> QED
      BY <3>4 DEF from, to
  <2>4. ASSUME NEW k \in 1..q
        PROVE  FontLine("data", NoName, "",
                   SubSeq(chars, (k - 1) * LineLength + 1,
                          IF k * LineLength < Len(chars) THEN k * LineLength ELSE Len(chars))) \in T
    BY <1>2, <2>3, LineTyped
  <2> HIDE DEF T
  <2>5. DataLines(chars) \in [1..q -> T]
    BY <2>4 DEF DataLines
  <2> HIDE DEF q
  <2> QED
    BY <2>2, <2>5, SeqDef
<1> HIDE DEF T, Opening, Closing
<1>8. ASSUME NEW i \in DOMAIN fonts PROVE seqs[i] \in Seq(T)
  <2>1. Encode(fonts[i].data) \in Seq(Int)
    <3>1. fonts[i].data \in Seq(Byte)
      BY <1>1 DEF FoundFonts
    <3>2. fonts[i].data \in Seq(Int)
      BY <3>1, BytesAreNumbers
    <3> QED
      BY <3>2, CodedTyped
  <2>2. Opening(i) \in Seq(T) /\ DataLines(Encode(fonts[i].data)) \in Seq(T)
    BY <1>6, <1>7, <2>1
  <2>3. Opening(i) \o DataLines(Encode(fonts[i].data)) \in Seq(T)
    BY <2>2, ConcatProperties
  <2>4. (Opening(i) \o DataLines(Encode(fonts[i].data))) \o Closing \in Seq(T)
    BY <1>5, <2>3, ConcatProperties
  <2> QED
    BY <2>4
<1>9. DOMAIN seqs = DOMAIN fonts /\ seqs = [i \in DOMAIN seqs |-> seqs[i]]
  OBVIOUS
<1> HIDE DEF seqs
<1>10. seqs \in Seq(Seq(T))
  <2>1. seqs \in [1..Len(fonts) -> Seq(T)]
    BY <1>1, <1>8, <1>9
  <2> QED
    BY <1>1, <2>1, PiecesOfSeq
<1>11. FlattenSeq(seqs) \in Seq(T)
  BY <1>10, FlattenElements
<1> QED
  BY <1>3, <1>11 DEF T, families

(* Without fonts the section is empty. *)
LEMMA NoSectionBuilt == FontSection(<<>>) = <<>>
<1> DEFINE seqs == [i \in DOMAIN <<>> |->
                      <<FontLine("fontname", <<>>[i].family, <<>>[i].slot, <<>>)>>
                        \o DataLines(Encode(<<>>[i].data))
                        \o <<FontLine("blank", NoName, "", <<>>)>>]
<1>1. seqs \in [DOMAIN <<>> -> Seq({})]
  <2>1. DOMAIN <<>> = {}
    OBVIOUS
  <2> QED
    BY <2>1
<1>2. FontSection(<<>>) = FlattenSeq(seqs)
  BY DEF FontSection
<1> HIDE DEF seqs
<1> QED
  BY <1>1, <1>2, NoPositions, FlattenNothing

-------------------------------------------------------------------------------
(* Without names to give back and drawings to put back, the lines are as they  *)
(* were.                                                                       *)

(* Renaming by an empty map leaves the lines alone. *)
LEMMA NothingRenamed ==
    ASSUME NEW map, DOMAIN map = {}, NEW lines \in Seq(Lines)
    PROVE  RenameTags(lines, map) = lines
<1>1. \A n : Renamed(n, map) = n
  BY DEF Renamed
<1>2. ASSUME NEW tag \in Tags PROVE RenameTag(tag, map) = tag
  <2>1. [tag EXCEPT !.font = tag.font] = tag
    BY DEF Tags
  <2> QED
    BY <1>1, <2>1 DEF RenameTag
<1>3. ASSUME NEW atom \in Atoms PROVE RenameAtom(atom, map) = atom
  <2> DEFINE tags == atom.tags
             new == [t \in DOMAIN tags |-> RenameTag(tags[t], map)]
  <2>1. tags \in Seq(Tags)
    BY DEF Atoms
  <2>2. tags = [t \in DOMAIN tags |-> tags[t]] /\ \A t \in DOMAIN tags : tags[t] \in Tags
    BY <2>1, LenProperties, ElementOfSeq
  <2>3. new = tags
    BY <1>2, <2>2
  <2>4. RenameAtom(atom, map) = [atom EXCEPT !.tags = new]
    BY DEF RenameAtom
  <2>5. [atom EXCEPT !.tags = tags] = atom
    BY DEF Atoms
  <2> QED
    BY <2>3, <2>4, <2>5
<1>4. ASSUME NEW line \in Lines
      PROVE  [line EXCEPT !.atoms = [k \in DOMAIN @ |-> RenameAtom(@[k], map)]] = line
  <2> DEFINE atoms == line.atoms
             new == [k \in DOMAIN atoms |-> RenameAtom(atoms[k], map)]
  <2>1. atoms \in Seq(Atoms)
    BY DEF Lines
  <2>2. atoms = [k \in DOMAIN atoms |-> atoms[k]] /\ \A k \in DOMAIN atoms : atoms[k] \in Atoms
    BY <2>1, LenProperties, ElementOfSeq
  <2>3. new = atoms
    BY <1>3, <2>2
  <2>4. [line EXCEPT !.atoms = atoms] = line
    BY DEF Lines
  <2> QED
    BY <2>3, <2>4
<1>5. lines = [i \in DOMAIN lines |-> lines[i]] /\ \A i \in DOMAIN lines : lines[i] \in Lines
  BY LenProperties, ElementOfSeq
<1> QED
  BY <1>4, <1>5 DEF RenameTags

(* Without known drawings no atom is put in, and none changed. *)
LEMMA NothingRestored ==
    ASSUME NEW draws, DOMAIN draws = {}, NEW atoms \in Seq(Atoms)
    PROVE  /\ RestoreDrawings(atoms, draws) \in Seq(Atoms)
           /\ ToSet(RestoreDrawings(atoms, draws)) \subseteq ToSet(atoms)
<1> DEFINE Here(i) == i > 0 /\ i < Len(atoms) /\ UsesDrawName(atoms[i])
                       /\ atoms[i + 1].kind = "char" /\ atoms[i + 1].ch \in DOMAIN draws
           Piece(i) == IF Here(i) THEN draws[atoms[i + 1].ch]
                       ELSE IF Here(i - 1) THEN <<>> ELSE <<atoms[i]>>
           seqs == [i \in DOMAIN atoms |-> Piece(i)]
<1>1. /\ Len(atoms) \in Nat /\ DOMAIN atoms = 1..Len(atoms)
      /\ \A i \in 1..Len(atoms) : atoms[i] \in Atoms
  BY LenProperties, ElementOfSeq
<1>2. \A i : ~Here(i)
  OBVIOUS
<1>3. RestoreDrawings(atoms, draws) = FlattenSeq(seqs)
  BY DEF RestoreDrawings
<1>4. \A i \in DOMAIN atoms : seqs[i] = <<atoms[i]>>
  BY <1>2
<1>5. DOMAIN seqs = DOMAIN atoms /\ seqs = [i \in DOMAIN seqs |-> seqs[i]]
  OBVIOUS
<1> HIDE DEF seqs
<1>6. ASSUME NEW i \in DOMAIN atoms PROVE seqs[i] \in Seq(Atoms) /\ ToSet(seqs[i]) = {atoms[i]}
  <2>1. atoms[i] \in Atoms
    BY <1>1
  <2>2. <<atoms[i]>> \in Seq(Atoms) /\ ToSet(<<atoms[i]>>) = {atoms[i]}
    BY <2>1, SingletonSeq
  <2> QED
    BY <1>4, <2>2
<1>7. seqs \in Seq(Seq(Atoms)) /\ DOMAIN seqs = 1..Len(atoms)
  <2>1. seqs \in [1..Len(atoms) -> Seq(Atoms)]
    BY <1>1, <1>5, <1>6
  <2> QED
    BY <1>1, <2>1, PiecesOfSeq
<1>8. /\ FlattenSeq(seqs) \in Seq(Atoms)
      /\ \A x : x \in ToSet(FlattenSeq(seqs)) <=> \E i \in DOMAIN seqs : x \in ToSet(seqs[i])
  BY <1>7, FlattenElements
<1>9. \A i \in DOMAIN atoms : atoms[i] \in ToSet(atoms)
  BY DEF ToSet
<1> QED
  BY <1>3, <1>5, <1>6, <1>8, <1>9

(* Every name in a subtitle without markers is some other than the drawing     *)
(* font's.                                                                     *)
NamesOther(doc) == \A n \in Names(doc) : Lookup(n) # Lookup(DrawName)

(* A text whose fonts are among those of another names the drawing font only if that does. *)
LEMMA NamesFew ==
    ASSUME NEW doc, NEW doc2, NamesOther(doc),
           DOMAIN doc2.styles = DOMAIN doc.styles,
           \A s \in DOMAIN doc.styles : doc2.styles[s].font = doc.styles[s].font,
           DOMAIN doc2.lines = DOMAIN doc.lines,
           \A i \in DOMAIN doc.lines : ToSet(doc2.lines[i].atoms) \subseteq ToSet(doc.lines[i].atoms)
    PROVE  NamesOther(doc2)
<1> DEFINE Fonts1(d, i) == {t.font : t \in UNION {ToSet(d.lines[i].atoms[k].tags) :
                                                  k \in DOMAIN d.lines[i].atoms}}
<1>1. \A d : Names(d) = {d.styles[s].font : s \in DOMAIN d.styles}
                          \cup UNION {Fonts1(d, i) : i \in DOMAIN d.lines}
  BY DEF Names
<1>2. \A d, i, n : n \in Fonts1(d, i) <=> \E atom \in ToSet(d.lines[i].atoms) :
                                              \E t \in ToSet(atom.tags) : n = t.font
  BY DEF ToSet
<1> HIDE DEF Fonts1
<1>3. ASSUME NEW i \in DOMAIN doc.lines PROVE Fonts1(doc2, i) \subseteq Fonts1(doc, i)
  <2> SUFFICES ASSUME NEW n \in Fonts1(doc2, i) PROVE n \in Fonts1(doc, i)
    OBVIOUS
  <2>1. PICK atom \in ToSet(doc2.lines[i].atoms) : \E t \in ToSet(atom.tags) : n = t.font
    BY <1>2
  <2>2. atom \in ToSet(doc.lines[i].atoms)
    BY <2>1
  <2> QED
    BY <1>2, <2>1, <2>2
<1>4. Names(doc2) \subseteq Names(doc)
  <2>1. {doc2.styles[s].font : s \in DOMAIN doc2.styles}
           = {doc.styles[s].font : s \in DOMAIN doc.styles}
    OBVIOUS
  <2>2. UNION {Fonts1(doc2, i) : i \in DOMAIN doc2.lines}
           \subseteq UNION {Fonts1(doc, i) : i \in DOMAIN doc.lines}
    BY <1>3
  <2> HIDE DEF Fonts1
  <2> QED
    BY <1>1, <2>1, <2>2
<1> QED
  BY <1>4 DEF NamesOther

(* The worker finds nothing of its own where none was made.                    *)
LEMMA NothingMade ==
    ASSUME NEW data, embedded = <<>>
    PROVE  SubsetMap(data) = {} /\ DrawEntries(data) = {}
<1>1. DOMAIN embedded = {}
  OBVIOUS
<1>2. MadeHere(data) = {}
  BY <1>1 DEF MadeHere
<1>3. SubsetMap(data) = {}
  BY <1>2 DEF SubsetMap
<1>4. DrawEntries(data) = {}
  BY <1>2 DEF DrawEntries
<1> QED
  BY <1>3, <1>4

(* The renaming and the drawings a strip job finds, and the fonts it keeps.    *)
StripMap(found, comments, map) ==
    DOMAIN map = {Lookup(m.subset) : m \in ToSet(comments) \cup UNION {SubsetMap(d) : d \in found}}
StripDraws(found, draws) ==
    DOMAIN draws = {e.ch : e \in UNION {DrawEntries(d) : d \in found}}
StripKept(comments, failing) ==
    LET fonts == ParseFonts(text.section)
    IN  Those(fonts, {f \in ToSet(fonts) : ~Removable(f, comments, f.data \notin failing)})

(* A name is given back as a subset of the worker's says, or else a comment;   *)
(* a glyph stands for the drawing the worker has for it.                       *)
GivenBack(found, comments, map) ==
    LET maps == UNION {SubsetMap(d) : d \in found}
    IN  \A face \in DOMAIN map :
            \E m \in IF \E s \in maps : Lookup(s.subset) = face THEN maps ELSE ToSet(comments) :
               Lookup(m.subset) = face /\ map[face] = m.original
DrawnBack(found, draws) ==
    \A c \in DOMAIN draws :
        \E e \in UNION {DrawEntries(d) : d \in found} : e.ch = c /\ draws[c] = e.data
FoundData(failing) == {f.data : f \in ToSet(ParseFonts(text.section))} \ failing

(* StripSubtitle, with what it finds and keeps named. *)
LEMMA StripInParts ==
    ASSUME NEW failing, StripSubtitle(failing)
    PROVE  /\ stage \in {"idle", "converted"} /\ stage' = "stripped"
           /\ UNCHANGED <<source, options, todo, embedded, names, missing>> /\ unreadable' = failing
           /\ \E found, map, draws :
                 /\ found = FoundData(failing)
                 /\ StripMap(found, text.comments, map) /\ GivenBack(found, text.comments, map)
                 /\ StripDraws(found, draws) /\ DrawnBack(found, draws)
                 /\ text' = Stripped(text, map, StripKept(text.comments, failing), draws)
<1> DEFINE fonts == ParseFonts(text.section)
           found == {f.data : f \in ToSet(fonts)} \ failing
           comments == ToSet(text.comments)
           maps == UNION {SubsetMap(d) : d \in found}
           entries == UNION {DrawEntries(d) : d \in found}
           faces == {Lookup(m.subset) : m \in comments \cup maps}
           Original(face) ==
             LET from == IF \E m \in maps : Lookup(m.subset) = face THEN maps ELSE comments
             IN  (CHOOSE m \in from : Lookup(m.subset) = face).original
           map == [face \in faces |-> Original(face)]
           draws == [c \in {e.ch : e \in entries} |-> (CHOOSE e \in entries : e.ch = c).data]
<1>1. text' = Stripped(text, map, StripKept(text.comments, failing), draws)
  BY DEF StripSubtitle, StripKept
<1>2. StripMap(found, text.comments, map)
  BY DEF StripMap
<1>3. StripDraws(found, draws)
  BY DEF StripDraws
<1>4. GivenBack(found, text.comments, map)
  <2> SUFFICES ASSUME NEW face \in faces
               PROVE  \E m \in IF \E s \in maps : Lookup(s.subset) = face THEN maps ELSE comments :
                         Lookup(m.subset) = face /\ map[face] = m.original
    BY DEF GivenBack
  <2> DEFINE from == IF \E m \in maps : Lookup(m.subset) = face THEN maps ELSE comments
  <2>1. \E m \in from : Lookup(m.subset) = face
    <3> HIDE DEF maps, comments
    <3> QED
      OBVIOUS
  <2>2. map[face] = (CHOOSE m \in from : Lookup(m.subset) = face).original
    OBVIOUS
  <2> HIDE DEF map, maps, comments, from
  <2>3. \E m \in from : Lookup(m.subset) = face /\ map[face] = m.original
    BY <2>1, <2>2
  <2> QED
    BY <2>3 DEF from
<1>5. DrawnBack(found, draws)
  <2> HIDE DEF entries
  <2>1. ASSUME NEW c \in DOMAIN draws PROVE \E e \in entries : e.ch = c /\ draws[c] = e.data
    OBVIOUS
  <2> HIDE DEF draws
  <2> QED
    BY <2>1 DEF DrawnBack, entries
<1>6. found = FoundData(failing)
  BY DEF FoundData
<1> HIDE DEF map, draws, found
<1> QED
  BY <1>1, <1>2, <1>3, <1>4, <1>5, <1>6 DEF StripSubtitle

(* A section built from other fonts does not name the drawing font. *)
LEMMA NoDrawingFontWritten ==
    ASSUME NEW fonts \in Seq(FoundFonts),
           \A f \in ToSet(fonts) : Lookup(f.family) # Lookup(DrawName)
    PROVE  \A k \in DOMAIN FontSection(fonts) :
              Lookup(FontSection(fonts)[k].family) # Lookup(DrawName)
<1> DEFINE families == {f.family : f \in ToSet(fonts)}
           new == FontSection(fonts)
<1>1. new \in Seq(LinesOf(families))
  BY SectionBuilt
<1>2. \A family \in families : Lookup(family) # Lookup(DrawName)
  OBVIOUS
<1> HIDE DEF families, new
<1>3. \A k \in DOMAIN new : new[k] \in LinesOf(families)
  BY <1>1, LenProperties, ElementOfSeq
<1>4. Lookup(NoName) # Lookup(DrawName)
  BY DEF Lookup, NoName, DrawName, Name
<1>5. \A k \in DOMAIN new : new[k].family \in families \cup {NoName}
  BY <1>3 DEF LinesOf
<1> QED
  BY <1>2, <1>4, <1>5 DEF new

(* Stripping what nobody converted, and what has no marker, leaves no marker,  *)
(* and no fonts where there were none.                                         *)
LEMMA StripMakesNoMarker ==
    ASSUME NEW failing, StripSubtitle(failing), text \in Documents, embedded = <<>>,
           ~HasMarker(text)
    PROVE  ~HasMarker(text)' /\ (text.section = <<>> => text'.section = <<>>)
<1>1. PICK found, map, draws :
         /\ StripMap(found, text.comments, map) /\ StripDraws(found, draws)
         /\ text' = Stripped(text, map, StripKept(text.comments, failing), draws)
  BY StripInParts
<1>2. /\ DOMAIN text = {"info", "comments", "styles", "section", "stray", "lines"}
      /\ StyleTable(text.styles) /\ text.lines \in Seq(Lines) /\ text.section \in Seq(FontLines)
  BY TextAssumption DEF TextAssumption, StyleTable
<1>3. text.comments = <<>> /\ NamesOther(text)
  BY DEF HasMarker, NamesOther
<1>4. DOMAIN map = {} /\ DOMAIN draws = {}
  <2>1. \A d : SubsetMap(d) = {} /\ DrawEntries(d) = {}
    BY NothingMade
  <2>2. ToSet(text.comments) = {}
    BY <1>3, NothingInEmpty
  <2> QED
    BY <1>1, <2>1, <2>2 DEF StripMap, StripDraws
<1> DEFINE kept == StripKept(text.comments, failing)
<1>5. /\ text'.comments = Those(text.comments, {c \in ToSet(text.comments) : Lookup(c.subset) \notin DOMAIN map})
      /\ text'.styles = RenameStyles(text.styles, map)
      /\ text'.section = FontSection(kept)
      /\ text'.lines = [i \in DOMAIN RenameTags(text.lines, map) |->
                          [RenameTags(text.lines, map)[i] EXCEPT !.atoms = RestoreDrawings(@, draws)]]
  BY <1>1, <1>2 DEF Stripped
<1>6. text'.comments = <<>>
  BY <1>3, <1>5, ThoseOfNone
<1>7. NamesOther(text)'
  <2>1. \A n : Renamed(n, map) = n
    BY <1>4 DEF Renamed
  <2>2. DOMAIN text'.styles = DOMAIN text.styles
        /\ \A s \in DOMAIN text.styles : text'.styles[s].font = text.styles[s].font
    <3>1. \A s \in DOMAIN text.styles : text.styles[s] \in Styles
      BY <1>2 DEF StyleTable
    <3>2. ASSUME NEW s \in DOMAIN text.styles
          PROVE  [text.styles[s] EXCEPT !.font = Renamed(@, map)].font = text.styles[s].font
      BY <2>1, <3>1 DEF Styles
    <3> QED
      BY <1>5, <3>2 DEF RenameStyles
  <2>3. DOMAIN text'.lines = DOMAIN text.lines
        /\ \A i \in DOMAIN text.lines :
              text'.lines[i] = [text.lines[i] EXCEPT !.atoms = RestoreDrawings(@, draws)]
    BY <1>2, <1>4, <1>5, NothingRenamed
  <2>4. ASSUME NEW i \in DOMAIN text.lines
        PROVE  ToSet(text'.lines[i].atoms) \subseteq ToSet(text.lines[i].atoms)
    <3>1. text.lines[i] \in Lines
      BY <1>2, LenProperties, ElementOfSeq
    <3>2. text.lines[i].atoms \in Seq(Atoms)
      BY <3>1 DEF Lines
    <3>3. text'.lines[i].atoms = RestoreDrawings(text.lines[i].atoms, draws)
      BY <2>3, <3>1 DEF Lines
    <3> QED
      BY <1>4, <3>2, <3>3, NothingRestored
  <2>5. NamesOther(text')
    BY <1>3, <2>2, <2>3, <2>4, NamesFew
  <2> QED
    BY <2>5 DEF NamesOther, Names
<1>8. \A k \in DOMAIN text'.section : Lookup(text'.section[k].family) # Lookup(DrawName)
  <2> DEFINE fonts == ParseFonts(text.section)
             stay == {f \in ToSet(fonts) : ~Removable(f, text.comments, f.data \notin failing)}
  <2>1. kept = Those(fonts, stay)
    BY DEF StripKept
  <2>2. fonts \in Seq(FoundFonts)
    BY <1>2, FontsParsed
  <2>3. \A f \in stay : Lookup(f.family) # Lookup(DrawName)
    BY DEF Removable
  <2> HIDE DEF fonts, stay
  <2>4. kept \in Seq(FoundFonts) /\ \A f \in ToSet(kept) : f \in stay
    BY <2>1, <2>2, ThoseElements
  <2> HIDE DEF kept
  <2>5. \A f \in ToSet(kept) : Lookup(f.family) # Lookup(DrawName)
    BY <2>3, <2>4
  <2>6. \A k \in DOMAIN FontSection(kept) : Lookup(FontSection(kept)[k].family) # Lookup(DrawName)
    BY <2>4, <2>5, NoDrawingFontWritten
  <2> QED
    BY <1>5, <2>6
<1>9. ~HasMarker(text')
  BY <1>6, <1>7, <1>8 DEF HasMarker, NamesOther
<1>10. ASSUME text.section = <<>> PROVE text'.section = <<>>
  <2>1. kept = <<>>
    BY <1>10, NoFontsParsed, ThoseOfNone DEF StripKept
  <2> HIDE DEF kept
  <2> QED
    BY <1>5, <2>1, NoSectionBuilt
<1> QED
  BY <1>9, <1>10 DEF HasMarker, Names

-------------------------------------------------------------------------------
(* TextInv.                                                                    *)

(* The types follow from the invariant. *)
LEMMA LoopTypes == LoopInv => TypeOK
<1> SUFFICES ASSUME LoopInv PROVE TypeOK
  OBVIOUS
<1>1. ASSUME NEW k \in DOMAIN embedded
      PROVE  embedded[k].slot \in ToSet(Slots) /\ embedded[k].data \in ToSet(FontFiles)
  <2>1. embedded[k] \in Fonts
    BY LenProperties, ElementOfSeq DEF LoopInv, EmbeddedInv
  <2> QED
    BY <2>1, TheSlots DEF Fonts
<1> QED
  BY <1>1 DEF LoopInv, TypeOK

(* No two fonts have one name: what stable_font_name is for.                   *)
OwnNames ==
    \A i, k \in DOMAIN embedded :
        Lookup(embedded[i].family) = Lookup(embedded[k].family)
        => Lookup(embedded[i].original) = Lookup(embedded[k].original)

(* So does that a name belongs to one font: the digests are free, and none is the drawing *)
(* font's.                                                                                *)
LEMMA NamesTellFonts == LoopInv => OwnNames
<1> SUFFICES ASSUME LoopInv, NEW i \in DOMAIN embedded, NEW k \in DOMAIN embedded,
                    Lookup(embedded[i].family) = Lookup(embedded[k].family)
             PROVE  Lookup(embedded[i].original) = Lookup(embedded[k].original)
  BY DEF OwnNames
<1>1. NamedFor(embedded[i], names) /\ NamedFor(embedded[k], names) /\ NamesInv
  BY DEF LoopInv, EmbeddedInv
<1>2. ASSUME NEW face \in DOMAIN names PROVE names[face].face # "assdrawsubset"
  <2>1. PICK word \in Words \ {"", "assdrawsubset"} : names[face] = Name(word)
    BY <1>1 DEF NamesInv, Renames
  <2>2. word \in Words /\ word # "assdrawsubset" /\ Lookup(Name(word)) = word
    BY NameTypes
  <2> QED
    BY <2>1, <2>2 DEF Lookup
<1>3. DrawName.face = "assdrawsubset"
  BY DEF DrawName, Name
<1>4. CASE options.random
  <2>1. \A f, g \in DOMAIN names : names[f].face = names[g].face => f = g
    BY <1>1 DEF NamesInv
  <2> QED
    BY <1>1, <1>2, <1>3, <1>4, <2>1 DEF NamedFor, Lookup
<1>5. CASE ~options.random
  BY <1>1, <1>5 DEF NamedFor
<1> QED
  BY <1>4, <1>5

(* The forms of the texts the jobs leave.                                      *)
FormKnown == stage = "converted" => \E form \in Outputs("subset", "orig") : HasForm(form)
FormLeft ==
    stage = "stripped" => \E was \in FormBefore : \E form \in Outputs("strip", was) : HasForm(form)

(* A converted text has a form: markers are fonts too. *)
LEMMA ConvertedForm == FormKnown
<1>1. {"orig", "marked", "fonts"} \subseteq Outputs("subset", "orig")
  BY DEF Outputs
<1>2. HasMarker(text) \in BOOLEAN /\ HasFonts(text) \in BOOLEAN /\ (HasMarker(text) => HasFonts(text))
  BY DEF HasFonts, HasMarker
<1>3. CASE HasMarker(text)
  <2>1. HasForm("marked")
    BY <1>2, <1>3 DEF HasForm, Embedded, Marker, Late
  <2> QED
    BY <1>1, <2>1 DEF FormKnown
<1>4. CASE ~HasMarker(text) /\ HasFonts(text)
  <2>1. HasForm("fonts")
    <3>1. Embedded("fonts") /\ ~Marker("fonts") /\ \A form : Embedded(form) \in BOOLEAN /\ Marker(form) \in BOOLEAN
      BY DEF Embedded, Marker, Late
    <3> QED
      BY <1>2, <1>4, <3>1 DEF HasForm
  <2> QED
    BY <1>1, <2>1 DEF FormKnown
<1>5. CASE ~HasFonts(text)
  <2>1. HasForm("orig")
    BY <1>2, <1>5 DEF HasForm, Embedded, Marker, Late
  <2> QED
    BY <1>1, <2>1 DEF FormKnown
<1> QED
  BY <1>2, <1>3, <1>4, <1>5

(* What is known of a stripped text: no marker where there was none, no fonts  *)
(* where there were none, unless a conversion put them there.                  *)
Cleaned ==
    \/ embedded # <<>>
    \/ HasMarker(source)
    \/ ~HasMarker(text) /\ (HasFonts(source) \/ ~HasFonts(text))

(* What is known of a stripped text decides its form. *)
LEMMA CleanedForm == Cleaned => FormLeft
<1> SUFFICES ASSUME Cleaned, stage = "stripped"
             PROVE  \E was \in FormBefore : \E form \in Outputs("strip", was) : HasForm(form)
  BY DEF FormLeft
<1>1. HasMarker(text) \in BOOLEAN /\ HasFonts(text) \in BOOLEAN /\ (HasMarker(text) => HasFonts(text))
  BY DEF HasFonts, HasMarker
<1>2. /\ {"marked", "stripped", "fonts"} \subseteq Outputs("strip", "marked")
      /\ {"ext_marked", "stripped", "fonts"} \subseteq Outputs("strip", "ext_marked")
      /\ {"stripped", "fonts"} \subseteq Outputs("strip", "ext_fonts")
      /\ "stripped" \in Outputs("strip", "orig")
  BY DEF Outputs, Embedded
<1>3. /\ HasMarker(text) => HasForm("marked") /\ HasForm("ext_marked")
      /\ ~HasMarker(text) /\ HasFonts(text) => HasForm("fonts")
      /\ ~HasFonts(text) => HasForm("stripped")
  <2>1. Embedded("marked") /\ Embedded("ext_marked") /\ Embedded("fonts") /\ ~Embedded("stripped")
    BY DEF Embedded
  <2>2. Marker("marked") /\ Marker("ext_marked") /\ ~Marker("fonts") /\ ~Marker("stripped")
    BY DEF Marker, Late
  <2>3. \A form : Embedded(form) \in BOOLEAN /\ Marker(form) \in BOOLEAN
    BY DEF Embedded, Marker, Late
  <2> QED
    BY <1>1, <2>1, <2>2, <2>3 DEF HasForm
<1>4. CASE embedded # <<>>
  <2>1. "marked" \in FormBefore
    BY <1>4 DEF FormBefore, Outputs
  <2> QED
    BY <1>1, <1>2, <1>3, <2>1
<1>5. CASE embedded = <<>> /\ HasMarker(source)
  <2>1. "ext_marked" \in FormBefore
    BY <1>5 DEF FormBefore
  <2> QED
    BY <1>1, <1>2, <1>3, <2>1
<1>6. CASE embedded = <<>> /\ ~HasMarker(source) /\ HasFonts(source) /\ ~HasMarker(text)
  <2>1. "ext_fonts" \in FormBefore
    BY <1>6 DEF FormBefore
  <2> QED
    BY <1>1, <1>2, <1>3, <1>6, <2>1
<1>7. CASE embedded = <<>> /\ ~HasMarker(source) /\ ~HasFonts(source) /\ ~HasFonts(text)
  <2>1. "orig" \in FormBefore
    BY <1>7 DEF FormBefore
  <2> QED
    BY <1>1, <1>2, <1>3, <1>7, <2>1
<1> QED
  BY <1>4, <1>5, <1>6, <1>7 DEF Cleaned

(* Stripping brings this about. *)
LEMMA StripCleans ==
    ASSUME LoopInv, NEW failing, StripSubtitle(failing) PROVE Cleaned'
<1>1. stage \in {"idle", "converted"} /\ UNCHANGED <<source, embedded>>
  BY StripInParts
<1>2. CASE embedded # <<>>
  BY <1>1, <1>2 DEF Cleaned
<1>3. CASE HasMarker(source)
  <2>1. HasMarker(source)'
    BY <1>1, <1>3 DEF HasMarker, Names
  <2> QED
    BY <2>1 DEF Cleaned
<1>4. CASE embedded = <<>> /\ ~HasMarker(source)
  <2>1. text = source /\ text \in Documents
    BY <1>1, <1>4 DEF LoopInv
  <2>2. ~HasMarker(text)' /\ (text.section = <<>> => text'.section = <<>>)
    BY <1>4, <2>1, StripMakesNoMarker
  <2>3. CASE text.section = <<>>
    <3>1. ~HasFonts(text)'
      BY <2>2, <2>3 DEF HasFonts
    <3> QED
      BY <2>2, <3>1 DEF Cleaned
  <2>4. CASE text.section # <<>>
    <3>1. HasFonts(source)'
      BY <1>1, <2>1, <2>4 DEF HasFonts
    <3> QED
      BY <2>2, <3>1 DEF Cleaned
  <2> QED
    BY <2>3, <2>4
<1> QED
  BY <1>2, <1>3, <1>4

(* Two fonts never share an embedded name, and each job leaves a text of a     *)
(* form the model of the files knows.                                          *)
THEOREM TextsCorrect == Spec => []TextInv
<1>1. Init => LoopInv /\ FormLeft
  BY InitLoop DEF Init, FormLeft
<1>2. LoopInv /\ [Next]_vars => LoopInv'
  BY LoopKept
<1>3. LoopInv /\ FormLeft /\ [Next]_vars => FormLeft'
  <2> SUFFICES ASSUME LoopInv, FormLeft, [Next]_vars PROVE FormLeft'
    OBVIOUS
  <2>1. CASE \E failing \in SUBSET {f.data : f \in ToSet(ParseFonts(text.section))} :
                StripSubtitle(failing)
    <3>1. Cleaned'
      BY <2>1, StripCleans
    <3>2. (Cleaned => FormLeft)'
      BY CleanedForm, PTL
    <3> QED
      BY <3>1, <3>2
  <2>2. CASE Done \/ UNCHANGED vars
    <3>1. UNCHANGED vars
      BY <2>2 DEF Done
    <3>2. /\ HasMarker(text)' = HasMarker(text) /\ HasFonts(text)' = HasFonts(text)
          /\ HasMarker(source)' = HasMarker(source) /\ HasFonts(source)' = HasFonts(source)
      BY <3>1 DEF vars, HasFonts, HasMarker, Names
    <3>3. FormBefore' = FormBefore
      BY <3>1, <3>2 DEF vars, FormBefore
    <3>4. \A form : HasForm(form)' = HasForm(form)
      BY <3>2 DEF HasForm
    <3> QED
      BY <3>1, <3>3, <3>4 DEF vars, FormLeft
  <2>3. CASE ReadSubtitle
    BY <2>3 DEF ReadSubtitle, FormLeft
  <2>4. CASE \E font \in todo : EmbedFont(font)
    BY <2>4 DEF EmbedFont, FormLeft
  <2>5. CASE WorkerFails
    BY <2>5 DEF WorkerFails, FormLeft
  <2>6. CASE WriteSubset
    BY <2>6 DEF WriteSubset, FormLeft
  <2> QED
    BY <2>1, <2>2, <2>3, <2>4, <2>5, <2>6 DEF Next
<1>4. LoopInv /\ FormLeft => TextInv
  BY LoopTypes, NamesTellFonts, ConvertedForm DEF TextInv, OwnNames, FormKnown, FormLeft
<1> QED
  BY <1>1, <1>2, <1>3, <1>4, PTL DEF Spec

-------------------------------------------------------------------------------
(* ForeignFontsStay: what build_fonts_section writes is what                   *)
(* parse_embedded_fonts reads.                                                 *)

(* The lines of one font. *)
Opening(f) == FontLine("fontname", f.family, f.slot, <<>>)
DataOf(f)  == DataLines(Encode(f.data))
Closing    == FontLine("blank", NoName, "", <<>>)
BlockOf(f) == <<Opening(f)>> \o DataOf(f) \o <<Closing>>

(* The data lines hold the characters in order, and nothing else.              *)
LEMMA DataInLines ==
    ASSUME NEW chars \in Seq(Int)
    PROVE  LET lines == DataLines(chars)
           IN  /\ lines \in Seq(FontLines)
               /\ \A k \in 1..Len(lines) : lines[k].kind = "data"
               /\ FlattenSeq([k \in 1..Len(lines) |-> lines[k].chars]) = chars
<1> DEFINE lines == DataLines(chars)
           cut == Cut(chars, LineLength)
           K == (Len(chars) + LineLength - 1) \div LineLength
           Data(k) == FontLine("data", NoName, "", cut[k])
<1>1. LineLength \in Nat \ {0} /\ Len(chars) \in Nat
  BY TextAssumption, LenProperties DEF TextAssumption
<1>2. cut \in Seq(Seq(Int)) /\ FlattenSeq(cut) = chars
  BY <1>1, CutJoins
<1>3. K \in Nat
  BY <1>1, Pieces
<1>4. lines = [k \in 1..K |-> Data(k)] /\ cut = [k \in 1..K |-> cut[k]]
  BY DEF DataLines, Cut
<1> HIDE DEF lines, cut, K
<1>5. Len(cut) = K /\ DOMAIN cut = 1..K
  <2>1. DOMAIN cut = 1..K
    BY <1>4
  <2>2. Len(cut) \in Nat /\ DOMAIN cut = 1..Len(cut)
    BY <1>2, LenProperties
  <2> QED
    BY <1>3, <2>1, <2>2
<1>6. ASSUME NEW k \in 1..K PROVE lines[k] = Data(k) /\ Data(k) \in FontLines
                                  /\ Data(k).kind = "data" /\ Data(k).chars = cut[k]
  <2>1. cut[k] \in Seq(Int)
    BY <1>2, <1>5, ElementOfSeq
  <2>2. NoName \in FontNames
    BY TextAssumption, NameTypes DEF TextAssumption, NoName
  <2> QED
    BY <1>4, <2>1, <2>2 DEF FontLine, FontLines
<1>7. lines \in Seq(FontLines) /\ Len(lines) = K
  <2> HIDE DEF Data
  <2>1. lines \in [1..K -> FontLines]
    BY <1>4, <1>6
  <2>2. lines \in Seq(FontLines)
    BY <1>3, <2>1, SeqDef
  <2> QED
    BY <1>3, <2>1, <2>2, LenProperties
<1>8. [k \in 1..Len(lines) |-> lines[k].chars] = cut
  <2>1. [k \in 1..K |-> lines[k].chars] = [k \in 1..K |-> cut[k]]
    BY <1>6
  <2> QED
    BY <1>4, <1>7, <2>1
<1> QED
  BY <1>2, <1>6, <1>7, <1>8 DEF lines

(* The lines of a font, one by one. *)
LEMMA BlockLines ==
    ASSUME NEW f \in FoundFonts
    PROVE  LET D == Len(DataOf(f))
               b == BlockOf(f)
           IN  /\ D \in Nat /\ b \in Seq(FontLines) /\ Len(b) = D + 2
               /\ b[1] = Opening(f) /\ b[D + 2] = Closing
               /\ \A j \in 1..D : b[1 + j] = DataOf(f)[j]
<1> DEFINE d == DataOf(f)
           D == Len(d)
           open == <<Opening(f)>>
           close == <<Closing>>
           start == open \o d
           b == start \o close
<1>1. f.data \in Seq(Int) /\ f.family \in FontNames /\ f.slot \in ToSet(Slots) \cup {""}
  BY BytesAreNumbers DEF FoundFonts
<1>2. d \in Seq(FontLines)
  BY <1>1, CodedTyped, DataInLines DEF DataOf
<1>3. Opening(f) \in FontLines /\ Closing \in FontLines
  <2>1. NoName \in FontNames
    BY TextAssumption, NameTypes DEF TextAssumption, NoName
  <2>2. <<>> \in Seq(Int)
    OBVIOUS
  <2> QED
    BY <1>1, <2>1, <2>2 DEF Opening, Closing, FontLine, FontLines
<1>4. /\ open \in Seq(FontLines) /\ Len(open) = 1 /\ open[1] = Opening(f)
      /\ close \in Seq(FontLines) /\ Len(close) = 1 /\ close[1] = Closing
  BY <1>3
<1>5. b = BlockOf(f)
  BY DEF BlockOf
<1> HIDE DEF d, open, close
<1>6. /\ start \in Seq(FontLines) /\ D \in Nat /\ Len(start) = 1 + D
      /\ start[1] = Opening(f) /\ \A j \in 1..D : start[1 + j] = d[j]
  <2>1. start \in Seq(FontLines)
    BY <1>2, <1>4, ConcatProperties
  <2>a. start = open \o d
    OBVIOUS
  <2>b. open \in Seq(FontLines) /\ d \in Seq(FontLines)
    BY <1>2, <1>4
  <2> HIDE DEF start
  <2>2. /\ Len(d) \in Nat /\ Len(start) = Len(open) + Len(d)
        /\ \A j \in 1..Len(open) : start[j] = open[j]
        /\ \A j \in 1..Len(d) : start[Len(open) + j] = d[j]
    BY <2>a, <2>b, ConcatOrder
  <2>3. 1 \in 1..Len(open)
    BY <1>4
  <2> QED
    BY <1>4, <2>1, <2>2, <2>3
<1> HIDE DEF start, D
<1>7. /\ b \in Seq(FontLines) /\ Len(b) = Len(start) + 1
      /\ \A j \in 1..Len(start) : b[j] = start[j]
      /\ b[Len(start) + 1] = Closing
  <2>1. b \in Seq(FontLines)
    BY <1>4, <1>6, ConcatProperties
  <2>a. b = start \o close
    OBVIOUS
  <2>b. start \in Seq(FontLines) /\ close \in Seq(FontLines)
    BY <1>4, <1>6
  <2> HIDE DEF b
  <2>2. /\ Len(b) = Len(start) + Len(close)
        /\ \A j \in 1..Len(start) : b[j] = start[j]
        /\ \A j \in 1..Len(close) : b[Len(start) + j] = close[j]
    BY <2>a, <2>b, ConcatOrder
  <2>3. 1 \in 1..Len(close)
    BY <1>4
  <2> QED
    BY <1>4, <2>1, <2>2, <2>3
<1> HIDE DEF b
<1>8. Len(b) = D + 2 /\ b[D + 2] = Closing /\ b[1] = Opening(f)
  <2>1. (1 + D) + 1 = D + 2 /\ 1 \in 1..1 + D
    BY <1>6
  <2> QED
    BY <1>6, <1>7, <2>1
<1>9. ASSUME NEW j \in 1..D PROVE b[1 + j] = d[j]
  <2>1. 1 + j \in 1..1 + D
    BY <1>6
  <2> QED
    BY <1>6, <1>7, <2>1
<1> QED
  BY <1>5, <1>6, <1>7, <1>8, <1>9 DEF d, D

(* The section of some fonts: the block of each font begins at its head.       *)
LaidOut(section, fonts, head) ==
    /\ \A i \in 1..Len(fonts) :
          LET D == Len(DataOf(fonts[i]))
          IN  /\ D \in Nat /\ head[i] \in 1..Len(section) /\ section[head[i]] = Opening(fonts[i])
              /\ head[i] + D + 1 \in 1..Len(section) /\ section[head[i] + D + 1] = Closing
              /\ \A j \in 1..D : /\ head[i] + j \in 1..Len(section)
                                 /\ section[head[i] + j] = DataOf(fonts[i])[j]
    /\ \A i, k \in 1..Len(fonts) : i < k => head[i] < head[k]
    /\ \A p \in 1..Len(section) :
          \E i \in 1..Len(fonts) :
             \/ p = head[i] \/ section[p] = Closing
             \/ \E j \in 1..Len(DataOf(fonts[i])) : section[p] = DataOf(fonts[i])[j]

(* A section is laid out like that.                                            *)
LEMMA SectionLaidOut ==
    ASSUME NEW fonts \in Seq(FoundFonts)
    PROVE  FontSection(fonts) \in Seq(FontLines) /\ \E head : LaidOut(FontSection(fonts), fonts, head)
<1> DEFINE n == Len(fonts)
           blocks == [i \in DOMAIN fonts |-> BlockOf(fonts[i])]
           section == FontSection(fonts)
           D(i) == Len(DataOf(fonts[i]))
<1>1. n \in Nat /\ DOMAIN fonts = 1..n /\ \A i \in 1..n : fonts[i] \in FoundFonts
  BY LenProperties, ElementOfSeq
<1>2. section = FlattenSeq(blocks)
  BY DEF FontSection, BlockOf, Opening, DataOf, Closing
<1>3. ASSUME NEW i \in 1..n
      PROVE  /\ D(i) \in Nat /\ blocks[i] \in Seq(FontLines) /\ Len(blocks[i]) = D(i) + 2
             /\ blocks[i][1] = Opening(fonts[i]) /\ blocks[i][D(i) + 2] = Closing
             /\ \A j \in 1..D(i) : blocks[i][1 + j] = DataOf(fonts[i])[j]
  <2>1. fonts[i] \in FoundFonts /\ blocks[i] = BlockOf(fonts[i])
    BY <1>1
  <2> HIDE DEF blocks
  <2> QED
    BY <2>1, BlockLines
<1>4. blocks \in Seq(Seq(FontLines)) /\ Len(blocks) = n
  <2>1. blocks = [i \in 1..n |-> blocks[i]]
    BY <1>1
  <2> HIDE DEF blocks
  <2>2. blocks \in [1..n -> Seq(FontLines)]
    BY <1>3, <2>1
  <2>3. blocks \in Seq(Seq(FontLines)) /\ DOMAIN blocks = 1..n
    BY <1>1, <2>2, PiecesOfSeq
  <2> QED
    BY <1>1, <2>3, LenProperties
<1> HIDE DEF blocks, section, D
<1>5. section \in Seq(FontLines)
  BY <1>2, <1>4, FlattenElements
<1>6. PICK off : Placed(off, blocks)
  BY <1>4, FlattenPlaces
<1>7. /\ off \in [0..n -> Nat] /\ Len(section) = off[n]
      /\ \A i \in 1..n : off[i] = off[i - 1] + Len(blocks[i])
      /\ \A p \in 1..off[n] : \E i \in 1..n : p \in off[i - 1] + 1..off[i]
      /\ \A i \in 1..n : /\ off[i] <= off[n]
                         /\ \A j \in 1..Len(blocks[i]) : section[off[i - 1] + j] = blocks[i][j]
  BY <1>2, <1>4, <1>6 DEF Placed
<1> DEFINE head == [i \in 1..n |-> off[i - 1] + 1]
<1>8. \A i \in 1..n : head[i] = off[i - 1] + 1
  OBVIOUS
<1> HIDE DEF head
<1>9. ASSUME NEW i \in 1..n
      PROVE  /\ i - 1 \in 0..n /\ i \in 0..n /\ off[i - 1] \in Nat /\ off[i] \in Nat
             /\ off[i] = off[i - 1] + D(i) + 2 /\ off[i] <= Len(section) /\ Len(section) \in Nat
  <2>1. i - 1 \in 0..n /\ i \in 0..n /\ n \in 0..n
    BY <1>1
  <2>2. off[i - 1] \in Nat /\ off[i] \in Nat /\ off[n] \in Nat
    BY <1>7, <2>1
  <2> QED
    BY <1>3, <1>7, <2>1, <2>2
<1>10. ASSUME NEW i \in 1..n
       PROVE  /\ D(i) \in Nat /\ head[i] \in 1..Len(section) /\ section[head[i]] = Opening(fonts[i])
              /\ head[i] + D(i) + 1 \in 1..Len(section) /\ section[head[i] + D(i) + 1] = Closing
              /\ \A j \in 1..D(i) : /\ head[i] + j \in 1..Len(section)
                                    /\ section[head[i] + j] = DataOf(fonts[i])[j]
  <2> DEFINE o == off[i - 1]
             d == D(i)
             L == Len(section)
  <2>1. o \in Nat /\ d \in Nat /\ L \in Nat /\ o + d + 2 <= L /\ head[i] = o + 1
    BY <1>3, <1>8, <1>9
  <2>2. /\ Len(blocks[i]) = d + 2
        /\ \A j \in 1..d + 2 : section[o + j] = blocks[i][j]
    BY <1>3, <1>7
  <2> HIDE DEF o, d, L
  <2>3. /\ o + 1 \in 1..L /\ (o + 1) + d + 1 = o + (d + 2) /\ o + (d + 2) \in 1..L
        /\ 1 \in 1..d + 2 /\ d + 2 \in 1..d + 2
    BY <2>1
  <2>4. \A j \in 1..d : (o + 1) + j = o + (1 + j) /\ o + (1 + j) \in 1..L /\ 1 + j \in 1..d + 2
    BY <2>1
  <2>5. section[o + 1] = Opening(fonts[i]) /\ section[o + (d + 2)] = Closing
    BY <1>3, <2>2, <2>3 DEF d
  <2>6. \A j \in 1..d : section[o + (1 + j)] = DataOf(fonts[i])[j]
    BY <1>3, <2>2, <2>4 DEF d
  <2>7. \A j \in 1..d : head[i] + j \in 1..L /\ section[head[i] + j] = DataOf(fonts[i])[j]
    BY <2>1, <2>4, <2>6
  <2>8. /\ head[i] \in 1..L /\ section[head[i]] = Opening(fonts[i])
        /\ head[i] + d + 1 \in 1..L /\ section[head[i] + d + 1] = Closing
    BY <2>1, <2>3, <2>5
  <2> QED
    BY <2>1, <2>7, <2>8 DEF d, L
<1>11. ASSUME NEW i \in 1..n, NEW k \in 1..n, i < k PROVE head[i] < head[k]
  <2>1. ASSUME NEW m \in 1..n PROVE off[m - 1] <= off[m]
    <3>1. off[m - 1] \in Nat /\ D(m) \in Nat /\ off[m] = off[m - 1] + D(m) + 2
      BY <1>3, <1>9
    <3> QED
      BY <3>1
  <2>2. \A a, c \in 0..n : a <= c => off[a] <= off[c]
    <3>1. \A m \in 1..n : off[m - 1] <= off[m]
      BY <2>1
    <3> QED
      BY <3>1, <1>1, <1>7, <2>1, PlacesGrow
  <2>3. off[i] <= off[k - 1]
    <3>1. i \in 0..n /\ k - 1 \in 0..n /\ i <= k - 1
      BY <1>9, <1>11
    <3> QED
      BY <2>2, <3>1
  <2>4. off[i - 1] < off[i]
    <3>1. off[i - 1] \in Nat /\ D(i) \in Nat /\ off[i] = off[i - 1] + D(i) + 2
      BY <1>3, <1>9
    <3> QED
      BY <3>1
  <2> QED
    BY <1>8, <1>9, <2>3, <2>4
<1>12. ASSUME NEW p \in 1..Len(section)
       PROVE  \E i \in 1..n : \/ p = head[i] \/ section[p] = Closing
                              \/ \E j \in 1..D(i) : section[p] = DataOf(fonts[i])[j]
  <2>1. PICK i \in 1..n : p \in off[i - 1] + 1..off[i]
    BY <1>7
  <2> DEFINE o == off[i - 1]
             d == D(i)
  <2>2. o \in Nat /\ d \in Nat /\ p \in o + 1..o + d + 2
    BY <1>3, <1>9, <2>1
  <2>3. head[i] = o + 1
    BY <1>8
  <2> HIDE DEF o, d
  <2>4. CASE p = o + 1
    BY <2>3, <2>4
  <2>5. CASE p = o + d + 2
    <3>1. head[i] + d + 1 = o + d + 2
      BY <2>2, <2>3
    <3>2. section[p] = Closing
      BY <1>10, <2>5, <3>1 DEF d
    <3> QED
      BY <3>2
  <2>6. CASE p # o + 1 /\ p # o + d + 2
    <3>1. p - (o + 1) \in 1..d /\ (o + 1) + (p - (o + 1)) = p
      BY <2>2, <2>6
    <3>2. section[p] = DataOf(fonts[i])[p - (o + 1)]
      BY <1>10, <2>3, <3>1 DEF d
    <3> QED
      BY <3>1, <3>2 DEF d
  <2> QED
    BY <2>4, <2>5, <2>6
<1>13. LaidOut(section, fonts, head)
  BY <1>10, <1>11, <1>12 DEF LaidOut, D
<1> QED
  BY <1>5, <1>13 DEF section

(* What the lines of a laid out section are: a font's first line, its last, or *)
(* data that is no header.                                                     *)
LEMMA LineKinds ==
    ASSUME NEW fonts \in Seq(FoundFonts), \A f \in ToSet(fonts) : Readable(f)
    PROVE  /\ \A f : ~LooksLikeHeader(Opening(f)) /\ Opening(f).kind = "fontname"
           /\ ~LooksLikeHeader(Closing) /\ Closing.kind = "blank"
           /\ \A i \in 1..Len(fonts) : \A j \in 1..Len(DataOf(fonts[i])) :
                 /\ DataOf(fonts[i])[j].kind = "data"
                 /\ ~LooksLikeHeader(DataOf(fonts[i])[j])
<1>1. \A f : ~LooksLikeHeader(Opening(f)) /\ Opening(f).kind = "fontname"
  BY DEF LooksLikeHeader, Opening, FontLine
<1>2. ~LooksLikeHeader(Closing) /\ Closing.kind = "blank"
  BY DEF LooksLikeHeader, Closing, FontLine
<1>3. ASSUME NEW i \in 1..Len(fonts), NEW j \in 1..Len(DataOf(fonts[i]))
      PROVE  DataOf(fonts[i])[j].kind = "data" /\ ~LooksLikeHeader(DataOf(fonts[i])[j])
  <2> DEFINE f == fonts[i]
             d == DataOf(f)
  <2>1. f \in FoundFonts /\ f \in ToSet(fonts)
    <3>1. Len(fonts) \in Nat /\ DOMAIN fonts = 1..Len(fonts)
      BY LenProperties
    <3> QED
      BY <3>1, ElementOfSeq DEF ToSet
  <2>2. Encode(f.data) \in Seq(Int)
    <3>1. f.data \in Seq(Byte)
      BY <2>1 DEF FoundFonts
    <3> QED
      BY <3>1, BytesAreNumbers, CodedTyped
  <2>3. d \in Seq(FontLines) /\ \A k \in 1..Len(d) : d[k].kind = "data"
    BY <2>2, DataInLines DEF DataOf
  <2>4. \A line \in ToSet(d) : ~LooksLikeHeader(line)
    BY <2>1 DEF Readable, DataOf
  <2> HIDE DEF f
  <2>5. d[j] \in ToSet(d)
    <3>1. DOMAIN d = 1..Len(d) /\ j \in 1..Len(d)
      BY <2>3, LenProperties DEF f
    <3> HIDE DEF d
    <3> QED
      BY <3>1 DEF ToSet
  <2>6. d[j].kind = "data"
    BY <2>3 DEF f
  <2> QED
    BY <2>4, <2>5, <2>6 DEF f
<1> QED
  BY <1>1, <1>2, <1>3

(* The block of a font ends at its blank line, and holds its data encoded.     *)
LEMMA BlockRead ==
    ASSUME NEW fonts \in Seq(FoundFonts), \A f \in ToSet(fonts) : Readable(f),
           NEW section \in Seq(FontLines), NEW head, LaidOut(section, fonts, head),
           NEW i \in 1..Len(fonts)
    PROVE  BlockChars(section, head[i]) = Encode(fonts[i].data)
<1> DEFINE k == head[i]
           d == DataOf(fonts[i])
           D == Len(d)
           ends == {e \in k + 1..Len(section) + 1 :
                      e \in DOMAIN section => \/ section[e].kind \in {"blank", "fontname"}
                                             \/ LooksLikeHeader(section[e])}
           end == CHOOSE e \in ends : \A f \in ends : e <= f
           last == k + D + 1
<1>1. /\ D \in Nat /\ k \in 1..Len(section) /\ last \in 1..Len(section) /\ section[last] = Closing
      /\ \A j \in 1..D : k + j \in 1..Len(section) /\ section[k + j] = d[j]
  BY DEF LaidOut
<1>2. Len(section) \in Nat /\ DOMAIN section = 1..Len(section)
  BY LenProperties
<1>3. /\ Closing.kind = "blank"
      /\ \A j \in 1..D : d[j].kind = "data" /\ ~LooksLikeHeader(d[j])
  BY LineKinds
<1>4. BlockChars(section, k) = FlattenSeq([j \in 1..end - k - 1 |-> section[k + j].chars])
  BY DEF BlockChars
<1> HIDE DEF k, d, D
<1>5. last \in ends
  <2>1. last \in k + 1..Len(section) + 1
    BY <1>1, <1>2
  <2> QED
    BY <1>1, <1>3, <2>1
<1>6. ASSUME NEW e \in ends PROVE last <= e /\ e \in Nat
  <2>1. e \in k + 1..Len(section) + 1 /\ e \in Nat /\ k \in Nat
    BY <1>1, <1>2
  <2>2. ASSUME ~(last <= e) PROVE FALSE
    <3>1. e - k \in 1..D /\ k + (e - k) = e
      BY <1>1, <2>1, <2>2
    <3>2. e \in DOMAIN section /\ section[e] = d[e - k]
      BY <1>1, <1>2, <3>1
    <3>3. section[e].kind = "data" /\ ~LooksLikeHeader(section[e])
      BY <1>3, <3>1, <3>2
    <3> QED
      BY <3>2, <3>3
  <2> QED
    BY <2>1, <2>2
<1> HIDE DEF ends, last
<1>7. end = last
  <2>1. end \in ends /\ \A f \in ends : end <= f
    BY <1>5, <1>6
  <2>2. end <= last /\ last <= end
    BY <1>5, <1>6, <2>1
  <2>3. end \in Nat /\ last \in Nat
    BY <1>5, <1>6, <2>1
  <2> HIDE DEF end
  <2> QED
    BY <2>2, <2>3
<1> HIDE DEF end
<1>8. end - k - 1 = D
  BY <1>1, <1>7 DEF last
<1>9. [j \in 1..end - k - 1 |-> section[k + j].chars] = [j \in 1..D |-> d[j].chars]
  BY <1>1, <1>8
<1>10. FlattenSeq([j \in 1..D |-> d[j].chars]) = Encode(fonts[i].data)
  <2>1. fonts[i] \in FoundFonts
    BY ElementOfSeq
  <2>2. Encode(fonts[i].data) \in Seq(Int)
    BY <2>1, BytesAreNumbers, CodedTyped DEF FoundFonts
  <2> QED
    BY <2>2, DataInLines DEF d, D, DataOf
<1> QED
  BY <1>4, <1>9, <1>10 DEF k

(* What build_fonts_section writes, parse_embedded_fonts reads: the same fonts,*)
(* in the same order, byte for byte, unless a line of their data looks like a  *)
(* section header.                                                             *)
THEOREM SectionReadsBack ==
    ASSUME NEW fonts \in Seq(FoundFonts), \A f \in ToSet(fonts) : Readable(f)
    PROVE  ParseFonts(FontSection(fonts)) = fonts
<1> DEFINE section == FontSection(fonts)
           n == Len(fonts)
           Inside(k) == \A h \in 1..k : ~LooksLikeHeader(section[h])
           Found(k) == [family |-> section[k].family, slot |-> section[k].slot,
                        data |-> Decode(BlockChars(section, k))]
           Reads(k) == section[k].kind = "fontname" /\ Inside(k) /\ Decodes(BlockChars(section, k))
           seqs == [k \in DOMAIN section |-> IF Reads(k) THEN <<Found(k)>> ELSE <<>>]
<1>1. section \in Seq(FontLines)
  BY SectionLaidOut
<1>2. PICK head : LaidOut(section, fonts, head)
  BY SectionLaidOut
<1>3. ParseFonts(section) = FlattenSeq(seqs)
  BY DEF ParseFonts
<1>4. seqs = [k \in DOMAIN section |-> IF Reads(k) THEN <<Found(k)>> ELSE <<>>]
  OBVIOUS
<1> HIDE DEF section, seqs
<1>5. Len(section) \in Nat /\ DOMAIN section = 1..Len(section)
  BY <1>1, LenProperties
<1>6. /\ \A f : ~LooksLikeHeader(Opening(f)) /\ Opening(f).kind = "fontname"
      /\ ~LooksLikeHeader(Closing) /\ Closing.kind = "blank"
      /\ \A i \in 1..n : \A j \in 1..Len(DataOf(fonts[i])) :
                 /\ DataOf(fonts[i])[j].kind = "data"
                 /\ ~LooksLikeHeader(DataOf(fonts[i])[j])
  BY LineKinds
<1>7. /\ \A i \in 1..n : head[i] \in 1..Len(section) /\ section[head[i]] = Opening(fonts[i])
      /\ \A i, k \in 1..n : i < k => head[i] < head[k]
      /\ \A p \in 1..Len(section) :
            \E i \in 1..n :
               \/ p = head[i] \/ section[p] = Closing
               \/ \E j \in 1..Len(DataOf(fonts[i])) : section[p] = DataOf(fonts[i])[j]
  BY <1>2 DEF LaidOut
<1>8. ASSUME NEW p \in 1..Len(section) PROVE ~LooksLikeHeader(section[p])
  <2>1. PICK i \in 1..n :
           \/ p = head[i] \/ section[p] = Closing
           \/ \E j \in 1..Len(DataOf(fonts[i])) : section[p] = DataOf(fonts[i])[j]
    BY <1>7
  <2>2. section[head[i]] = Opening(fonts[i])
    BY <1>7
  <2> QED
    BY <1>6, <2>1, <2>2
<1>9. ASSUME NEW p \in 1..Len(section), section[p].kind = "fontname"
      PROVE  \E i \in 1..n : head[i] = p
  <2>1. PICK i \in 1..n :
           \/ p = head[i] \/ section[p] = Closing
           \/ \E j \in 1..Len(DataOf(fonts[i])) : section[p] = DataOf(fonts[i])[j]
    BY <1>7
  <2>2. section[p] # Closing
    BY <1>6, <1>9
  <2>3. \A j \in 1..Len(DataOf(fonts[i])) : section[p] # DataOf(fonts[i])[j]
    BY <1>6, <1>9
  <2> QED
    BY <2>1, <2>2, <2>3
<1>10. ASSUME NEW i \in 1..n
       PROVE  Reads(head[i]) /\ Found(head[i]) = fonts[i] /\ fonts[i] \in FoundFonts
  <2>1. head[i] \in 1..Len(section) /\ section[head[i]] = Opening(fonts[i])
    BY <1>7
  <2>2. fonts[i] \in FoundFonts
    BY ElementOfSeq
  <2>3. fonts[i].data \in Seq(Byte)
    BY <2>2 DEF FoundFonts
  <2>4. BlockChars(section, head[i]) = Encode(fonts[i].data)
    BY <1>1, <1>2, BlockRead
  <2>5. /\ Decodes(BlockChars(section, head[i]))
        /\ Decode(BlockChars(section, head[i])) = fonts[i].data
    BY <2>3, <2>4, RoundTrip
  <2>6. Inside(head[i])
    <3>1. \A h \in 1..head[i] : h \in 1..Len(section)
      BY <1>5, <2>1
    <3> QED
      BY <1>8, <3>1
  <2>7. section[head[i]].kind = "fontname"
    BY <1>6, <2>1
  <2>8. section[head[i]].family = fonts[i].family /\ section[head[i]].slot = fonts[i].slot
    BY <2>1 DEF Opening, FontLine
  <2>9. Found(head[i]) = fonts[i]
    BY <2>2, <2>5, <2>8 DEF FoundFonts
  <2> QED
    BY <2>2, <2>5, <2>6, <2>7, <2>9
<1>11. \A i \in 1..n : head[i] \in DOMAIN section /\ seqs[head[i]] = <<fonts[i]>>
  <2> HIDE DEF Reads, Found
  <2> QED
    BY <1>4, <1>5, <1>7, <1>10
<1>12. ASSUME NEW p \in DOMAIN section, \A i \in 1..n : head[i] # p PROVE seqs[p] = <<>>
  BY <1>4, <1>5, <1>9, <1>12
<1>13. seqs \in Seq(Seq(FoundFonts)) /\ Len(seqs) = Len(section)
  <2>1. ASSUME NEW p \in DOMAIN section PROVE seqs[p] \in Seq(FoundFonts)
    <3>1. CASE \E i \in 1..n : head[i] = p
      <4>1. PICK i \in 1..n : head[i] = p
        BY <3>1
      <4>2. seqs[p] = <<fonts[i]>> /\ fonts[i] \in FoundFonts
        BY <1>10, <1>11, <4>1
      <4> QED
        BY <4>2, SingletonSeq
    <3>2. CASE \A i \in 1..n : head[i] # p
      <4>1. seqs[p] = <<>>
        BY <1>12, <3>2
      <4>2. <<>> \in Seq(FoundFonts)
        OBVIOUS
      <4> QED
        BY <4>1, <4>2
    <3> QED
      BY <3>1, <3>2
  <2>2. DOMAIN seqs = DOMAIN section /\ seqs = [p \in DOMAIN section |-> seqs[p]]
    BY <1>4
  <2>3. seqs \in [1..Len(section) -> Seq(FoundFonts)]
    BY <1>5, <2>1, <2>2
  <2>4. seqs \in Seq(Seq(FoundFonts))
    BY <1>5, <2>3, PiecesOfSeq
  <2> QED
    BY <1>5, <2>2, <2>4, LenProperties
<1>14. FlattenSeq(seqs) = fonts
  <2>1. \A i \in 1..Len(fonts) : head[i] \in 1..Len(seqs) /\ seqs[head[i]] = <<fonts[i]>>
    BY <1>5, <1>11, <1>13
  <2>2. \A i, k \in 1..Len(fonts) : i < k => head[i] < head[k]
    BY <1>7
  <2>3. \A p \in 1..Len(seqs) : (\A i \in 1..Len(fonts) : head[i] # p) => seqs[p] = <<>>
    BY <1>5, <1>12, <1>13
  <2> HIDE DEF n
  <2> QED
    BY <1>13, <2>1, <2>2, <2>3, FlattenPicks
<1> QED
  BY <1>3, <1>14 DEF section

(* Choosing all elements of a sequence leaves it as it is.                     *)
LEMMA ThoseAll ==
    ASSUME NEW S, NEW seq \in Seq(S), NEW kept, \A x \in ToSet(seq) : x \in kept
    PROVE  Those(seq, kept) = seq
<1> DEFINE seqs == [i \in DOMAIN seq |-> IF seq[i] \in kept THEN <<seq[i]>> ELSE <<>>]
           at == [i \in 1..Len(seq) |-> i]
<1>1. /\ Len(seq) \in Nat /\ DOMAIN seq = 1..Len(seq)
      /\ \A i \in 1..Len(seq) : seq[i] \in S /\ seq[i] \in kept
  <2>1. Len(seq) \in Nat /\ DOMAIN seq = 1..Len(seq) /\ \A i \in 1..Len(seq) : seq[i] \in S
    BY LenProperties, ElementOfSeq
  <2>2. \A i \in DOMAIN seq : seq[i] \in ToSet(seq)
    BY DEF ToSet
  <2> QED
    BY <2>1, <2>2
<1>2. Those(seq, kept) = FlattenSeq(seqs)
  BY DEF Those
<1>3. seqs = [i \in 1..Len(seq) |-> <<seq[i]>>]
  BY <1>1
<1> HIDE DEF seqs
<1>4. \A i \in 1..Len(seq) : seqs[i] = <<seq[i]>> /\ at[i] = i
  BY <1>3
<1>5. seqs \in Seq(Seq(S)) /\ Len(seqs) = Len(seq)
  <2>1. \A i \in 1..Len(seq) : <<seq[i]>> \in Seq(S)
    BY <1>1
  <2>2. seqs \in [1..Len(seq) -> Seq(S)]
    BY <1>3, <2>1
  <2>3. seqs \in Seq(Seq(S)) /\ DOMAIN seqs = 1..Len(seq)
    BY <1>1, <2>2, PiecesOfSeq
  <2> QED
    BY <1>1, <2>3, LenProperties
<1> HIDE DEF at
<1>6. \A i \in 1..Len(seq) : at[i] \in 1..Len(seqs) /\ seqs[at[i]] = <<seq[i]>>
  BY <1>4, <1>5
<1>7. \A i, k \in 1..Len(seq) : i < k => at[i] < at[k]
  BY <1>4
<1>8. \A p \in 1..Len(seqs) : (\A i \in 1..Len(seq) : at[i] # p) => seqs[p] = <<>>
  BY <1>4, <1>5
<1>9. FlattenSeq(seqs) = seq
  BY <1>5, <1>6, <1>7, <1>8, FlattenPicks
<1> QED
  BY <1>2, <1>9

(* Stripping a subtitle that came with fonts, of which none was made here,     *)
(* keeps those no marker names.                                                *)
LEMMA StripKeepsForeign ==
    ASSUME text \in Documents, text = source, embedded = <<>>, SourceReadable,
           NEW failing, StripSubtitle(failing)
    PROVE  Foreign(text)' = Foreign(source)'
<1> DEFINE fonts == ParseFonts(text.section)
           Ours(f) == \/ \E c \in ToSet(text.comments) : Lookup(c.subset) = Lookup(f.family)
                      \/ Lookup(f.family) = Lookup(DrawName)
           kept == StripKept(text.comments, failing)
<1>1. /\ UNCHANGED <<source, embedded>>
      /\ \E found, map, draws : text' = Stripped(text, map, kept, draws)
  BY StripInParts
<1>2. /\ DOMAIN text = {"info", "comments", "styles", "section", "stray", "lines"}
      /\ text.section \in Seq(FontLines)
  BY TextAssumption DEF TextAssumption
<1>3. fonts \in Seq(FoundFonts)
  BY <1>2, FontsParsed
<1>4. \A d : MadeHere(d) = {} /\ SubsetMap(d) = {} /\ DrawEntries(d) = {}
  <2>1. \A d : MadeHere(d) = {}
    BY DEF MadeHere
  <2> QED
    BY <2>1, NothingMade
<1>5. \A f : Removable(f, text.comments, f.data \notin failing) <=> Ours(f)
  BY <1>4 DEF Removable
<1>6. kept = Those(fonts, {f \in ToSet(fonts) : ~Ours(f)})
  <2>1. {f \in ToSet(fonts) : ~Removable(f, text.comments, f.data \notin failing)}
          = {f \in ToSet(fonts) : ~Ours(f)}
    BY <1>5
  <2> QED
    BY <2>1 DEF StripKept
<1>7. \A d : MadeHere(d)' = {}
  BY <1>1, <1>4 DEF MadeHere
<1> DEFINE Others(read) == {f \in ToSet(read) :
                              /\ MadeHere(f.data)' = {}
                              /\ Lookup(f.family) # Lookup(DrawName)
                              /\ \A c \in ToSet(source'.comments) : Lookup(c.subset) # Lookup(f.family)}
<1>a. ASSUME NEW read PROVE Others(read) = {f \in ToSet(read) : ~Ours(f)}
  BY <1>1, <1>7
<1>b. /\ Foreign(source)' = Those(ParseFonts(source'.section), Others(ParseFonts(source'.section)))
      /\ Foreign(text)' = Those(ParseFonts(text'.section), Others(ParseFonts(text'.section)))
  BY DEF Foreign
<1> HIDE DEF Others
<1> HIDE DEF Ours
<1>8. kept \in Seq(FoundFonts) /\ \A f \in ToSet(kept) : f \in ToSet(fonts) /\ ~Ours(f)
  <2> HIDE DEF fonts, kept
  <2> QED
    BY <1>3, <1>6, ThoseElements
<1>9. text'.section = FontSection(kept)
  BY <1>1, <1>2 DEF Stripped
<1>10. ParseFonts(text'.section) = kept
  <2>1. \A f \in ToSet(fonts) : Readable(f)
    BY DEF SourceReadable
  <2> HIDE DEF fonts, kept
  <2>2. \A f \in ToSet(kept) : Readable(f)
    BY <1>8, <2>1
  <2> QED
    BY <1>8, <1>9, <2>2, SectionReadsBack
<1> HIDE DEF kept
<1>11. Those(kept, {f \in ToSet(kept) : ~Ours(f)}) = kept
  <2>1. \A f \in ToSet(kept) : f \in {g \in ToSet(kept) : ~Ours(g)}
    BY <1>8
  <2> QED
    BY <1>8, <2>1, ThoseAll
<1>12. Foreign(source)' = kept
  <2>1. Foreign(source)' = Those(fonts, Others(fonts))
    BY <1>1, <1>b
  <2> HIDE DEF fonts
  <2> QED
    BY <1>6, <1>a, <2>1
<1>13. Foreign(text)' = kept
  BY <1>10, <1>11, <1>a, <1>b
<1> QED
  BY <1>12, <1>13

(* Only a subtitle without fonts was converted. *)
ConvertedBare == stage = "converted" => ~HasFonts(source)

(* Stripping keeps the fonts that are not ours, as they are and in order, also *)
(* when inspecting some of them fails.                                         *)
THEOREM ForeignFontsAreKept == Spec => []ForeignFontsStay
<1>1. Init => LoopInv /\ ConvertedBare /\ ForeignFontsStay
  BY InitLoop DEF Init, ConvertedBare, ForeignFontsStay
<1>2. LoopInv /\ [Next]_vars => LoopInv'
  BY LoopKept
<1>3. LoopInv /\ ConvertedBare /\ ForeignFontsStay /\ [Next]_vars
      => ConvertedBare' /\ ForeignFontsStay'
  <2> SUFFICES ASSUME LoopInv, ConvertedBare, ForeignFontsStay, [Next]_vars
               PROVE  ConvertedBare' /\ ForeignFontsStay'
    OBVIOUS
  <2>1. CASE \E failing \in SUBSET {f.data : f \in ToSet(ParseFonts(text.section))} :
                StripSubtitle(failing)
    <3>1. PICK failing : StripSubtitle(failing)
      BY <2>1
    <3>2. stage \in {"idle", "converted"} /\ stage' = "stripped" /\ UNCHANGED <<source, embedded>>
      BY <3>1, StripInParts
    <3>3. HasFonts(source)' = HasFonts(source) /\ SourceReadable' = SourceReadable
      BY <3>2 DEF HasFonts, HasMarker, Names, SourceReadable, Readable
    <3>4. ASSUME HasFonts(source), SourceReadable PROVE Foreign(text)' = Foreign(source)'
      <4>1. stage = "idle"
        BY <3>2, <3>4 DEF ConvertedBare
      <4>2. text = source /\ embedded = <<>> /\ text \in Documents
        BY <4>1 DEF LoopInv
      <4> QED
        BY <3>1, <3>4, <4>2, StripKeepsForeign
    <3> QED
      BY <3>2, <3>3, <3>4 DEF ConvertedBare, ForeignFontsStay
  <2>2. CASE Done \/ UNCHANGED vars
    <3>1. UNCHANGED vars
      BY <2>2 DEF Done
    <3>2. /\ HasFonts(source)' = HasFonts(source) /\ SourceReadable' = SourceReadable
          /\ Foreign(text)' = Foreign(text) /\ Foreign(source)' = Foreign(source)
      BY <3>1 DEF vars, HasFonts, HasMarker, Names, SourceReadable, Readable, Foreign, MadeHere
    <3> QED
      BY <3>1, <3>2 DEF vars, ConvertedBare, ForeignFontsStay
  <2>3. CASE ReadSubtitle
    BY <2>3 DEF ReadSubtitle, ConvertedBare, ForeignFontsStay
  <2>4. CASE \E font \in todo : EmbedFont(font)
    BY <2>4 DEF EmbedFont, ConvertedBare, ForeignFontsStay
  <2>5. CASE WorkerFails
    BY <2>5 DEF WorkerFails, ConvertedBare, ForeignFontsStay
  <2>6. CASE WriteSubset
    <3>1. stage = "fonts" /\ stage' = "converted" /\ source' = source
      BY <2>6 DEF WriteSubset, Unchanged
    <3>2. ~HasFonts(source)
      BY <3>1 DEF LoopInv
    <3>3. HasFonts(source)' = HasFonts(source)
      BY <3>1 DEF HasFonts, HasMarker, Names
    <3> QED
      BY <3>1, <3>2, <3>3 DEF ConvertedBare, ForeignFontsStay
  <2> QED
    BY <2>1, <2>2, <2>3, <2>4, <2>5, <2>6 DEF Next
<1> QED
  BY <1>1, <1>2, <1>3, PTL DEF Spec

-------------------------------------------------------------------------------
(* Which atoms of a line its rewriting comes from.                             *)

(* The atom is the glyph of the drawing. *)
StandsFor(atom, entries, data) ==
    \E e \in DOMAIN entries : atom = Ch(Glyph(e)) /\ entries[e] = data

(* off[k] atoms have been read when the k-th is written: an atom of the line,  *)
(* the block before a glyph, or the glyph, which stands for the atoms its      *)
(* block has read.                                                             *)
TracedAt(out, atoms, entries, off, k) ==
    \/ /\ ~UsesDrawName(out[k]) /\ (k > 1 => ~UsesDrawName(out[k - 1]))
       /\ off[k] = off[k - 1] + 1 /\ out[k] = atoms[off[k]]
    \/ /\ out[k] = DrawBlock /\ k < Len(out) /\ off[k - 1] < off[k]
       /\ StandsFor(out[k + 1], entries, SubSeq(atoms, off[k - 1] + 1, off[k]))
    \/ k > 1 /\ UsesDrawName(out[k - 1]) /\ ~UsesDrawName(out[k]) /\ off[k] = off[k - 1]
Traced(out, atoms, entries, off) ==
    /\ off \in [0..Len(out) -> 0..Len(atoms)] /\ off[0] = 0
    /\ \A k \in 1..Len(out) : TracedAt(out, atoms, entries, off, k)

(* Drawings only come in addition. *)
Grown(entries, entries2) == \A e \in DOMAIN entries : e \in DOMAIN entries2 /\ entries2[e] = entries[e]

(* Additions to additions. *)
LEMMA GrownFurther ==
    ASSUME NEW d, NEW e, NEW f, Grown(d, e), Grown(e, f) PROVE Grown(d, f)
BY DEF Grown

(* A drawing is among the entries once its glyph is written, and none is gone. *)
LEMMA EntryStands ==
    ASSUME NEW entries \in Seq(Seq(Atoms)), NEW data \in Seq(Atoms), NEW new,
           new = IF data \in ToSet(entries) THEN entries ELSE Append(entries, data)
    PROVE  /\ EntryOf(new, data) \in DOMAIN new /\ new[EntryOf(new, data)] = data
           /\ Grown(entries, new)
<1>1. CASE data \in ToSet(entries)
  <2>1. \E k \in DOMAIN new : new[k] = data
    BY <1>1 DEF ToSet
  <2> QED
    BY <1>1, <2>1 DEF EntryOf, Grown
<1>2. CASE data \notin ToSet(entries)
  <2> DEFINE longer == Append(entries, data)
  <2>1. /\ longer \in Seq(Seq(Atoms)) /\ Len(longer) = Len(entries) + 1
        /\ longer[Len(entries) + 1] = data
        /\ \A k \in 1..Len(entries) : longer[k] = entries[k]
    BY AppendProperties
  <2>2. Len(entries) \in Nat /\ DOMAIN longer = 1..Len(longer) /\ DOMAIN entries = 1..Len(entries)
    BY <2>1, LenProperties
  <2>3. new = longer
    BY <1>2
  <2> HIDE DEF longer
  <2>4. \E k \in DOMAIN new : new[k] = data
    BY <2>1, <2>2, <2>3
  <2>5. Grown(entries, new)
    BY <2>1, <2>2, <2>3 DEF Grown
  <2> QED
    BY <2>4, <2>5 DEF EntryOf
<1> QED
  BY <1>1, <1>2

(* The last atom written is not a block that waits for its glyph. *)
LEMMA LastIsPlain ==
    ASSUME NEW out, NEW atoms, NEW entries, NEW off, Len(out) \in Nat \ {0},
           Traced(out, atoms, entries, off)
    PROVE  ~UsesDrawName(out[Len(out)])
<1>1. TracedAt(out, atoms, entries, off, Len(out))
  <2>1. Len(out) \in 1..Len(out)
    OBVIOUS
  <2> QED
    BY <2>1 DEF Traced
<1> QED
  BY <1>1 DEF TracedAt

(* A glyph stays a glyph when drawings are added. *)
LEMMA StandsStill ==
    ASSUME NEW atom, NEW entries, NEW entries2, Grown(entries, entries2), NEW data,
           StandsFor(atom, entries, data)
    PROVE  StandsFor(atom, entries2, data)
BY DEF StandsFor, Grown

(* What was written is traced as before when more is written.                  *)
LEMMA TraceGrows ==
    ASSUME NEW out \in Seq(Atoms), NEW atoms \in Seq(Atoms), NEW entries, NEW off,
           Traced(out, atoms, entries, off), NEW entries2, Grown(entries, entries2),
           NEW out2 \in Seq(Atoms), Len(out) <= Len(out2),
           \A k \in 1..Len(out) : out2[k] = out[k],
           NEW off2 \in [0..Len(out2) -> 0..Len(atoms)],
           \A k \in 0..Len(out) : off2[k] = off[k],
           \A k \in Len(out) + 1..Len(out2) : TracedAt(out2, atoms, entries2, off2, k)
    PROVE  Traced(out2, atoms, entries2, off2)
<1>1. Len(out) \in Nat /\ Len(out2) \in Nat
  BY LenProperties
<1>2. ASSUME NEW k \in 1..Len(out) PROVE TracedAt(out2, atoms, entries2, off2, k)
  <2>1. TracedAt(out, atoms, entries, off, k)
    BY DEF Traced
  <2>2. /\ out2[k] = out[k] /\ off2[k] = off[k] /\ k - 1 \in 0..Len(out) /\ off2[k - 1] = off[k - 1]
        /\ k > 1 => out2[k - 1] = out[k - 1]
        /\ k < Len(out) => out2[k + 1] = out[k + 1] /\ k < Len(out2)
    BY <1>1
  <2>3. \A atom, data : StandsFor(atom, entries, data) => StandsFor(atom, entries2, data)
    BY StandsStill
  <2> QED
    BY <2>1, <2>2, <2>3 DEF TracedAt
<1>3. off2[0] = 0
  BY <1>1 DEF Traced
<1> QED
  BY <1>1, <1>2, <1>3 DEF Traced

(* All that was read of a line, up to the end of a drawing, is in what was     *)
(* written.                                                                    *)
TracedTo(acc, atoms, i) ==
    /\ acc.upto \in 0..Len(atoms)
    /\ \E off : /\ Traced(acc.out, atoms, acc.entries, off)
                /\ off[Len(acc.out)] = IF acc.upto > i THEN acc.upto ELSE i

(* One more atom read keeps it so. *)
LEMMA RewriteTraces ==
    ASSUME NEW atoms \in Seq(Atoms), \A k \in DOMAIN atoms : ~UsesDrawName(atoms[k]),
           NEW i \in 1..Len(atoms), NEW j \in Nat, i = j + 1,
           NEW acc \in DrawStates, TracedTo(acc, atoms, j)
    PROVE  /\ TracedTo(RewriteAtom(acc, atoms, i), atoms, i)
           /\ Grown(acc.entries, RewriteAtom(acc, atoms, i).entries)
<1> DEFINE end  == DrawingEnd(atoms, i)
           data == SubSeq(atoms, i, end)
           new  == IF data \in ToSet(acc.entries) THEN acc.entries ELSE Append(acc.entries, data)
           glyph == Ch(Glyph(EntryOf(new, data)))
           pair == <<DrawBlock, glyph>>
           next == RewriteAtom(acc, atoms, i)
           o == acc.out
           old == acc.entries
<1>1. o \in Seq(Atoms) /\ old \in Seq(Seq(Atoms)) /\ acc.upto \in Int /\ Len(o) \in Nat /\ i \in Nat
      /\ Len(atoms) \in Nat /\ DOMAIN atoms = 1..Len(atoms)
  BY LenProperties DEF DrawStates
<1>2. PICK off : Traced(o, atoms, old, off) /\ off[Len(o)] = IF acc.upto > j THEN acc.upto ELSE j
  BY DEF TracedTo
<1>3. acc.upto \in 0..Len(atoms) /\ off \in [0..Len(o) -> 0..Len(atoms)]
  BY <1>2 DEF TracedTo, Traced
<1>4. CASE i <= acc.upto
  <2>1. next = acc
    BY <1>4 DEF RewriteAtom
  <2>2. (IF acc.upto > j THEN acc.upto ELSE j) = (IF acc.upto > i THEN acc.upto ELSE i)
    BY <1>1, <1>4
  <2>3. TracedTo(acc, atoms, i)
    BY <1>2, <1>3, <2>2 DEF TracedTo
  <2> HIDE DEF next
  <2> QED
    BY <2>1, <2>3 DEF Grown, next
<1>5. CASE ~(i <= acc.upto)
  <2>0. off[Len(o)] = j /\ ~(acc.upto > i)
    BY <1>1, <1>2, <1>5
  <2>1. ASSUME NEW out2 \in Seq(Atoms), NEW entries2, Grown(old, entries2),
               Len(o) <= Len(out2), \A k \in 1..Len(o) : out2[k] = o[k],
               NEW off2 \in [0..Len(out2) -> 0..Len(atoms)], \A k \in 0..Len(o) : off2[k] = off[k],
               \A k \in Len(o) + 1..Len(out2) : TracedAt(out2, atoms, entries2, off2, k)
        PROVE  Traced(out2, atoms, entries2, off2)
    <3> HIDE DEF o, old
    <3> QED
      BY <1>1, <1>2, <2>1, TraceGrows
  <2>2. Len(o) > 0 => ~UsesDrawName(o[Len(o)])
    <3> HIDE DEF o, old
    <3> QED
      BY <1>1, <1>2, LastIsPlain
  <2>3. CASE DrawingLevel(atoms[i]) \in 1..15 /\ end # 0
    <3>1. end \in i + 1..Len(atoms) /\ data \in Seq(Atoms)
      BY <2>3, EndFound
    <3>2. /\ EntryOf(new, data) \in DOMAIN new /\ new[EntryOf(new, data)] = data /\ Grown(old, new)
          /\ EntryOf(new, data) \in Nat
      <4>1. new = IF data \in ToSet(old) THEN old ELSE Append(old, data)
        OBVIOUS
      <4> HIDE DEF data, new, old
      <4> QED
        BY <1>1, <3>1, <4>1, EntryStands, EntryFound
    <3>3. glyph \in Atoms /\ StandsFor(glyph, new, data) /\ ~UsesDrawName(glyph)
      <4>1. glyph.tags = <<>>
        BY DEF Ch
      <4>2. DOMAIN glyph.tags = {}
        BY <4>1
      <4> HIDE DEF new, data
      <4> QED
        BY <3>2, <4>2, GlyphIsAnAtom DEF StandsFor, UsesDrawName
    <3>4. next.out = o \o pair /\ next.entries = new /\ next.upto = end
      BY <1>5, <2>3 DEF RewriteAtom
    <3> HIDE DEF new, end, next, glyph, old, data
    <3>5. pair \in Seq(Atoms) /\ Len(pair) = 2 /\ pair[1] = DrawBlock /\ pair[2] = glyph
      BY <3>3, DrawBlockIsAnAtom, PairOfSeq
    <3> HIDE DEF pair, o
    <3> DEFINE out2 == o \o pair
               off2 == [k \in 0..Len(out2) |-> IF k <= Len(o) THEN off[k] ELSE end]
    <3>6. /\ out2 \in Seq(Atoms) /\ Len(out2) = Len(o) + 2
          /\ \A k \in 1..Len(o) : out2[k] = o[k]
          /\ out2[Len(o) + 1] = DrawBlock /\ out2[Len(o) + 2] = glyph
      <4>1. out2 \in Seq(Atoms) /\ out2 = o \o pair
        BY <1>1, <3>5, ConcatProperties
      <4> HIDE DEF out2
      <4>2. Len(out2) = Len(o) + Len(pair)
            /\ (\A k \in 1..Len(o) : out2[k] = o[k]) /\ (\A k \in 1..Len(pair) : out2[Len(o) + k] = pair[k])
        <5> HIDE DEF off2
        <5>1. o \in Seq(Atoms) /\ pair \in Seq(Atoms)
          BY <1>1, <3>5
        <5> QED
          BY <4>1, <5>1, ConcatOrder
      <4>3. 1 \in 1..Len(pair) /\ 2 \in 1..Len(pair)
        BY <3>5
      <4> QED
        BY <3>5, <4>1, <4>2, <4>3
    <3> HIDE DEF out2
    <3>7. off2 \in [0..Len(out2) -> 0..Len(atoms)] /\ (\A k \in 0..Len(o) : off2[k] = off[k])
          /\ off2[Len(o) + 1] = end /\ off2[Len(o) + 2] = end
      BY <1>1, <1>3, <3>1, <3>6
    <3> HIDE DEF off2
    <3>8. off2[Len(o)] = j
      <4>1. Len(o) \in 0..Len(o)
        BY <1>1
      <4> QED
        BY <2>0, <3>7, <4>1
    <3>9. TracedAt(out2, atoms, new, off2, Len(o) + 1)
      <4>1. (Len(o) + 1) - 1 = Len(o) /\ (Len(o) + 1) + 1 = Len(o) + 2 /\ Len(o) + 1 < Len(out2)
        BY <1>1, <3>6
      <4>2. j < end
        BY <3>1
      <4>3. StandsFor(glyph, new, SubSeq(atoms, j + 1, end))
        BY <3>3 DEF data
      <4> QED
        BY <3>6, <3>7, <3>8, <4>1, <4>2, <4>3 DEF TracedAt
    <3>10. TracedAt(out2, atoms, new, off2, Len(o) + 2)
      <4>1. (Len(o) + 2) - 1 = Len(o) + 1 /\ Len(o) + 2 > 1
        BY <1>1
      <4> QED
        BY <3>3, <3>6, <3>7, <4>1, DrawBlockIsAnAtom DEF TracedAt
    <3>11. Traced(out2, atoms, new, off2)
      <4>1. \A k \in Len(o) + 1..Len(out2) : k = Len(o) + 1 \/ k = Len(o) + 2
        BY <1>1, <3>6
      <4>2. Len(o) <= Len(out2)
        BY <1>1, <3>6
      <4> QED
        BY <2>1, <3>2, <3>6, <3>7, <3>9, <3>10, <4>1, <4>2
    <3>12. off2[Len(out2)] = IF end > i THEN end ELSE i
      BY <3>1, <3>6, <3>7
    <3>13. end \in 0..Len(atoms)
      BY <1>1, <3>1
    <3> QED
      BY <3>2, <3>4, <3>11, <3>12, <3>13 DEF TracedTo, next, out2, old
  <2>4. CASE ~(DrawingLevel(atoms[i]) \in 1..15 /\ end # 0)
    <3>1. next = [acc EXCEPT !.out = Append(@, atoms[i])]
      BY <1>5, <2>4 DEF RewriteAtom
    <3>2. next.out = Append(o, atoms[i]) /\ next.upto = acc.upto /\ next.entries = old
      BY <3>1 DEF DrawStates
    <3>3. atoms[i] \in Atoms /\ ~UsesDrawName(atoms[i])
      BY <1>1, ElementOfSeq
    <3> DEFINE a == atoms[i]
               out2 == Append(o, a)
               off2 == [k \in 0..Len(out2) |-> IF k <= Len(o) THEN off[k] ELSE i]
    <3>a. a \in Atoms /\ ~UsesDrawName(a)
      BY <3>3
    <3> HIDE DEF next, o, old, end, a
    <3>4. /\ out2 \in Seq(Atoms) /\ Len(out2) = Len(o) + 1
          /\ \A k \in 1..Len(o) : out2[k] = o[k]
          /\ out2[Len(o) + 1] = a
      BY <1>1, <3>a, AppendProperties
    <3> HIDE DEF out2
    <3>5. off2 \in [0..Len(out2) -> 0..Len(atoms)] /\ (\A k \in 0..Len(o) : off2[k] = off[k])
          /\ off2[Len(o) + 1] = i
      BY <1>1, <1>3, <3>4
    <3> HIDE DEF off2
    <3>6. TracedAt(out2, atoms, old, off2, Len(o) + 1)
      <4>1. (Len(o) + 1) - 1 = Len(o) /\ (Len(o) + 1 > 1 => Len(o) > 0)
        BY <1>1
      <4>0. Len(o) \in 0..Len(o) /\ (Len(o) > 0 => Len(o) \in 1..Len(o))
        BY <1>1
      <4>2. off2[Len(o)] = j
        BY <2>0, <3>5, <4>0
      <4>3. Len(o) > 0 => ~UsesDrawName(out2[Len(o)])
        BY <2>2, <3>4, <4>0
      <4> QED
        BY <3>a, <3>4, <3>5, <4>1, <4>2, <4>3 DEF TracedAt, a
    <3>7. Traced(out2, atoms, old, off2)
      <4>1. \A k \in Len(o) + 1..Len(out2) : k = Len(o) + 1
        BY <1>1, <3>4
      <4>2. Len(o) <= Len(out2) /\ Grown(old, old)
        BY <1>1, <3>4 DEF Grown
      <4> QED
        BY <2>1, <3>4, <3>5, <3>6, <4>1, <4>2
    <3>8. off2[Len(out2)] = IF acc.upto > i THEN acc.upto ELSE i
      BY <2>0, <3>4, <3>5
    <3> QED
      BY <1>3, <3>2, <3>7, <3>8 DEF TracedTo, next, out2, Grown, old, a
  <2> QED
    BY <2>3, <2>4
<1> QED
  BY <1>4, <1>5

(* All of a line is in what its rewriting wrote. *)
AllTraced(out, atoms, entries) ==
    \E off : Traced(out, atoms, entries, off) /\ off[Len(out)] = Len(atoms)

(* So it is when the line has been rewritten, and no known drawing is lost. *)
LEMMA LineTraced ==
    ASSUME NEW atoms \in Seq(Atoms), \A k \in DOMAIN atoms : ~UsesDrawName(atoms[k]),
           NEW known \in Seq(Seq(Atoms))
    PROVE  LET acc == RewriteDrawings(atoms, known)
           IN  AllTraced(acc.out, atoms, acc.entries) /\ Grown(known, acc.entries)
<1> DEFINE n == Len(atoms)
           start == [out |-> <<>>, entries |-> known, upto |-> 0]
<1>1. n \in Nat
  BY LenProperties
<1>2. PICK f \in [0..n -> DrawStates] :
         IsRewriting(f, atoms, known) /\ RewriteDrawings(atoms, known) = f[n]
  BY RewritingDone
<1>3. f[0] = start /\ \A i \in 1..n : f[i] = RewriteAtom(f[i - 1], atoms, i)
  BY <1>2 DEF IsRewriting
<1> DEFINE Good == {i \in 0..n : TracedTo(f[i], atoms, i) /\ Grown(known, f[i].entries)}
<1>4. 0 \in Good
  <2> DEFINE off == [k \in 0..0 |-> 0]
  <2>1. start.out = <<>> /\ start.entries = known /\ start.upto = 0 /\ Len(<<>>) = 0
    OBVIOUS
  <2>2. off \in [0..0 -> 0..n] /\ off[0] = 0
    BY <1>1
  <2> HIDE DEF off
  <2>3. Traced(<<>>, atoms, known, off)
    BY <2>1, <2>2 DEF Traced
  <2> HIDE DEF start
  <2>4. TracedTo(start, atoms, 0)
    BY <1>1, <2>1, <2>2, <2>3 DEF TracedTo
  <2>5. Grown(known, start.entries)
    BY <2>1 DEF Grown
  <2> QED
    BY <1>1, <1>3, <2>4, <2>5
<1> HIDE DEF n, start
<1>5. ASSUME NEW i \in 1..n, i - 1 \in Good PROVE i \in Good
  <2>1. PICK j \in Nat : i = j + 1 /\ i - 1 = j
    BY <1>1
  <2> DEFINE a == f[j]
  <2>2. a \in DrawStates /\ TracedTo(a, atoms, j) /\ Grown(known, a.entries)
        /\ f[i] = RewriteAtom(a, atoms, i)
    BY <1>1, <1>3, <1>5, <2>1
  <2> HIDE DEF a, Good
  <2>3. TracedTo(RewriteAtom(a, atoms, i), atoms, i) /\ Grown(a.entries, RewriteAtom(a, atoms, i).entries)
    BY <2>1, <2>2, RewriteTraces DEF n
  <2>4. Grown(known, f[i].entries)
    BY <2>2, <2>3, GrownFurther
  <2> QED
    BY <2>2, <2>3, <2>4 DEF Good
<1> HIDE DEF Good
<1>6. \A i \in 0..n : i \in Good
  BY <1>1, <1>4, <1>5, UpTo
<1>7. TracedTo(f[n], atoms, n) /\ Grown(known, f[n].entries)
  <2>1. n \in 0..n
    BY <1>1
  <2> QED
    BY <1>6, <2>1 DEF Good
<1> DEFINE acc == f[n]
<1>a. TracedTo(acc, atoms, n)
  BY <1>7
<1> HIDE DEF acc
<1>8. AllTraced(acc.out, atoms, acc.entries)
  <2>1. acc.upto \in 0..n
    BY <1>a DEF TracedTo, n
  <2>2. (IF acc.upto > n THEN acc.upto ELSE n) = n
    BY <1>1, <2>1
  <2> QED
    BY <1>a, <2>2 DEF TracedTo, AllTraced, n
<1> QED
  BY <1>2, <1>7, <1>8 DEF acc

(* What stands for a drawing still does when there are more of them. *)
LEMMA TraceStays ==
    ASSUME NEW out \in Seq(Atoms), NEW atoms \in Seq(Atoms), NEW entries, NEW entries2,
           Grown(entries, entries2), AllTraced(out, atoms, entries)
    PROVE  AllTraced(out, atoms, entries2)
<1>1. PICK off : Traced(out, atoms, entries, off) /\ off[Len(out)] = Len(atoms)
  BY DEF AllTraced
<1>2. Len(out) \in Nat /\ off \in [0..Len(out) -> 0..Len(atoms)]
  BY <1>1, LenProperties DEF Traced
<1>3. \A k \in Len(out) + 1..Len(out) : FALSE
  BY <1>2
<1>4. Traced(out, atoms, entries2, off)
  BY <1>1, <1>2, <1>3, TraceGrows
<1> QED
  BY <1>1, <1>4 DEF AllTraced

(* A line without drawings is all of itself. *)
LEMMA LineAllItself ==
    ASSUME NEW atoms \in Seq(Atoms), \A k \in DOMAIN atoms : ~UsesDrawName(atoms[k]), NEW entries
    PROVE  AllTraced(atoms, atoms, entries)
<1> DEFINE n == Len(atoms)
           off == [k \in 0..n |-> k]
<1>1. n \in Nat /\ DOMAIN atoms = 1..n
  BY LenProperties
<1>2. off \in [0..n -> 0..n] /\ \A k \in 0..n : off[k] = k
  OBVIOUS
<1> HIDE DEF off, n
<1>3. ASSUME NEW k \in 1..n PROVE TracedAt(atoms, atoms, entries, off, k)
  <2>1. k \in 0..n /\ k - 1 \in 0..n /\ (k > 1 => k - 1 \in 1..n)
    BY <1>1
  <2>2. ~UsesDrawName(atoms[k]) /\ (k > 1 => ~UsesDrawName(atoms[k - 1]))
    BY <1>1, <2>1
  <2>3. off[k] = off[k - 1] + 1 /\ atoms[k] = atoms[off[k]]
    BY <1>2, <2>1
  <2> QED
    BY <2>2, <2>3 DEF TracedAt
<1>4. n \in 0..n /\ 0 \in 0..n
  BY <1>1
<1>5. Traced(atoms, atoms, entries, off) /\ off[n] = n
  BY <1>2, <1>3, <1>4 DEF Traced, n
<1> QED
  BY <1>5 DEF AllTraced, n

(* A rewritten line is the line with other atoms, in which all of it is.       *)
TracedLine(line2, line, entries) ==
    \E out \in Seq(Atoms) :
        line2 = [line EXCEPT !.atoms = out] /\ AllTraced(out, line.atoms, entries)

(* All lines are, with the drawings of all. *)
LEMMA LinesTraced ==
    ASSUME NEW lines \in Seq(Lines),
           \A i \in DOMAIN lines : \A k \in DOMAIN lines[i].atoms : ~UsesDrawName(lines[i].atoms[k])
    PROVE  \A i \in DOMAIN lines :
              TracedLine(DrawingsAsFont(lines).lines[i], lines[i], DrawingsAsFont(lines).entries)
<1> DEFINE n == Len(lines)
<1>1. n \in Nat /\ DOMAIN lines = 1..n /\ \A i \in 1..n : lines[i] \in Lines
  BY LenProperties, ElementOfSeq
<1>2. PICK known \in [0..n -> Seq(Seq(Atoms))] :
         /\ IsKnown(known, lines)
         /\ DrawingsAsFont(lines).entries = known[n]
         /\ \A i \in DOMAIN lines :
               DrawingsAsFont(lines).lines[i] =
                  [lines[i] EXCEPT !.atoms = RewriteDrawings(@, known[i - 1]).out]
  BY DrawingsKnown
<1>3. \A i \in 1..n : known[i] = RewriteDrawings(lines[i].atoms, known[i - 1]).entries
  BY <1>2 DEF IsKnown
<1> HIDE DEF n
<1>4. ASSUME NEW i \in 1..n
      PROVE  LET acc == RewriteDrawings(lines[i].atoms, known[i - 1])
             IN  /\ AllTraced(acc.out, lines[i].atoms, known[i]) /\ Grown(known[i - 1], known[i])
                 /\ acc.out \in Seq(Atoms) /\ lines[i].atoms \in Seq(Atoms)
  <2> DEFINE atoms == lines[i].atoms
             before == known[i - 1]
             acc == RewriteDrawings(atoms, before)
  <2>1. before \in Seq(Seq(Atoms)) /\ known[i] = acc.entries
    BY <1>1, <1>3
  <2>2. atoms \in Seq(Atoms) /\ \A k \in DOMAIN atoms : ~UsesDrawName(atoms[k])
    BY <1>1 DEF Lines
  <2> HIDE DEF atoms, before
  <2>3. acc \in DrawStates /\ AllTraced(acc.out, atoms, acc.entries) /\ Grown(before, acc.entries)
    BY <2>1, <2>2, LineTraced, DrawingsRewritten
  <2> HIDE DEF acc
  <2>4. acc.out \in Seq(Atoms)
    BY <2>3 DEF DrawStates
  <2> QED
    BY <2>1, <2>2, <2>3, <2>4 DEF acc, atoms, before
<1> DEFINE Good == {m \in 0..n : \A i \in 0..m : Grown(known[i], known[m])}
<1>5. 0 \in Good
  BY <1>1 DEF Grown
<1>6. ASSUME NEW m \in 1..n, m - 1 \in Good PROVE m \in Good
  <2>1. Grown(known[m - 1], known[m])
    BY <1>4
  <2>2. \A i \in 0..m - 1 : Grown(known[i], known[m - 1])
    BY <1>6
  <2>3. ASSUME NEW i \in 0..m PROVE Grown(known[i], known[m])
    <3>1. CASE i = m
      BY <3>1 DEF Grown
    <3>2. CASE i # m
      <4>1. i \in 0..m - 1
        BY <1>1, <3>2
      <4> QED
        BY <2>1, <2>2, <4>1, GrownFurther
    <3> QED
      BY <3>1, <3>2
  <2> QED
    BY <1>1, <2>3
<1> HIDE DEF Good
<1>7. \A m \in 0..n : m \in Good
  BY <1>1, <1>5, <1>6, UpTo
<1>8. \A i \in 0..n : Grown(known[i], known[n])
  <2>1. n \in 0..n
    BY <1>1
  <2> QED
    BY <1>7, <2>1 DEF Good
<1>9. ASSUME NEW i \in 1..n
      PROVE  TracedLine(DrawingsAsFont(lines).lines[i], lines[i], known[n])
  <2> DEFINE out == RewriteDrawings(lines[i].atoms, known[i - 1]).out
  <2>1. DrawingsAsFont(lines).lines[i] = [lines[i] EXCEPT !.atoms = out]
    BY <1>1, <1>2
  <2>2. out \in Seq(Atoms) /\ AllTraced(out, lines[i].atoms, known[i]) /\ lines[i].atoms \in Seq(Atoms)
    BY <1>4
  <2>3. Grown(known[i], known[n])
    BY <1>1, <1>8
  <2> HIDE DEF out
  <2>4. AllTraced(out, lines[i].atoms, known[n])
    BY <2>2, <2>3, TraceStays
  <2> QED
    BY <2>1, <2>2, <2>4 DEF TracedLine
<1> QED
  BY <1>1, <1>2, <1>9

-------------------------------------------------------------------------------
(* Putting the drawings back.                                                  *)

(* draws gives for each glyph the drawing it stands for. *)
DrawsFor(draws, entries) ==
    /\ DOMAIN draws = {Glyph(e) : e \in DOMAIN entries}
    /\ \A e \in DOMAIN entries : draws[Glyph(e)] = entries[e]

(* back is out with other names, none of which hides or makes a glyph. *)
Renamings(back, out) ==
    /\ back \in Seq(Atoms) /\ Len(back) = Len(out)
    /\ \A k \in 1..Len(out) : /\ back[k].kind = out[k].kind /\ back[k].ch = out[k].ch
                              /\ UsesDrawName(back[k]) <=> UsesDrawName(out[k])

(* A part of a sequence, from behind x to y. *)
LEMMA PartOfSeq ==
    ASSUME NEW S, NEW s \in Seq(S), NEW x \in 0..Len(s), NEW y \in 0..Len(s), x < y
    PROVE  LET part == SubSeq(s, x + 1, y)
           IN  part \in Seq(S) /\ Len(part) = y - x /\ \A j \in 1..Len(part) : part[j] = s[x + j]
<1>1. Len(s) \in Nat /\ \A k \in 1..Len(s) : s[k] \in S
  BY LenProperties, ElementOfSeq
<1> DEFINE a == x + 1
<1>2. a \in Int /\ y \in Int /\ a \in 1..Len(s) + 1 /\ y \in 0..Len(s) /\ a <= y
  BY <1>1
<1>3. \A k \in a..y : s[k] \in S
  BY <1>1, <1>2
<1>4. y - a + 1 = y - x /\ \A j \in Nat : a + j - 1 = x + j
  BY <1>1
<1> HIDE DEF a
<1>5. /\ SubSeq(s, a, y) \in Seq(S) /\ Len(SubSeq(s, a, y)) = y - a + 1
      /\ \A j \in 1..y - a + 1 : SubSeq(s, a, y)[j] = s[a + j - 1]
  BY <1>1, <1>2, <1>3, SubSeqProperties
<1>6. \A j \in 1..y - x : SubSeq(s, a, y)[j] = s[x + j]
  <2>1. 1..y - x \subseteq Nat
    BY <1>1
  <2> QED
    BY <1>4, <1>5, <2>1
<1> QED
  BY <1>4, <1>5, <1>6 DEF a

(* Without the glyphs, a line is as it was, up to other names. *)
LEMMA DrawingsRestored ==
    ASSUME NEW atoms \in Seq(Atoms), NEW out \in Seq(Atoms), NEW entries \in Seq(Seq(Atoms)),
           AllTraced(out, atoms, entries), NEW back, Renamings(back, out),
           NEW draws, DrawsFor(draws, entries)
    PROVE  LET line == RestoreDrawings(back, draws)
           IN  /\ line \in Seq(Atoms) /\ Len(line) = Len(atoms)
               /\ \A p \in 1..Len(atoms) :
                     \/ line[p] = atoms[p]
                     \/ \E k \in 1..Len(out) : out[k] = atoms[p] /\ line[p] = back[k]
<1> DEFINE n == Len(out)
           Here(i)  == i > 0 /\ i < Len(back) /\ UsesDrawName(back[i])
                         /\ back[i + 1].kind = "char" /\ back[i + 1].ch \in DOMAIN draws
           Piece(i) == IF Here(i) THEN draws[back[i + 1].ch]
                       ELSE IF Here(i - 1) THEN <<>> ELSE <<back[i]>>
           seqs == [i \in DOMAIN back |-> Piece(i)]
<1>1. /\ n \in Nat /\ back \in Seq(Atoms) /\ DOMAIN back = 1..n /\ Len(back) = n
      /\ \A k \in 1..n : back[k] \in Atoms /\ out[k] \in Atoms
      /\ Len(atoms) \in Nat
  BY LenProperties, ElementOfSeq DEF Renamings
<1>2. PICK off : Traced(out, atoms, entries, off) /\ off[n] = Len(atoms)
  BY DEF AllTraced
<1>3. off \in [0..n -> 0..Len(atoms)] /\ off[0] = 0
  BY <1>2 DEF Traced
<1>4. RestoreDrawings(back, draws) = FlattenSeq(seqs)
  BY DEF RestoreDrawings
<1>5. /\ DOMAIN seqs = 1..n
      /\ \A i \in 1..n : /\ Here(i) => seqs[i] = draws[back[i + 1].ch]
                         /\ ~Here(i) /\ Here(i - 1) => seqs[i] = <<>>
                         /\ ~Here(i) /\ ~Here(i - 1) => seqs[i] = <<back[i]>>
  BY <1>1
<1>6. ASSUME NEW i \in 1..n
      PROVE  Here(i) <=> /\ i < n /\ UsesDrawName(out[i]) /\ out[i + 1].kind = "char"
                         /\ out[i + 1].ch \in DOMAIN draws
  <2>1. i < n => i + 1 \in 1..n
    BY <1>1
  <2> QED
    BY <1>1, <2>1 DEF Renamings
<1> HIDE DEF n, seqs
(* Each piece is what its atom was made of. *)
<1> DEFINE Was(i) ==
      /\ seqs[i] \in Seq(Atoms) /\ Len(seqs[i]) = off[i] - off[i - 1]
      /\ \A j \in 1..Len(seqs[i]) : \/ seqs[i][j] = atoms[off[i - 1] + j]
                                    \/ out[i] = atoms[off[i - 1] + j] /\ seqs[i][j] = back[i]
<1>7. ASSUME NEW i \in 1..n PROVE Was(i)
  <2>0. /\ TracedAt(out, atoms, entries, off, i) /\ i - 1 \in 0..n /\ i \in 0..n
        /\ off[i - 1] \in 0..Len(atoms) /\ off[i] \in 0..Len(atoms)
    <3>1. TracedAt(out, atoms, entries, off, i)
      BY <1>2 DEF Traced, n
    <3>2. i - 1 \in 0..n /\ i \in 0..n
      BY <1>1
    <3> QED
      BY <1>3, <3>1, <3>2
  <2>1. CASE /\ ~UsesDrawName(out[i]) /\ (i > 1 => ~UsesDrawName(out[i - 1]))
             /\ off[i] = off[i - 1] + 1 /\ out[i] = atoms[off[i]]
    <3>1. ~Here(i) /\ ~Here(i - 1)
      <4>1. i - 1 > 0 => i - 1 \in 1..n /\ i > 1
        BY <1>1
      <4> QED
        BY <1>6, <2>1, <4>1
    <3>2. seqs[i] = <<back[i]>> /\ back[i] \in Atoms
      BY <1>1, <1>5, <3>1
    <3>3. seqs[i] \in Seq(Atoms) /\ Len(seqs[i]) = 1 /\ seqs[i][1] = back[i]
      BY <3>2
    <3>4. off[i] - off[i - 1] = 1
      BY <2>0, <2>1
    <3> HIDE DEF Here
    <3> QED
      BY <2>1, <3>3, <3>4
  <2>2. CASE /\ out[i] = DrawBlock /\ i < n /\ off[i - 1] < off[i]
             /\ StandsFor(out[i + 1], entries, SubSeq(atoms, off[i - 1] + 1, off[i]))
    <3> DEFINE data == SubSeq(atoms, off[i - 1] + 1, off[i])
    <3>1. PICK e \in DOMAIN entries : out[i + 1] = Ch(Glyph(e)) /\ entries[e] = data
      BY <2>2 DEF StandsFor
    <3>2. out[i + 1].kind = "char" /\ out[i + 1].ch = Glyph(e)
      BY <3>1 DEF Ch
    <3>3. Glyph(e) \in DOMAIN draws /\ draws[Glyph(e)] = entries[e]
      BY DEF DrawsFor
    <3>4. back[i + 1].ch = Glyph(e)
      <4>1. i + 1 \in 1..n
        BY <1>1, <2>2
      <4> QED
        BY <3>2, <4>1 DEF Renamings, n
    <3>5. Here(i)
      BY <1>6, <2>2, <3>2, <3>3, DrawBlockIsAnAtom
    <3>6. seqs[i] = data
      BY <1>5, <3>1, <3>3, <3>4, <3>5
    <3>7. data \in Seq(Atoms) /\ Len(data) = off[i] - off[i - 1]
          /\ \A j \in 1..Len(data) : data[j] = atoms[off[i - 1] + j]
      <4> DEFINE x == off[i - 1]
                 y == off[i]
      <4>1. x \in 0..Len(atoms) /\ y \in 0..Len(atoms) /\ x < y
        BY <2>0, <2>2
      <4> HIDE DEF x, y
      <4> QED
        BY <4>1, PartOfSeq DEF x, y
    <3> HIDE DEF data, Here
    <3> QED
      BY <3>6, <3>7
  <2>3. CASE i > 1 /\ UsesDrawName(out[i - 1]) /\ ~UsesDrawName(out[i]) /\ off[i] = off[i - 1]
    <3>1. i - 1 \in 1..n /\ TracedAt(out, atoms, entries, off, i - 1)
      BY <1>1, <1>2, <2>3 DEF Traced, n
    <3>2. (i - 1) + 1 = i /\ i - 1 < n
      BY <1>1
    <3>3. PICK e \in DOMAIN entries : out[i] = Ch(Glyph(e))
      BY <2>3, <3>1, <3>2 DEF TracedAt, StandsFor
    <3>4. out[i].kind = "char" /\ out[i].ch = Glyph(e) /\ Glyph(e) \in DOMAIN draws
      BY <3>3 DEF Ch, DrawsFor
    <3>5. Here(i - 1) /\ ~Here(i)
      <4>1. Here(i - 1)
        BY <1>6, <2>3, <3>1, <3>2, <3>4
      <4>2. ~Here(i)
        BY <1>6, <2>3
      <4> QED
        BY <4>1, <4>2
    <3>6. seqs[i] = <<>>
      BY <1>5, <3>5
    <3>7. <<>> \in Seq(Atoms) /\ Len(<<>>) = 0 /\ off[i] - off[i - 1] = 0
      BY <2>0, <2>3
    <3>8. \A j \in 1..0 : FALSE
      OBVIOUS
    <3> HIDE DEF Here
    <3> QED
      BY <3>6, <3>7, <3>8
  <2> QED
    BY <2>0, <2>1, <2>2, <2>3 DEF TracedAt, n
<1> HIDE DEF Here
<1>8. seqs \in Seq(Seq(Atoms)) /\ Len(seqs) = n
  <2>1. \A i \in 1..n : seqs[i] \in Seq(Atoms)
    BY <1>7
  <2>2. seqs \in [1..n -> Seq(Atoms)]
    <3>1. seqs = [i \in 1..n |-> seqs[i]]
      BY <1>5 DEF seqs
    <3> QED
      BY <2>1, <3>1
  <2>3. seqs \in Seq(Seq(Atoms)) /\ DOMAIN seqs = 1..n
    BY <1>1, <2>2, PiecesOfSeq
  <2> QED
    BY <1>1, <2>3, LenProperties
<1>9. PICK at : Placed(at, seqs)
  BY <1>8, FlattenPlaces
<1>10. /\ at[0] = 0 /\ at \in [0..n -> Nat] /\ Len(FlattenSeq(seqs)) = at[n]
       /\ \A i \in 1..n : at[i] = at[i - 1] + Len(seqs[i])
       /\ \A k \in 1..at[n] : \E i \in 1..n : k \in at[i - 1] + 1..at[i]
       /\ \A i \in 1..n : \A j \in 1..Len(seqs[i]) : FlattenSeq(seqs)[at[i - 1] + j] = seqs[i][j]
  BY <1>8, <1>9 DEF Placed
<1>11. \A i \in 0..n : at[i] = off[i]
  <2>1. ASSUME NEW i \in 1..n, at[i - 1] = off[i - 1] PROVE at[i] = off[i]
    <3>1. Len(seqs[i]) = off[i] - off[i - 1]
      BY <1>7
    <3>2. i - 1 \in 0..n /\ i \in 0..n
      BY <1>1
    <3>3. off[i] \in Int /\ off[i - 1] \in Int
      BY <1>1, <1>3, <3>2
    <3> QED
      BY <1>10, <2>1, <3>1, <3>3
  <2>2. at[0] = off[0] /\ GoesOn(at, off, n)
    BY <1>3, <1>10, <2>1 DEF GoesOn
  <2>3. n \in Nat
    BY <1>1
  <2> QED
    BY <2>2, <2>3, RecursionAgrees
<1>12. Len(FlattenSeq(seqs)) = Len(atoms)
  <2>1. n \in 0..n
    BY <1>1
  <2> QED
    BY <1>2, <1>10, <1>11, <2>1
<1>13. FlattenSeq(seqs) \in Seq(Atoms)
  BY <1>8, FlattenElements
<1>14. ASSUME NEW p \in 1..Len(atoms)
       PROVE  \/ FlattenSeq(seqs)[p] = atoms[p]
              \/ \E k \in 1..n : out[k] = atoms[p] /\ FlattenSeq(seqs)[p] = back[k]
  <2>1. PICK i \in 1..n : p \in at[i - 1] + 1..at[i]
    BY <1>10, <1>12
  <2>2. i - 1 \in 0..n /\ i \in 0..n
    BY <1>1
  <2>3. p \in off[i - 1] + 1..off[i] /\ at[i - 1] = off[i - 1] /\ off[i] \in Int /\ off[i - 1] \in Int
    BY <1>1, <1>3, <1>11, <2>1, <2>2
  <2> DEFINE j == p - off[i - 1]
  <2>4. j \in 1..off[i] - off[i - 1] /\ off[i - 1] + j = p
    BY <2>3
  <2>5. j \in 1..Len(seqs[i])
    BY <1>7, <2>4
  <2>6. FlattenSeq(seqs)[p] = seqs[i][j]
    <3>1. FlattenSeq(seqs)[at[i - 1] + j] = seqs[i][j]
      BY <1>10, <2>5
    <3>2. at[i - 1] + j = p
      BY <2>3, <2>4
    <3> QED
      BY <3>1, <3>2
  <2>7. seqs[i][j] = atoms[p] \/ (out[i] = atoms[p] /\ seqs[i][j] = back[i])
    BY <1>7, <2>4, <2>5
  <2> QED
    BY <2>6, <2>7
<1> QED
  BY <1>4, <1>12, <1>13, <1>14 DEF n

-------------------------------------------------------------------------------
(* The fonts a subtitle asks for are those it names, and Arial.                *)

AskedNames(doc) == Names(doc) \cup {Arial.font}
AskedFaces(doc) == {Lookup(n) : n \in AskedNames(doc)}

(* A name stands in a style or in a tag. *)
LEMMA NamesOf ==
    ASSUME NEW doc
    PROVE  /\ \A s \in DOMAIN doc.styles : doc.styles[s].font \in Names(doc)
           /\ \A i \in DOMAIN doc.lines : \A k \in DOMAIN doc.lines[i].atoms :
                 \A t \in DOMAIN doc.lines[i].atoms[k].tags :
                    doc.lines[i].atoms[k].tags[t].font \in Names(doc)
<1>1. ASSUME NEW i \in DOMAIN doc.lines, NEW k \in DOMAIN doc.lines[i].atoms,
             NEW t \in DOMAIN doc.lines[i].atoms[k].tags
      PROVE  doc.lines[i].atoms[k].tags[t].font \in Names(doc)
  <2> DEFINE atoms == doc.lines[i].atoms
             tags == atoms[k].tags
             fonts == UNION {ToSet(atoms[m].tags) : m \in DOMAIN atoms}
  <2>1. tags[t] \in ToSet(tags)
    BY DEF ToSet
  <2>2. tags[t] \in fonts
    BY <2>1
  <2> HIDE DEF fonts
  <2>3. tags[t].font \in {x.font : x \in fonts}
    BY <2>2
  <2> QED
    BY <2>3 DEF Names, fonts
<1> QED
  BY <1>1 DEF Names

(* The font in effect is one of those asked for. *)
Asks(s, faces) == Lookup(s.style.font) \in faces

(* A tag that names a font asked for leaves one in effect. *)
LEMMA TagAsks ==
    ASSUME NEW s \in States, NEW tag \in Tags, NEW base \in Styles,
           NEW styles, styles \in [DOMAIN styles -> Styles], NEW faces,
           Asks(s, faces), Lookup(tag.font) \in faces, Lookup(base.font) \in faces,
           \A t \in DOMAIN styles : Lookup(styles[t].font) \in faces
    PROVE  Asks(ApplyTag(s, tag, base, styles), faces)
<1>1. s.style \in Styles /\ s.level \in Int /\ tag.font \in FontNames
  BY DEF States, Tags
<1>2. CASE tag.name = "fn"
  <2>1. NormFont(tag.font).face = tag.font.face
    BY <1>1 DEF NormFont, FontNames
  <2>2. [s EXCEPT !.style.font = NormFont(tag.font)].style.font = NormFont(tag.font)
    BY <1>1 DEF States, Styles
  <2> QED
    BY <1>2, <2>1, <2>2 DEF ApplyTag, Asks, Lookup
<1>3. CASE tag.name = "r"
  <2>1. Lookup(Reset(s.style, tag, base, styles).font) \in faces
    BY DEF Reset, Asks
  <2>2. [s EXCEPT !.style = Reset(@, tag, base, styles)].style = Reset(s.style, tag, base, styles)
    BY DEF States
  <2> QED
    BY <1>3, <2>1, <2>2 DEF ApplyTag, Asks
<1>4. CASE tag.name \in {"b", "i", "p"}
  <2>1. ASSUME NEW b PROVE /\ [s EXCEPT !.style.bold = b].style.font = s.style.font
                           /\ [s EXCEPT !.style.italic = b].style.font = s.style.font
                           /\ [s EXCEPT !.level = b].style.font = s.style.font
    BY <1>1 DEF States, Styles
  <2>2. ApplyTag(s, tag, base, styles).style.font = s.style.font
    BY <1>4, <2>1 DEF ApplyTag
  <2> QED
    BY <2>2 DEF Asks
<1> QED
  BY <1>2, <1>3, <1>4 DEF Tags

(* So do the tags of a block, *)
LEMMA TagsAsk ==
    ASSUME NEW s \in States, NEW tags \in Seq(Tags), NEW base \in Styles,
           NEW styles, styles \in [DOMAIN styles -> Styles], NEW faces,
           Asks(s, faces), \A k \in 1..Len(tags) : Lookup(tags[k].font) \in faces,
           Lookup(base.font) \in faces, \A t \in DOMAIN styles : Lookup(styles[t].font) \in faces
    PROVE  Asks(AfterTags(s, tags, base, styles), faces)
<1> DEFINE n == Len(tags)
<1>1. n \in Nat /\ \A k \in 1..n : tags[k] \in Tags
  BY LenProperties, ElementOfSeq
<1>2. PICK after \in [0..n -> States] :
         /\ IsAfterTags(after, s, tags, base, styles)
         /\ AfterTags(s, tags, base, styles) = after[n]
  BY TagsRead
<1>3. after[0] = s /\ \A k \in 1..n : after[k] = ApplyTag(after[k - 1], tags[k], base, styles)
  BY <1>2 DEF IsAfterTags
<1>4. \A k \in 1..n : Lookup(tags[k].font) \in faces
  OBVIOUS
<1> HIDE DEF n
<1> DEFINE Good == {k \in 0..n : Asks(after[k], faces)}
<1>5. 0 \in Good
  BY <1>1, <1>3
<1>6. ASSUME NEW k \in 1..n, k - 1 \in Good PROVE k \in Good
  <2>1. after[k - 1] \in States /\ Asks(after[k - 1], faces) /\ tags[k] \in Tags
    BY <1>1, <1>6
  <2>2. Asks(ApplyTag(after[k - 1], tags[k], base, styles), faces)
    BY <1>4, <2>1, TagAsks
  <2> QED
    BY <1>3, <2>2
<1> HIDE DEF Good
<1>7. \A k \in 0..n : k \in Good
  BY <1>1, <1>5, <1>6, UpTo
<1>8. n \in Good
  BY <1>1, <1>7
<1> QED
  BY <1>2, <1>8 DEF Good, n

(* and the atoms of a line. *)
LEMMA LineAsks ==
    ASSUME NEW styles, styles \in [DOMAIN styles -> Styles], NEW line \in Lines, NEW faces,
           Lookup(Arial.font) \in faces, \A t \in DOMAIN styles : Lookup(styles[t].font) \in faces,
           \A k \in DOMAIN line.atoms : \A t \in DOMAIN line.atoms[k].tags :
              Lookup(line.atoms[k].tags[t].font) \in faces
    PROVE  \A u \in LineUses(styles, line) : Lookup(u.font) \in faces
<1>1. PICK n \in Nat : LineAtoms(line, n)
  BY AtomsOfLine
<1>2. n = Len(line.atoms) /\ DOMAIN line.atoms = 1..n
      /\ \A k \in 1..n : line.atoms[k] \in Atoms /\ line.atoms[k].tags \in Seq(Tags)
  BY <1>1 DEF LineAtoms
<1> DEFINE base == BaseStyle(styles, line)
           start == [style |-> base, level |-> 0]
<1>3. base \in Styles /\ start \in States /\ start.style = base
  BY BaseTypes
<1>4. Lookup(base.font) \in faces
  BY DEF BaseStyle
<1> HIDE DEF base, start
<1>5. PICK after \in [0..n -> States] :
         IsReading(after, styles, line) /\ \A i \in 0..n : Reading(styles, line)[i] = after[i]
  BY <1>2, LineRead
<1>6. after[0] = start
      /\ \A i \in 1..n : after[i] = AfterTags(after[i - 1], line.atoms[i].tags, base, styles)
  BY <1>2, <1>5 DEF IsReading, start, base
<1> DEFINE Good == {k \in 0..n : Asks(after[k], faces)}
<1>7. 0 \in Good
  BY <1>3, <1>4, <1>6 DEF Asks
<1>8. ASSUME NEW i \in 1..n, i - 1 \in Good PROVE i \in Good
  <2> DEFINE tags == line.atoms[i].tags
             s == after[i - 1]
  <2>1. s \in States /\ Asks(s, faces) /\ tags \in Seq(Tags)
    BY <1>2, <1>8
  <2>2. \A t \in DOMAIN tags : Lookup(tags[t].font) \in faces
    BY <1>2
  <2> HIDE DEF tags, s
  <2>3. \A t \in 1..Len(tags) : Lookup(tags[t].font) \in faces
    BY <2>1, <2>2, LenProperties
  <2>4. Asks(AfterTags(s, tags, base, styles), faces)
    BY <1>3, <1>4, <2>1, <2>3, TagsAsk
  <2> QED
    BY <1>6, <2>4 DEF s, tags
<1> HIDE DEF Good
<1>9. \A k \in 0..n : k \in Good
  BY <1>7, <1>8, UpTo
<1>10. ASSUME NEW i \in DOMAIN line.atoms, NEW u \in Use(Reading(styles, line)[i - 1], line.atoms[i])
       PROVE  Lookup(u.font) \in faces
  <2>1. i \in 1..n /\ i - 1 \in 0..n
    BY <1>2
  <2> DEFINE s == Reading(styles, line)[i - 1]
  <2>2. s \in States /\ Asks(s, faces)
    BY <1>5, <1>9, <2>1 DEF Good
  <2> HIDE DEF s
  <2>3. u.font = NormFont(s.style.font)
    BY DEF Use, s
  <2>4. NormFont(s.style.font).face = s.style.font.face
    BY <2>2 DEF States, Styles, NormFont, FontNames
  <2> QED
    BY <2>2, <2>3, <2>4 DEF Asks, Lookup
<1> QED
  BY <1>10 DEF LineUses

(* What a subtitle uses, it asks for. *)
LEMMA UsesAsked ==
    ASSUME NEW doc \in Documents
    PROVE  \A u \in Uses(doc) : Lookup(u.font) \in AskedFaces(doc)
<1>1. doc.styles \in [DOMAIN doc.styles -> Styles] /\ doc.lines \in Seq(Lines)
  BY TextAssumption DEF TextAssumption
<1>2. \A i \in DOMAIN doc.lines : doc.lines[i] \in Lines
  BY <1>1, LenProperties, ElementOfSeq
<1> DEFINE styles == doc.styles
           faces == AskedFaces(doc)
<1>3. \A n \in Names(doc) \cup {Arial.font} : Lookup(n) \in faces
  BY DEF AskedFaces, AskedNames
<1>4. /\ styles \in [DOMAIN styles -> Styles] /\ Lookup(Arial.font) \in faces
      /\ \A t \in DOMAIN styles : Lookup(styles[t].font) \in faces
  BY <1>1, <1>3, NamesOf
<1> HIDE DEF faces
<1>5. ASSUME NEW i \in DOMAIN doc.lines
      PROVE  \A u \in LineUses(styles, doc.lines[i]) : Lookup(u.font) \in faces
  <2> DEFINE line == doc.lines[i]
  <2>1. line \in Lines
    BY <1>2
  <2>2. \A k \in DOMAIN line.atoms : \A t \in DOMAIN line.atoms[k].tags :
              Lookup(line.atoms[k].tags[t].font) \in faces
    BY <1>3, NamesOf
  <2> HIDE DEF line, styles
  <2> QED
    BY <1>4, <2>1, <2>2, LineAsks DEF line
<1> QED
  BY <1>5 DEF Uses, faces

-------------------------------------------------------------------------------
(* What a conversion leaves for stripping to find.                             *)

IsDigest(word) == \E face \in IndexedFaces, salt \in 0..MaxSalt : word = Digest(face, salt)

(* The names given are digests, and only so many.                              *)
DigestsInv ==
    /\ IsFiniteSet(DOMAIN names)
    /\ \A face \in DOMAIN names : IsDigest(Lookup(names[face]))

(* A font of the loop is one the subtitle asked for; the drawing font holds    *)
(* all drawings.                                                               *)
LoopFont(e) == e.draws = <<>> /\ Lookup(e.original) \in AskedFaces(source)
DrawingFont(e, entries) == e.original = DrawName /\ e.family = DrawName /\ e.draws = entries

(* The fonts in use are asked for, and so are those made for them.             *)
AskedInv ==
    stage = "fonts" =>
        /\ \A font \in todo : Lookup(font) \in AskedFaces(source)
        /\ \A k \in DOMAIN embedded : LoopFont(embedded[k])

(* The lines come from the source with drawings made glyphs, and the fonts     *)
(* hold what the glyphs stand for.                                             *)
DrawnFrom(lines, entries) ==
    /\ entries \in Seq(Seq(Atoms)) /\ DOMAIN lines = DOMAIN source.lines
    /\ \A i \in DOMAIN source.lines : TracedLine(lines[i], source.lines[i], entries)
    /\ \A k \in DOMAIN embedded : LoopFont(embedded[k]) \/ DrawingFont(embedded[k], entries)
    /\ entries # <<>> => \E k \in DOMAIN embedded : embedded[k].draws = entries

(* A converted text is what rewriting made of the source.                      *)
ConvertedInv ==
    stage = "converted" =>
        \E lines, entries :
            /\ DrawnFrom(lines, entries)
            /\ embedded # <<>> => text = WithFonts(source, lines, embedded, names)

MadeInv == DigestsInv /\ AskedInv /\ ConvertedInv

(* stable_font_name returns a digest. *)
LEMMA StableNameIsADigest ==
    ASSUME NEW face \in IndexedFaces, NEW used, FreeSalts(face, used) # {}
    PROVE  IsDigest(StableName(face, used))
<1> DEFINE free == FreeSalts(face, used)
           salt == CHOOSE s \in free : \A other \in free : s <= other
<1>1. free \subseteq 0..MaxSalt
  <2>1. free = {s \in 0..MaxSalt : Digest(face, s) \notin used}
    BY DEF FreeSalts
  <2> HIDE DEF free
  <2> QED
    BY <2>1
<1>2. StableName(face, used) = Digest(face, salt)
  BY DEF StableName
<1>3. salt \in free
  <2>1. free \in SUBSET Nat
    <3>1. 0..MaxSalt \subseteq Nat
      <4>1. MaxSalt \in Nat
        BY TextAssumption DEF TextAssumption
      <4> QED
        BY <4>1
    <3> HIDE DEF free
    <3> QED
      BY <1>1, <3>1
  <2>2. free # {}
    OBVIOUS
  <2> HIDE DEF free
  <2>3. \E s \in free : \A other \in free : s <= other
    BY <2>1, <2>2, Least
  <2> QED
    BY <2>3
<1> HIDE DEF free, salt
<1>4. salt \in 0..MaxSalt
  BY <1>1, <1>3
<1> QED
  BY <1>2, <1>4 DEF IsDigest

(* The invariant holds before any job, *)
LEMMA InitMade == Init => MadeInv
<1> SUFFICES ASSUME Init PROVE MadeInv
  OBVIOUS
<1>1. stage = "idle" /\ names = <<>>
  BY DEF Init
<1>2. DOMAIN names = {}
  BY <1>1
<1>3. IsFiniteSet(DOMAIN names)
  BY <1>2, FS_EmptySet
<1> QED
  BY <1>1, <1>2, <1>3 DEF MadeInv, DigestsInv, AskedInv, ConvertedInv

(* it holds when a conversion has read the fonts in use, *)
LEMMA ReadKeepsMade ==
    ASSUME LoopInv, MadeInv, ReadSubtitle PROVE MadeInv'
<1>1. /\ stage = "idle" /\ stage' \in {"failed", "fonts"} /\ todo' = {u.font : u \in Uses(text)}
      /\ UNCHANGED <<source, embedded, names>>
  BY DEF ReadSubtitle, Unchanged
<1>2. text = source /\ source \in Documents /\ embedded = <<>>
  BY <1>1 DEF LoopInv
<1>3. \A font \in todo' : Lookup(font) \in AskedFaces(source)
  BY <1>1, <1>2, UsesAsked
<1>4. DOMAIN embedded = {}
  BY <1>2
<1>5. AskedInv'
  <2>1. AskedFaces(source)' = AskedFaces(source)
    BY <1>1 DEF AskedFaces, AskedNames, Names
  <2> QED
    BY <1>1, <1>3, <1>4, <2>1 DEF AskedInv
<1>6. DigestsInv'
  BY <1>1 DEF MadeInv, DigestsInv
<1>7. ConvertedInv'
  BY <1>1 DEF ConvertedInv
<1> QED
  BY <1>5, <1>6, <1>7 DEF MadeInv

(* each round of the loop keeps it, *)
LEMMA EmbedKeepsMade ==
    ASSUME LoopInv, MadeInv, NEW font \in todo, EmbedFont(font) PROVE MadeInv'
<1>1. /\ stage = "fonts" /\ stage' = "fonts" /\ todo' = todo \ {font}
      /\ UNCHANGED <<source, options, text>>
  BY DEF EmbedFont, Unchanged
<1>2. /\ text = source /\ source \in Documents /\ options \in Options /\ font \in FontNames
      /\ NamesInv /\ EmbeddedInv
  BY <1>1, TextAssumption DEF LoopInv, TextAssumption
<1>3. /\ DigestsInv /\ Lookup(font) \in AskedFaces(source)
      /\ \A f \in todo : Lookup(f) \in AskedFaces(source)
      /\ \A k \in DOMAIN embedded : LoopFont(embedded[k])
  BY <1>1 DEF MadeInv, AskedInv
<1>4. ConvertedInv'
  BY <1>1 DEF ConvertedInv
<1>5. AskedFaces(source)' = AskedFaces(source)
  BY <1>1 DEF AskedFaces, AskedNames, Names
<1>6. \A e : LoopFont(e)' <=> LoopFont(e)
  BY <1>5 DEF LoopFont
<1>7. CASE UNCHANGED <<embedded, names>>
  <2>1. DigestsInv'
    BY <1>3, <1>7 DEF DigestsInv
  <2>2. AskedInv'
    BY <1>1, <1>3, <1>5, <1>6, <1>7 DEF AskedInv
  <2> QED
    BY <1>4, <2>1, <2>2 DEF MadeInv
<1>8. CASE /\ ~Exempt(font) /\ Lookup(font) \in IndexedFaces /\ EnoughFiles
           /\ options.random => \/ Lookup(font) \in DOMAIN names
                                \/ FreeSalts(Lookup(font), Given) # {}
           /\ embedded' = embedded \o Subsets(font, EmbeddedName(font))
           /\ names' = IF options.random THEN NamesWith(font) ELSE names
  <2>1. DigestsInv'
    <3>1. CASE ~options.random
      BY <1>3, <1>8, <3>1 DEF DigestsInv
    <3>2. CASE options.random
      <4> DEFINE face == Lookup(font)
                 new == EmbeddedName(font)
      <4>1. IsDigest(Lookup(new))
        <5>1. CASE face \in DOMAIN names
          <6>1. new = names[face]
            BY <3>2, <5>1 DEF EmbeddedName
          <6> HIDE DEF new
          <6> QED
            BY <1>3, <5>1, <6>1 DEF DigestsInv
        <5>2. CASE face \notin DOMAIN names
          <6>1. new = Name(StableName(face, Given))
            BY <3>2, <5>2 DEF EmbeddedName
          <6>2. Lookup(new) = StableName(face, Given)
            BY <6>1 DEF Lookup, Name
          <6>3. IsDigest(StableName(face, Given))
            BY <1>8, <3>2, <5>2, StableNameIsADigest
          <6> QED
            BY <6>2, <6>3
        <5> QED
          BY <5>1, <5>2
      <4>2. names' = [f \in DOMAIN names \cup {face} |-> IF f = face THEN new ELSE names[f]]
        BY <1>8, <3>2 DEF NamesWith
      <4> HIDE DEF new, face
      <4>3. DOMAIN names' = DOMAIN names \cup {face}
            /\ \A f \in DOMAIN names' : names'[f] = IF f = face THEN new ELSE names[f]
        BY <4>2
      <4>4. IsFiniteSet(DOMAIN names \cup {face})
        BY <1>3, FS_AddElement DEF DigestsInv
      <4>5. \A f \in DOMAIN names' : IsDigest(Lookup(names'[f]))
        BY <1>3, <4>1, <4>3 DEF DigestsInv
      <4> QED
        BY <4>3, <4>4, <4>5 DEF DigestsInv
    <3> QED
      BY <3>1, <3>2
  <2>2. AskedInv'
    <3> DEFINE family == EmbeddedName(font)
               made == Subsets(font, family)
               old == embedded
    <3>1. family \in FontNames
      BY <1>2, <1>8, NameGiven
    <3>2. Len(embedded) \in Nat /\ Uses(text) \subseteq UseRecords /\ old \in Seq(Fonts)
      BY <1>2, UsesTyped, LenProperties DEF EmbeddedInv
    <3> HIDE DEF family
    <3>3. made \in Seq(Fonts) /\ \A x \in ToSet(made) : x.original = font /\ x.draws = <<>>
      BY <1>2, <1>8, <3>1, <3>2, SubsetsMade
    <3>4. embedded' = old \o made
      BY <1>8 DEF family
    <3> HIDE DEF made, old
    <3>5. ToSet(old \o made) = ToSet(old) \cup ToSet(made)
      BY <3>2, <3>3, ConcatElements
    <3>6. \A x \in ToSet(old) : LoopFont(x)
      BY <1>3 DEF old, ToSet
    <3>7. \A x \in ToSet(made) : LoopFont(x)
      BY <1>3, <3>3 DEF LoopFont
    <3>8. \A k \in DOMAIN embedded' : embedded'[k] \in ToSet(old \o made)
      BY <3>4 DEF ToSet
    <3>9. \A k \in DOMAIN embedded' : LoopFont(embedded'[k])
      BY <3>5, <3>6, <3>7, <3>8
    <3> QED
      BY <1>1, <1>3, <1>5, <1>6, <3>9 DEF AskedInv
  <2> QED
    BY <1>4, <2>1, <2>2 DEF MadeInv
<1>9. CASE Exempt(font)
  <2>1. UNCHANGED <<embedded, names>>
    BY <1>9 DEF EmbedFont
  <2> QED
    BY <1>7, <2>1
<1>10. CASE ~Exempt(font) /\ Lookup(font) \notin IndexedFaces
  <2>1. UNCHANGED <<embedded, names>>
    BY <1>10 DEF EmbedFont
  <2> QED
    BY <1>7, <2>1
<1>11. CASE ~Exempt(font) /\ Lookup(font) \in IndexedFaces
  <2>1. /\ ~Exempt(font) /\ Lookup(font) \in IndexedFaces /\ EnoughFiles
        /\ options.random => \/ Lookup(font) \in DOMAIN names
                             \/ FreeSalts(Lookup(font), Given) # {}
        /\ embedded' = embedded \o Subsets(font, EmbeddedName(font))
        /\ names' = IF options.random THEN NamesWith(font) ELSE names
    BY <1>11 DEF EmbedFont
  <2> QED
    BY <1>8, <2>1
<1> QED
  BY <1>9, <1>10, <1>11

(* and so does writing. *)
LEMMA WriteKeepsMade ==
    ASSUME LoopInv, MadeInv, WriteSubset PROVE MadeInv'
<1>1. /\ stage = "fonts" /\ stage' = "converted" /\ EnoughFiles
      /\ UNCHANGED <<source, options, names>>
      /\ embedded' = IF DrawnText.entries = <<>> THEN embedded
                     ELSE Append(embedded, DrawFont(DrawnText.entries))
      /\ text' = IF embedded' = <<>> THEN text
                 ELSE WithFonts(text, DrawnText.lines, embedded', names)
  BY WriteInParts
<1>2. text = source /\ source \in Documents /\ ~HasMarker(source) /\ embedded \in Seq(Fonts)
  BY <1>1 DEF LoopInv, HasFonts, EmbeddedInv
<1>3. text.lines \in Seq(Lines)
  BY <1>2, TextAssumption DEF TextAssumption
<1>3a. PICK lines, entries : lines = DrawnText.lines /\ entries = DrawnText.entries
  OBVIOUS
<1>4. entries \in Seq(Seq(Atoms)) /\ DOMAIN lines = DOMAIN source.lines
  BY <1>2, <1>3, <1>3a, DrawnTyped
<1>5. \A i \in DOMAIN source.lines : TracedLine(lines[i], source.lines[i], entries)
  <2>1. \A i \in DOMAIN source.lines : \A k \in DOMAIN source.lines[i].atoms :
           ~UsesDrawName(source.lines[i].atoms[k])
    BY <1>2, NoDrawName
  <2>2. CASE options.draw
    <3>1. DrawnText = DrawingsAsFont(source.lines)
      BY <1>2, <2>2 DEF DrawnText
    <3> QED
      BY <1>2, <1>3, <1>3a, <2>1, <3>1, LinesTraced
  <2>3. CASE ~options.draw
    <3>1. lines = source.lines
      BY <1>2, <1>3a, <2>3 DEF DrawnText
    <3>2. ASSUME NEW i \in DOMAIN source.lines PROVE TracedLine(source.lines[i], source.lines[i], entries)
      <4> DEFINE line == source.lines[i]
      <4>1. line \in Lines
        BY <1>2, <1>3, LenProperties, ElementOfSeq
      <4>2. line.atoms \in Seq(Atoms) /\ line = [line EXCEPT !.atoms = line.atoms]
        BY <4>1 DEF Lines
      <4>3. \A k \in DOMAIN line.atoms : ~UsesDrawName(line.atoms[k])
        BY <2>1
      <4> HIDE DEF line
      <4>4. AllTraced(line.atoms, line.atoms, entries)
        BY <4>2, <4>3, LineAllItself
      <4> QED
        BY <4>2, <4>4 DEF TracedLine, line
    <3> QED
      BY <3>1, <3>2
  <2> QED
    BY <2>2, <2>3
<1> DEFINE more == DrawFont(entries)
           old == embedded
<1>6. \A k \in DOMAIN embedded' : (k \in DOMAIN old /\ embedded'[k] = old[k]) \/ embedded'[k] = more
  BY <1>3a, WriteAddsDrawFont
<1>7. DrawingFont(more, entries)
  BY DEF DrawingFont, DrawFont
<1>8. entries # <<>> => \E k \in DOMAIN embedded' : embedded'[k].draws = entries
  <2> SUFFICES ASSUME entries # <<>> PROVE \E k \in DOMAIN embedded' : embedded'[k].draws = entries
    OBVIOUS
  <2>1. embedded' = Append(old, more) /\ old \in Seq(Fonts)
    BY <1>1, <1>2, <1>3a
  <2>2. more \in Fonts
    BY <1>1, <1>2, <1>4, LenProperties, DrawFontTyped
  <2>3. more.draws = entries
    BY <1>7 DEF DrawingFont
  <2> HIDE DEF more, old
  <2>4. /\ Append(old, more) \in Seq(Fonts) /\ Len(Append(old, more)) = Len(old) + 1
        /\ Append(old, more)[Len(old) + 1] = more
    BY <2>1, <2>2, AppendProperties
  <2>5. Len(old) \in Nat
    BY <2>1, LenProperties
  <2> DEFINE k == Len(old) + 1
  <2>6. k \in DOMAIN embedded' /\ embedded'[k] = more
    <3>1. DOMAIN embedded' = 1..Len(embedded') /\ Len(embedded') = k
      BY <2>1, <2>4, LenProperties
    <3>2. k \in 1..k
      BY <2>5
    <3> QED
      BY <2>1, <2>4, <3>1, <3>2
  <2> QED
    BY <2>3, <2>6
<1> HIDE DEF more, old
<1>9. \A k \in DOMAIN embedded' :
         \/ embedded'[k].draws = <<>> /\ Lookup(embedded'[k].original) \in AskedFaces(source)
         \/ DrawingFont(embedded'[k], entries)
  <2>1. \A k \in DOMAIN old : old[k].draws = <<>> /\ Lookup(old[k].original) \in AskedFaces(source)
    BY <1>1 DEF MadeInv, AskedInv, LoopFont, old
  <2> QED
    BY <1>6, <1>7, <2>1
<1>10. DrawnFrom(lines, entries)'
  <2>1. DOMAIN lines = DOMAIN source'.lines
        /\ \A i \in DOMAIN source'.lines : TracedLine(lines[i], source'.lines[i], entries)
    BY <1>1, <1>4, <1>5
  <2>2. AskedFaces(source)' = AskedFaces(source)
    BY <1>1 DEF AskedFaces, AskedNames, Names
  <2>3. \A k \in DOMAIN embedded' : LoopFont(embedded[k])' \/ DrawingFont(embedded'[k], entries)
    BY <1>9, <2>2 DEF LoopFont
  <2> QED
    BY <1>4, <1>8, <2>1, <2>3 DEF DrawnFrom
<1>11. ConvertedInv'
  <2>1. embedded' # <<>> => text' = WithFonts(source', lines, embedded', names')
    BY <1>1, <1>2, <1>3a
  <2> QED
    BY <1>10, <2>1 DEF ConvertedInv
<1>12. DigestsInv'
  BY <1>1 DEF MadeInv, DigestsInv
<1>13. AskedInv'
  BY <1>1 DEF AskedInv
<1> QED
  BY <1>11, <1>12, <1>13 DEF MadeInv

(* Every step keeps the invariant. *)
LEMMA MadeKept ==
    ASSUME LoopInv, MadeInv, [Next]_vars PROVE MadeInv'
<1>1. CASE ReadSubtitle
  BY <1>1, ReadKeepsMade
<1>2. CASE \E font \in todo : EmbedFont(font)
  BY <1>2, EmbedKeepsMade
<1>3. CASE WorkerFails
  <2>1. stage' = "failed" /\ names' = names
    BY <1>3 DEF WorkerFails
  <2> QED
    BY <2>1 DEF MadeInv, DigestsInv, AskedInv, ConvertedInv
<1>4. CASE WriteSubset
  BY <1>4, WriteKeepsMade
<1>5. CASE \E failing \in SUBSET {f.data : f \in ToSet(ParseFonts(text.section))} :
              StripSubtitle(failing)
  <2>1. stage' = "stripped" /\ names' = names
    BY <1>5 DEF StripSubtitle
  <2> QED
    BY <2>1 DEF MadeInv, DigestsInv, AskedInv, ConvertedInv
<1>6. CASE Done \/ UNCHANGED vars
  <2>1. UNCHANGED <<source, text, stage, todo, embedded, names>>
    BY <1>6 DEF Done, vars
  <2>2. DigestsInv'
    BY <2>1 DEF MadeInv, DigestsInv
  <2>3. \A e : LoopFont(e)' <=> LoopFont(e)
    BY <2>1 DEF LoopFont, AskedFaces, AskedNames, Names
  <2>4. AskedFaces(source)' = AskedFaces(source)
    BY <2>1 DEF AskedFaces, AskedNames, Names
  <2>5. AskedInv'
    BY <2>1, <2>4 DEF MadeInv, AskedInv, LoopFont
  <2>6. ASSUME NEW lines, NEW entries, DrawnFrom(lines, entries) PROVE DrawnFrom(lines, entries)'
    BY <2>1, <2>4, <2>6 DEF DrawnFrom, LoopFont
  <2>7. ConvertedInv'
    <3> SUFFICES ASSUME stage' = "converted" PROVE ConvertedInv'
      BY DEF ConvertedInv
    <3>1. PICK lines, entries : /\ DrawnFrom(lines, entries)
                                /\ embedded # <<>> => text = WithFonts(source, lines, embedded, names)
      BY <2>1 DEF MadeInv, ConvertedInv
    <3>2. DrawnFrom(lines, entries)'
      BY <2>6, <3>1
    <3>3. embedded' # <<>> => text' = WithFonts(source', lines, embedded', names')
      BY <2>1, <3>1
    <3> QED
      BY <3>2, <3>3 DEF ConvertedInv
  <2> QED
    BY <2>2, <2>5, <2>7 DEF MadeInv
<1> QED
  BY <1>1, <1>2, <1>3, <1>4, <1>5, <1>6 DEF Next

-------------------------------------------------------------------------------
(* Two renamings, one there and one back, leave a text to compare as it was.   *)

(* A name comes back as one that compares the same.                            *)
Restores(n, there, back) ==
    /\ Renamed(Renamed(n, there), back) \in FontNames
    /\ Lookup(Renamed(Renamed(n, there), back)) # Lookup(DrawName)
    /\ Plain(Renamed(Renamed(n, there), back)) = Plain(n)

(* So does an atom whose names do. *)
LEMMA AtomRestored ==
    ASSUME NEW atom \in Atoms, NEW there, NEW back,
           \A t \in DOMAIN atom.tags : Restores(atom.tags[t].font, there, back)
    PROVE  LET b == RenameAtom(RenameAtom(atom, there), back)
           IN  /\ b \in Atoms /\ b.kind = atom.kind /\ b.ch = atom.ch
               /\ (~UsesDrawName(atom) => ~UsesDrawName(b)) /\ PlainAtom(b) = PlainAtom(atom)
<1> DEFINE tags == atom.tags
           Twice(t) == RenameTag(RenameTag(tags[t], there), back)
           once == [t \in DOMAIN tags |-> RenameTag(tags[t], there)]
           twice == [t \in DOMAIN tags |-> Twice(t)]
           b == RenameAtom(RenameAtom(atom, there), back)
<1>1. tags \in Seq(Tags)
  BY DEF Atoms
<1>2. Len(tags) \in Nat /\ DOMAIN tags = 1..Len(tags) /\ \A t \in DOMAIN tags : tags[t] \in Tags
  BY <1>1, LenProperties, ElementOfSeq
<1>3. ASSUME NEW t \in DOMAIN tags
      PROVE  /\ Twice(t) \in Tags /\ Twice(t).name = tags[t].name
             /\ Lookup(Twice(t).font) = Lookup(DrawName) /\ Twice(t).name = "fn" => FALSE
             /\ PlainTag(Twice(t)) = PlainTag(tags[t])
  <2> DEFINE tag == tags[t]
             m == Renamed(Renamed(tag.font, there), back)
  <2>1. tag \in Tags /\ m \in FontNames /\ Lookup(m) # Lookup(DrawName) /\ Plain(m) = Plain(tag.font)
    BY <1>2 DEF Restores
  <2>2. CASE tag.name = "fn"
    <3> DEFINE m1 == Renamed(tag.font, there)
    <3>1. RenameTag(tag, there) = [tag EXCEPT !.font = m1]
      BY <2>2 DEF RenameTag
    <3>2. [tag EXCEPT !.font = m1].name = "fn" /\ [tag EXCEPT !.font = m1].font = m1
      BY <2>1, <2>2 DEF Tags
    <3>3. Twice(t) = [[tag EXCEPT !.font = m1] EXCEPT !.font = m]
      BY <3>1, <3>2 DEF RenameTag
    <3> HIDE DEF m, m1, Twice, tag
    <3>4. [[tag EXCEPT !.font = m1] EXCEPT !.font = m] = [tag EXCEPT !.font = m]
      BY <2>1 DEF Tags
    <3>5. Twice(t) \in Tags /\ Twice(t).name = tag.name /\ Twice(t).font = m
      BY <2>1, <3>3, <3>4 DEF Tags
    <3>6. [Twice(t) EXCEPT !.font = Plain(m)] = [tag EXCEPT !.font = Plain(m)]
      BY <2>1, <3>3, <3>4 DEF Tags
    <3> QED
      BY <2>1, <3>5, <3>6 DEF tag, PlainTag
  <2>3. CASE tag.name # "fn"
    <3>1. Twice(t) = tag
      BY <2>3 DEF RenameTag
    <3> HIDE DEF Twice, tag
    <3> QED
      BY <2>1, <2>3, <3>1 DEF tag
  <2> QED
    BY <2>2, <2>3
<1>4. b = [atom EXCEPT !.tags = twice]
  <2>1. RenameAtom(atom, there) = [atom EXCEPT !.tags = once]
    BY DEF RenameAtom
  <2>2. [atom EXCEPT !.tags = once].tags = once
    BY DEF Atoms
  <2>3. b = [[atom EXCEPT !.tags = once] EXCEPT !.tags =
               [t \in DOMAIN once |-> RenameTag(once[t], back)]]
    BY <2>1, <2>2 DEF RenameAtom
  <2>4. [t \in DOMAIN once |-> RenameTag(once[t], back)] = twice
    OBVIOUS
  <2> HIDE DEF once, twice
  <2>5. [[atom EXCEPT !.tags = once] EXCEPT !.tags = twice] = [atom EXCEPT !.tags = twice]
    BY DEF Atoms
  <2> QED
    BY <2>3, <2>4, <2>5
<1> HIDE DEF Twice
<1>5. twice \in Seq(Tags)
  <2>1. twice \in [1..Len(tags) -> Tags]
    BY <1>2, <1>3
  <2> HIDE DEF twice
  <2> QED
    BY <1>2, <2>1, SeqDef
<1>6. DOMAIN twice = DOMAIN tags /\ \A t \in DOMAIN tags : twice[t] = Twice(t)
  OBVIOUS
<1> HIDE DEF twice, b
<1>7. b \in Atoms /\ b.kind = atom.kind /\ b.ch = atom.ch /\ b.tags = twice
  BY <1>4, <1>5 DEF Atoms
<1>8. ~UsesDrawName(b)
  BY <1>3, <1>6, <1>7 DEF UsesDrawName
<1>9. PlainAtom(b) = PlainAtom(atom)
  <2> DEFINE plain2 == [t \in DOMAIN b.tags |-> PlainTag(b.tags[t])]
             plain1 == [t \in DOMAIN tags |-> PlainTag(tags[t])]
  <2>1. plain2 = plain1
    <3>1. DOMAIN b.tags = DOMAIN tags
      BY <1>6, <1>7
    <3>2. \A t \in DOMAIN tags : PlainTag(b.tags[t]) = PlainTag(tags[t])
      BY <1>3, <1>6, <1>7
    <3> QED
      BY <3>1, <3>2
  <2>2. PlainAtom(b) = [b EXCEPT !.tags = plain2] /\ PlainAtom(atom) = [atom EXCEPT !.tags = plain1]
    BY DEF PlainAtom
  <2> HIDE DEF plain1, plain2
  <2>3. [b EXCEPT !.tags = plain1] = [atom EXCEPT !.tags = plain1]
    BY <1>4, <1>5 DEF Atoms
  <2> QED
    BY <2>1, <2>2, <2>3
<1> QED
  BY <1>7, <1>8, <1>9 DEF b

(* Neither the block before a glyph nor the glyph is renamed. *)
LEMMA GlyphsStay ==
    ASSUME NEW map, "assdrawsubset" \notin DOMAIN map
    PROVE  RenameAtom(DrawBlock, map) = DrawBlock /\ \A c : RenameAtom(Ch(c), map) = Ch(c)
<1>1. RenameAtom(DrawBlock, map) = DrawBlock
  <2> DEFINE tags == <<Fn(DrawName), P(0)>>
  <2>1. Renamed(DrawName, map) = DrawName
    BY DEF Renamed, DrawName, Lookup, Name
  <2>2. Fn(DrawName).name = "fn" /\ Fn(DrawName).font = DrawName /\ P(0).name = "p"
    BY DEF Fn, P, Tag
  <2>3. [Fn(DrawName) EXCEPT !.font = DrawName] = Fn(DrawName)
    <3>1. \A a, b, c, d : [Tag(a, b, c, d) EXCEPT !.font = b] = Tag(a, b, c, d)
      BY DEF Tag
    <3> QED
      BY <3>1 DEF Fn
  <2>4. RenameTag(Fn(DrawName), map) = Fn(DrawName) /\ RenameTag(P(0), map) = P(0)
    BY <2>1, <2>2, <2>3 DEF RenameTag
  <2>5. DOMAIN tags = 1..2 /\ tags[1] = Fn(DrawName) /\ tags[2] = P(0)
    OBVIOUS
  <2>5a. tags = [t \in DOMAIN tags |-> tags[t]]
    OBVIOUS
  <2>6. DrawBlock.tags = tags /\ DrawBlock = [kind |-> "block", ch |-> 0, tags |-> tags]
    BY DEF DrawBlock, Block
  <2> HIDE DEF tags
  <2>7. \A t \in DOMAIN tags : RenameTag(tags[t], map) = tags[t]
    <3>1. \A t \in 1..2 : t = 1 \/ t = 2
      OBVIOUS
    <3> QED
      BY <2>4, <2>5, <3>1
  <2>8. [t \in DOMAIN tags |-> RenameTag(tags[t], map)] = tags
    BY <2>5a, <2>7
  <2>9. RenameAtom(DrawBlock, map) = [DrawBlock EXCEPT !.tags = tags]
    BY <2>6, <2>8 DEF RenameAtom
  <2> QED
    BY <2>6, <2>9
<1>2. ASSUME NEW c PROVE RenameAtom(Ch(c), map) = Ch(c)
  <2> DEFINE new == [t \in DOMAIN <<>> |-> RenameTag(<<>>[t], map)]
  <2>1. new \in [DOMAIN <<>> -> Seq({})]
    <3>1. DOMAIN <<>> = {}
      OBVIOUS
    <3> QED
      BY <3>1
  <2>2. RenameAtom(Ch(c), map) = [Ch(c) EXCEPT !.tags = new]
    BY DEF RenameAtom, Ch
  <2> HIDE DEF new
  <2>3. new = <<>>
    BY <2>1, NoPositions
  <2> QED
    BY <2>2, <2>3 DEF Ch
<1> QED
  BY <1>1, <1>2

(* What was written is a block before a glyph, a glyph, or an atom of the line. *)
LEMMA AtomsTraced ==
    ASSUME NEW out \in Seq(Atoms), NEW atoms \in Seq(Atoms), NEW entries,
           AllTraced(out, atoms, entries), NEW k \in 1..Len(out)
    PROVE  \/ out[k] = DrawBlock
           \/ \E c : out[k] = Ch(c)
           \/ \E p \in 1..Len(atoms) : out[k] = atoms[p] /\ ~UsesDrawName(out[k])
<1>1. PICK off : Traced(out, atoms, entries, off)
  BY DEF AllTraced
<1>2. Len(out) \in Nat /\ Len(atoms) \in Nat /\ off \in [0..Len(out) -> 0..Len(atoms)]
      /\ \A m \in 1..Len(out) : TracedAt(out, atoms, entries, off, m)
  BY <1>1, LenProperties DEF Traced
<1>3. CASE off[k] = off[k - 1] + 1 /\ out[k] = atoms[off[k]] /\ ~UsesDrawName(out[k])
  <2>1. k \in 0..Len(out) /\ k - 1 \in 0..Len(out)
    BY <1>2
  <2>2. off[k] \in 0..Len(atoms) /\ off[k - 1] \in 0..Len(atoms)
    BY <1>2, <2>1
  <2>3. off[k] \in 1..Len(atoms)
    BY <1>2, <1>3, <2>2
  <2> QED
    BY <1>3, <2>3
<1>4. CASE k > 1 /\ UsesDrawName(out[k - 1])
  <2>1. k - 1 \in 1..Len(out) /\ (k - 1) + 1 = k
    BY <1>2, <1>4
  <2>2. TracedAt(out, atoms, entries, off, k - 1)
    BY <1>2, <2>1
  <2>3. \E data : StandsFor(out[k], entries, data) \/ ~UsesDrawName(out[k - 1])
    BY <2>1, <2>2 DEF TracedAt
  <2> QED
    BY <1>4, <2>3 DEF StandsFor
<1> QED
  BY <1>2, <1>3, <1>4 DEF TracedAt

(* The names of a line's tags come back.                                       *)
TagsRestored(atoms, there, back) ==
    \A p \in 1..Len(atoms) :
       \A t \in DOMAIN atoms[p].tags : Restores(atoms[p].tags[t].font, there, back)

(* Atoms renamed twice.                                                        *)
BothWays(out, there, back) == [k \in DOMAIN out |-> RenameAtom(RenameAtom(out[k], there), back)]

(* A line whose drawings were made glyphs and whose names were changed comes back. *)
LEMMA LineRestored ==
    ASSUME NEW atoms \in Seq(Atoms), NEW out \in Seq(Atoms), NEW entries \in Seq(Seq(Atoms)),
           AllTraced(out, atoms, entries), NEW draws, DrawsFor(draws, entries),
           NEW there, "assdrawsubset" \notin DOMAIN there, NEW back, "assdrawsubset" \notin DOMAIN back,
           TagsRestored(atoms, there, back),
           NEW twice, twice = BothWays(out, there, back)
    PROVE  /\ DOMAIN RestoreDrawings(twice, draws) = DOMAIN atoms
           /\ \A p \in DOMAIN atoms :
                 PlainAtom(RestoreDrawings(twice, draws)[p]) = PlainAtom(atoms[p])
<1>1. /\ Len(out) \in Nat /\ DOMAIN out = 1..Len(out) /\ \A k \in 1..Len(out) : out[k] \in Atoms
      /\ Len(atoms) \in Nat /\ DOMAIN atoms = 1..Len(atoms) /\ \A p \in 1..Len(atoms) : atoms[p] \in Atoms
  BY LenProperties, ElementOfSeq
<1> DEFINE Twice(k) == RenameAtom(RenameAtom(out[k], there), back)
<1>2. ASSUME NEW k \in 1..Len(out)
      PROVE  /\ Twice(k) \in Atoms /\ Twice(k).kind = out[k].kind /\ Twice(k).ch = out[k].ch
             /\ UsesDrawName(Twice(k)) <=> UsesDrawName(out[k])
             /\ \A p \in 1..Len(atoms) : out[k] = atoms[p] => PlainAtom(Twice(k)) = PlainAtom(atoms[p])
  <2>1. ASSUME NEW p \in 1..Len(atoms), out[k] = atoms[p]
        PROVE  /\ Twice(k) \in Atoms /\ Twice(k).kind = out[k].kind /\ Twice(k).ch = out[k].ch
               /\ ~UsesDrawName(out[k]) => ~UsesDrawName(Twice(k))
               /\ PlainAtom(Twice(k)) = PlainAtom(out[k])
    <3> DEFINE atom == out[k]
    <3>1. atom \in Atoms /\ \A t \in DOMAIN atom.tags : Restores(atom.tags[t].font, there, back)
      BY <1>1, <2>1 DEF TagsRestored
    <3> HIDE DEF atom
    <3>2. LET b == RenameAtom(RenameAtom(atom, there), back)
          IN  /\ b \in Atoms /\ b.kind = atom.kind /\ b.ch = atom.ch
              /\ (~UsesDrawName(atom) => ~UsesDrawName(b)) /\ PlainAtom(b) = PlainAtom(atom)
      BY <3>1, AtomRestored
    <3> QED
      BY <3>2 DEF atom
  <2>2. CASE out[k] = DrawBlock
    <3>1. Twice(k) = out[k]
      BY <2>2, GlyphsStay
    <3> HIDE DEF Twice
    <3> QED
      BY <1>1, <2>1, <3>1
  <2>3. CASE \E c : out[k] = Ch(c)
    <3>1. Twice(k) = out[k]
      BY <2>3, GlyphsStay
    <3> HIDE DEF Twice
    <3> QED
      BY <1>1, <2>1, <3>1
  <2>4. CASE \E p \in 1..Len(atoms) : out[k] = atoms[p] /\ ~UsesDrawName(out[k])
    <3> HIDE DEF Twice
    <3> QED
      BY <2>1, <2>4
  <2> QED
    BY <2>2, <2>3, <2>4, AtomsTraced
<1>3. \A k \in 1..Len(out) : twice[k] = Twice(k)
  BY <1>1 DEF BothWays
<1>4. twice \in Seq(Atoms) /\ Len(twice) = Len(out)
  <2>1. twice = [k \in 1..Len(out) |-> Twice(k)]
    BY <1>1 DEF BothWays
  <2>2. \A k \in 1..Len(out) : Twice(k) \in Atoms
    BY <1>2
  <2> HIDE DEF Twice
  <2>3. twice \in [1..Len(out) -> Atoms]
    BY <2>1, <2>2
  <2>4. Len(out) \in Nat
    BY <1>1
  <2>5. \A n \in Nat : \A s \in [1..n -> Atoms] : s \in Seq(Atoms) /\ Len(s) = n
    BY SeqDef, LenProperties
  <2> QED
    BY <2>3, <2>4, <2>5
<1> HIDE DEF Twice
<1>5. Renamings(twice, out)
  BY <1>2, <1>3, <1>4 DEF Renamings
<1>5a. DrawsFor(draws, entries) /\ AllTraced(out, atoms, entries)
  OBVIOUS
<1>6. /\ RestoreDrawings(twice, draws) \in Seq(Atoms) /\ Len(RestoreDrawings(twice, draws)) = Len(atoms)
      /\ \A p \in 1..Len(atoms) :
            \/ RestoreDrawings(twice, draws)[p] = atoms[p]
            \/ \E k \in 1..Len(out) : out[k] = atoms[p] /\ RestoreDrawings(twice, draws)[p] = twice[k]
  BY ONLY <1>5, <1>5a, DrawingsRestored, atoms \in Seq(Atoms), out \in Seq(Atoms),
         entries \in Seq(Seq(Atoms))
<1> DEFINE line == RestoreDrawings(twice, draws)
<1>6a. /\ line \in Seq(Atoms) /\ Len(line) = Len(atoms)
       /\ \A p \in 1..Len(atoms) :
             \/ line[p] = atoms[p]
             \/ \E k \in 1..Len(out) : out[k] = atoms[p] /\ line[p] = twice[k]
  BY <1>6
<1> HIDE DEF line
<1>7. DOMAIN line = DOMAIN atoms
  BY <1>1, <1>6a, LenProperties
<1>8. ASSUME NEW p \in 1..Len(atoms) PROVE PlainAtom(line[p]) = PlainAtom(atoms[p])
  <2>1. CASE line[p] = atoms[p]
    BY <2>1
  <2>2. ASSUME NEW k \in 1..Len(out), out[k] = atoms[p], line[p] = twice[k]
        PROVE  PlainAtom(line[p]) = PlainAtom(atoms[p])
    BY <1>2, <1>3, <2>2
  <2> QED
    BY <1>6a, <2>1, <2>2
<1> QED
  BY <1>1, <1>7, <1>8 DEF line

-------------------------------------------------------------------------------
(* A text renamed there and back, its drawings made glyphs and put back.       *)

(* Styles and lines to compare, as Comparable has them.                        *)
PlainStyle(s) == [s EXCEPT !.font = Plain(s.font)]
PlainLine(l)  == [l EXCEPT !.atoms = [k \in DOMAIN l.atoms |-> PlainAtom(l.atoms[k])]]

(* A style whose font comes back compares the same. *)
LEMMA StyleRestored ==
    ASSUME NEW style \in Styles, NEW there, NEW back, Restores(style.font, there, back)
    PROVE  LET once  == [style EXCEPT !.font = Renamed(style.font, there)]
               twice == [once EXCEPT !.font = Renamed(once.font, back)]
           IN  PlainStyle(twice) = PlainStyle(style)
<1> DEFINE m1 == Renamed(style.font, there)
           m  == Renamed(m1, back)
           p  == Plain(style.font)
           once  == [style EXCEPT !.font = m1]
           twice == [once EXCEPT !.font = Renamed(once.font, back)]
<1>1. Plain(m) = p
  BY DEF Restores
<1>2. once.font = m1
  BY DEF Styles
<1>3. twice = [once EXCEPT !.font = m]
  BY <1>2
<1> HIDE DEF m, m1, p, twice
<1>4. twice.font = m
  BY <1>3 DEF Styles
<1>5. [twice EXCEPT !.font = p] = [style EXCEPT !.font = p]
  BY <1>3 DEF Styles
<1> QED
  BY <1>1, <1>4, <1>5 DEF m1, p, twice, PlainStyle

(* A line whose drawings were made glyphs, renamed twice, with drawings in     *)
(* place of glyphs: it compares as before.                                     *)
LEMMA LineComesBack ==
    ASSUME NEW line \in Lines, NEW drawn, NEW entries \in Seq(Seq(Atoms)), TracedLine(drawn, line, entries),
           NEW draws, DrawsFor(draws, entries),
           NEW there, "assdrawsubset" \notin DOMAIN there, NEW back, "assdrawsubset" \notin DOMAIN back,
           TagsRestored(line.atoms, there, back),
           NEW twice, twice = RenameLine(RenameLine(drawn, there), back),
           NEW after, after = [twice EXCEPT !.atoms = RestoreDrawings(twice.atoms, draws)]
    PROVE  PlainLine(after) = PlainLine(line)
<1>1. PICK out \in Seq(Atoms) : drawn = [line EXCEPT !.atoms = out] /\ AllTraced(out, line.atoms, entries)
  BY DEF TracedLine
<1>2. line.atoms \in Seq(Atoms)
  BY DEF Lines
<1> DEFINE atoms == line.atoms
           once  == [k \in DOMAIN out |-> RenameAtom(out[k], there)]
           both  == [k \in DOMAIN out |-> RenameAtom(RenameAtom(out[k], there), back)]
           put   == RestoreDrawings(both, draws)
<1>3. twice = [line EXCEPT !.atoms = both]
  <2>1. drawn.atoms = out
    BY <1>1 DEF Lines
  <2>2. RenameLine(drawn, there) = [drawn EXCEPT !.atoms = once]
    BY <2>1 DEF RenameLine
  <2>3. RenameLine(drawn, there) = [line EXCEPT !.atoms = once]
    <3> HIDE DEF once
    <3> QED
      BY <1>1, <2>2 DEF Lines
  <2>4. [line EXCEPT !.atoms = once].atoms = once
    <3> HIDE DEF once
    <3> QED
      BY DEF Lines
  <2>5. RenameLine([line EXCEPT !.atoms = once], back)
           = [[line EXCEPT !.atoms = once] EXCEPT !.atoms = [k \in DOMAIN once |-> RenameAtom(once[k], back)]]
    BY <2>4 DEF RenameLine
  <2>6. [k \in DOMAIN once |-> RenameAtom(once[k], back)] = both
    OBVIOUS
  <2> HIDE DEF once, both
  <2>7. [[line EXCEPT !.atoms = once] EXCEPT !.atoms = both] = [line EXCEPT !.atoms = both]
    BY DEF Lines
  <2> QED
    BY <2>3, <2>5, <2>6, <2>7
<1>4. DOMAIN put = DOMAIN atoms /\ \A p \in DOMAIN atoms : PlainAtom(put[p]) = PlainAtom(atoms[p])
  <2>1. /\ DOMAIN RestoreDrawings(both, draws) = DOMAIN atoms
        /\ \A p \in DOMAIN atoms : PlainAtom(RestoreDrawings(both, draws)[p]) = PlainAtom(atoms[p])
    <3>1. AllTraced(out, atoms, entries) /\ DrawsFor(draws, entries) /\ TagsRestored(atoms, there, back)
          /\ atoms \in Seq(Atoms) /\ out \in Seq(Atoms) /\ entries \in Seq(Seq(Atoms))
          /\ "assdrawsubset" \notin DOMAIN there /\ "assdrawsubset" \notin DOMAIN back
      BY <1>1, <1>2
    <3>2. both = BothWays(out, there, back)
      BY DEF BothWays
    <3> HIDE DEF both
    <3> QED
      BY ONLY <3>1, <3>2, LineRestored
  <2> HIDE DEF both
  <2> QED
    BY <2>1
<1> HIDE DEF both
<1>5. after = [line EXCEPT !.atoms = put]
  <2>1. twice.atoms = both
    BY <1>3 DEF Lines
  <2>2. after = [twice EXCEPT !.atoms = put]
    BY <2>1
  <2> HIDE DEF put
  <2> QED
    BY <1>3, <2>2 DEF Lines
<1> HIDE DEF put
<1>6. after.atoms = put
  BY <1>5 DEF Lines
<1> DEFINE plain2 == [k \in DOMAIN after.atoms |-> PlainAtom(after.atoms[k])]
           plain1 == [k \in DOMAIN line.atoms |-> PlainAtom(line.atoms[k])]
<1>7. plain2 = plain1
  BY <1>4, <1>6
<1> HIDE DEF plain1, plain2
<1>8. [after EXCEPT !.atoms = plain1] = [line EXCEPT !.atoms = plain1]
  BY <1>5 DEF Lines
<1>9. [after EXCEPT !.atoms = plain2] = [line EXCEPT !.atoms = plain1]
  BY <1>7, <1>8
<1> QED
  BY <1>9 DEF plain1, plain2, PlainLine

(* What rewrite_strip_embedded makes of styles and lines.                      *)
PutBack(after, doc, map, draws) ==
    /\ after.styles = RenameStyles(doc.styles, map)
    /\ DOMAIN after.lines = DOMAIN doc.lines
    /\ \A i \in DOMAIN doc.lines : \E line :
          /\ line = RenameLine(doc.lines[i], map)
          /\ after.lines[i] = [line EXCEPT !.atoms = RestoreDrawings(line.atoms, draws)]

(* Lines traced to those of a subtitle.                                        *)
TracedLines(lines, doc, entries) ==
    /\ DOMAIN lines = DOMAIN doc.lines
    /\ \A i \in DOMAIN doc.lines : TracedLine(lines[i], doc.lines[i], entries)

NamesRestored(doc, there, back) ==
    /\ "assdrawsubset" \notin DOMAIN there /\ "assdrawsubset" \notin DOMAIN back
    /\ \A n \in Names(doc) : Restores(n, there, back)

(* A subtitle, its lines with drawings made glyphs, the text converted, and    *)
(* the text given back.                                                        *)
ThereAndBack(doc, lines, entries, there, middle, draws, back, after) ==
    /\ doc.styles \in [DOMAIN doc.styles -> Styles] /\ doc.lines \in Seq(Lines)
    /\ entries \in Seq(Seq(Atoms)) /\ TracedLines(lines, doc, entries) /\ DrawsFor(draws, entries)
    /\ NamesRestored(doc, there, back)
    /\ middle.styles = RenameStyles(doc.styles, there) /\ middle.lines = RenameTags(lines, there)
    /\ PutBack(after, middle, back, draws)

(* A text of which all names come back and whose drawings are known. *)
LEMMA TextComesBack ==
    ASSUME NEW doc, NEW lines, NEW entries, NEW there, NEW middle, NEW draws, NEW back, NEW after,
           ThereAndBack(doc, lines, entries, there, middle, draws, back, after)
    PROVE  Comparable(after) = Comparable(doc)
<1>a. doc.styles \in [DOMAIN doc.styles -> Styles] /\ doc.lines \in Seq(Lines) /\ entries \in Seq(Seq(Atoms))
     /\ DrawsFor(draws, entries) /\ middle.styles = RenameStyles(doc.styles, there)
     /\ middle.lines = RenameTags(lines, there)
  BY DEF ThereAndBack
<1> USE <1>a
<1>0. /\ "assdrawsubset" \notin DOMAIN there /\ "assdrawsubset" \notin DOMAIN back
      /\ \A n \in Names(doc) : Restores(n, there, back)
      /\ DOMAIN lines = DOMAIN doc.lines
      /\ \A i \in DOMAIN doc.lines : TracedLine(lines[i], doc.lines[i], entries)
      /\ after.styles = RenameStyles(middle.styles, back) /\ DOMAIN after.lines = DOMAIN middle.lines
      /\ \A i \in DOMAIN middle.lines : \E line :
            /\ line = RenameLine(middle.lines[i], back)
            /\ after.lines[i] = [line EXCEPT !.atoms = RestoreDrawings(line.atoms, draws)]
  BY DEF ThereAndBack, PutBack, TracedLines, NamesRestored
<1>1. \A d : Comparable(d) = [styles |-> [s \in DOMAIN d.styles |-> PlainStyle(d.styles[s])],
                              lines  |-> [i \in DOMAIN d.lines |-> PlainLine(d.lines[i])]]
  BY DEF Comparable, PlainStyle, PlainLine
<1>2. DOMAIN after.styles = DOMAIN doc.styles
      /\ \A s \in DOMAIN doc.styles : PlainStyle(after.styles[s]) = PlainStyle(doc.styles[s])
  <2>1. DOMAIN middle.styles = DOMAIN doc.styles /\ DOMAIN after.styles = DOMAIN doc.styles
    BY <1>0 DEF RenameStyles
  <2>2. ASSUME NEW s \in DOMAIN doc.styles PROVE PlainStyle(after.styles[s]) = PlainStyle(doc.styles[s])
    <3> DEFINE style == doc.styles[s]
               once  == [style EXCEPT !.font = Renamed(style.font, there)]
               twice == [once EXCEPT !.font = Renamed(once.font, back)]
    <3>1. style \in Styles /\ Restores(style.font, there, back)
      BY <1>0, NamesOf
    <3>2. middle.styles[s] = once
      BY DEF RenameStyles
    <3>3. after.styles[s] = twice
      <4>1. after.styles[s] = [middle.styles[s] EXCEPT !.font = Renamed(middle.styles[s].font, back)]
        BY <1>0, <2>1 DEF RenameStyles
      <4> HIDE DEF once
      <4> QED
        BY <3>2, <4>1
    <3> HIDE DEF style
    <3>4. PlainStyle(twice) = PlainStyle(style)
      BY <3>1, StyleRestored
    <3> HIDE DEF once, twice
    <3> QED
      BY <3>3, <3>4 DEF style
  <2> QED
    BY <2>1, <2>2
<1>3. DOMAIN after.lines = DOMAIN doc.lines
      /\ \A i \in DOMAIN doc.lines : PlainLine(after.lines[i]) = PlainLine(doc.lines[i])
  <2>1. DOMAIN middle.lines = DOMAIN doc.lines /\ DOMAIN after.lines = DOMAIN doc.lines
    BY <1>0 DEF RenameTags
  <2>2. ASSUME NEW i \in DOMAIN doc.lines PROVE PlainLine(after.lines[i]) = PlainLine(doc.lines[i])
    <3> DEFINE line == doc.lines[i]
               drawn == lines[i]
    <3>1. line \in Lines /\ TracedLine(drawn, line, entries)
      BY <1>0, LenProperties, ElementOfSeq
    <3>2. TagsRestored(line.atoms, there, back)
      <4>1. line.atoms \in Seq(Atoms)
        BY <3>1 DEF Lines
      <4>2. DOMAIN line.atoms = 1..Len(line.atoms)
        BY <4>1, LenProperties
      <4> QED
        BY <1>0, <4>2, NamesOf DEF TagsRestored
    <3>3. middle.lines[i] = RenameLine(drawn, there)
      BY <1>0 DEF RenameTags, RenameLine
    <3>4. PICK twice : /\ twice = RenameLine(middle.lines[i], back)
                       /\ after.lines[i] = [twice EXCEPT !.atoms = RestoreDrawings(twice.atoms, draws)]
      BY <1>0, <2>1
    <3>5. twice = RenameLine(RenameLine(drawn, there), back)
      BY <3>3, <3>4
    <3>6. PICK now : now = after.lines[i]
      OBVIOUS
    <3>7. now = [twice EXCEPT !.atoms = RestoreDrawings(twice.atoms, draws)]
      BY <3>4, <3>6
    <3> HIDE DEF line, drawn
    <3>8. PlainLine(now) = PlainLine(line)
      BY ONLY <1>a, <1>0, <3>1, <3>2, <3>5, <3>7, LineComesBack
    <3> QED
      BY <3>6, <3>8 DEF line
  <2> QED
    BY <2>1, <2>2
<1>4. [s \in DOMAIN after.styles |-> PlainStyle(after.styles[s])]
         = [s \in DOMAIN doc.styles |-> PlainStyle(doc.styles[s])]
  BY <1>2
<1>5. [i \in DOMAIN after.lines |-> PlainLine(after.lines[i])]
         = [i \in DOMAIN doc.lines |-> PlainLine(doc.lines[i])]
  BY <1>3
<1> QED
  BY <1>1, <1>4, <1>5

-------------------------------------------------------------------------------
(* What stripping finds in the fonts of a conversion.                          *)

(* An embedded font, as it is read again.                                      *)
AsRead(f) == [family |-> f.family, slot |-> f.slot, data |-> f.data]
AllRead   == [k \in DOMAIN embedded |-> AsRead(embedded[k])]

(* The section of the fonts is read again as these fonts. *)
LEMMA OwnFontsRead ==
    ASSUME embedded \in Seq(Fonts), DataReadable
    PROVE  ParseFonts(FontSection(embedded)) = AllRead /\ AllRead \in Seq(FoundFonts)
           /\ FontSection(embedded) = FontSection(AllRead)
<1>1. Len(embedded) \in Nat /\ DOMAIN embedded = 1..Len(embedded)
      /\ \A k \in DOMAIN embedded : embedded[k] \in Fonts
  BY LenProperties, ElementOfSeq
<1>2. ASSUME NEW k \in DOMAIN embedded PROVE AsRead(embedded[k]) \in FoundFonts
  <2>1. ToSet(FontFiles) \subseteq Seq(Byte)
    <3>1. \A i \in DOMAIN FontFiles : FontFiles[i] \in Seq(Byte)
      <4>1. FontFiles \in Seq(Seq(Byte))
        BY TextAssumption DEF TextAssumption
      <4> QED
        BY <4>1, LenProperties, ElementOfSeq
    <3> QED
      BY <3>1 DEF ToSet
  <2>2. embedded[k].slot \in ToSet(Slots)
    BY <1>1, TheSlots DEF Fonts
  <2>3. embedded[k].family \in FontNames /\ embedded[k].data \in Seq(Byte)
    BY <1>1, <2>1 DEF Fonts
  <2> QED
    BY <2>2, <2>3 DEF AsRead, FoundFonts
<1>3. AllRead \in Seq(FoundFonts)
  <2>1. AllRead \in [1..Len(embedded) -> FoundFonts]
    BY <1>1, <1>2 DEF AllRead
  <2>2. \A n \in Nat : \A s \in [1..n -> FoundFonts] : s \in Seq(FoundFonts)
    BY SeqDef
  <2> QED
    BY <1>1, <2>1, <2>2
<1>4. \A f \in ToSet(AllRead) : Readable(f)
  <2>1. \A k \in DOMAIN embedded : Readable(AsRead(embedded[k])) <=> Readable(embedded[k])
    BY DEF Readable, AsRead
  <2> QED
    BY <2>1 DEF ToSet, AllRead, DataReadable
<1>5. FontSection(embedded) = FontSection(AllRead)
  <2> DEFINE Piece(f) == <<FontLine("fontname", f.family, f.slot, <<>>)>>
                            \o DataLines(Encode(f.data))
                            \o <<FontLine("blank", NoName, "", <<>>)>>
  <2>1. \A fonts : FontSection(fonts) = FlattenSeq([i \in DOMAIN fonts |-> Piece(fonts[i])])
    BY DEF FontSection
  <2>2. \A f : Piece(AsRead(f)) = Piece(f)
    BY DEF AsRead
  <2> HIDE DEF Piece
  <2>3. [i \in DOMAIN AllRead |-> Piece(AllRead[i])] = [i \in DOMAIN embedded |-> Piece(embedded[i])]
    BY <2>2 DEF AllRead
  <2> QED
    BY <2>1, <2>3
<1>6. ParseFonts(FontSection(AllRead)) = AllRead
  BY <1>3, <1>4, SectionReadsBack
<1> QED
  BY <1>3, <1>5, <1>6

(* All of it is found.                                                         *)
AllFound(found) == found = {embedded[k].data : k \in DOMAIN embedded}

(* So the worker gives back every font that was renamed and whose name it can  *)
(* read, and no other,                                                         *)
LEMMA MapsFound ==
    ASSUME NEW found, AllFound(found), embedded \in Seq(Fonts), NamesReadBack, NEW m
    PROVE  m \in UNION {SubsetMap(d) : d \in found}
           <=> \E k \in DOMAIN embedded :
                  /\ embedded[k].original # embedded[k].family
                  /\ ReadAs[Lookup(embedded[k].original)] # ""
                  /\ m = [subset |-> embedded[k].family, original |-> embedded[k].original]
<1>1. \A d : m \in SubsetMap(d) <=> \E k \in DOMAIN embedded :
                  /\ embedded[k].data = d
                  /\ embedded[k].original # embedded[k].family
                  /\ ReadAs[Lookup(embedded[k].original)] # ""
                  /\ m = [subset |-> embedded[k].family,
                          original |-> [embedded[k].original EXCEPT !.face = ReadAs[@]]]
  BY DEF SubsetMap, MadeHere
<1>2. m \in UNION {SubsetMap(d) : d \in found} <=> \E d \in found : m \in SubsetMap(d)
  OBVIOUS
<1>3. \A k \in DOMAIN embedded : embedded[k].data \in found
  BY DEF AllFound
<1>4. ASSUME NEW k \in DOMAIN embedded, ReadAs[Lookup(embedded[k].original)] # ""
      PROVE  [embedded[k].original EXCEPT !.face = ReadAs[@]] = embedded[k].original
  <2>0. embedded[k] \in Fonts
    BY LenProperties, ElementOfSeq
  <2>1. embedded[k].original \in FontNames
    BY <2>0 DEF Fonts
  <2>2. ReadAs[embedded[k].original.face] = embedded[k].original.face
    BY <1>4 DEF NamesReadBack, Lookup
  <2> QED
    BY <2>1, <2>2 DEF FontNames
<1> QED
  BY <1>1, <1>2, <1>3, <1>4

(* and every drawing. *)
LEMMA DrawingsFound ==
    ASSUME NEW found, AllFound(found), NEW lines, NEW entries, DrawnFrom(lines, entries),
           NEW draws, StripDraws(found, draws), DrawnBack(found, draws)
    PROVE  DrawsFor(draws, entries)
<1> DEFINE all == UNION {DrawEntries(d) : d \in found}
<1>1. ASSUME NEW e
      PROVE  e \in all <=> \E k \in DOMAIN embedded : \E i \in DOMAIN embedded[k].draws :
                              e = [ch |-> Glyph(i), data |-> embedded[k].draws[i]]
  <2>1. \A d : e \in DrawEntries(d) <=> \E k \in MadeHere(d) : \E i \in DOMAIN embedded[k].draws :
                              e = [ch |-> Glyph(i), data |-> embedded[k].draws[i]]
    BY DEF DrawEntries
  <2>2. \A d, k : k \in MadeHere(d) <=> k \in DOMAIN embedded /\ embedded[k].data = d
    BY DEF MadeHere
  <2>3. \A k \in DOMAIN embedded : embedded[k].data \in found
    BY DEF AllFound
  <2>4. e \in all <=> \E d \in found : e \in DrawEntries(d)
    OBVIOUS
  <2> HIDE DEF all
  <2> QED
    BY <2>1, <2>2, <2>3, <2>4
<1>2. /\ entries \in Seq(Seq(Atoms))
      /\ \A k \in DOMAIN embedded : embedded[k].draws = <<>> \/ embedded[k].draws = entries
      /\ entries # <<>> => \E k \in DOMAIN embedded : embedded[k].draws = entries
  BY DEF DrawnFrom, LoopFont, DrawingFont
<1>3. DOMAIN <<>> = {}
  OBVIOUS
<1> HIDE DEF all
<1>4. \A e : e \in all <=> \E i \in DOMAIN entries : e = [ch |-> Glyph(i), data |-> entries[i]]
  BY <1>1, <1>2, <1>3
<1>5. DOMAIN draws = {e.ch : e \in all}
  BY DEF StripDraws, all
<1>6. DOMAIN draws = {Glyph(i) : i \in DOMAIN entries}
  <2>1. ASSUME NEW e \in all PROVE \E i \in DOMAIN entries : e.ch = Glyph(i)
    <3>1. PICK i \in DOMAIN entries : e = [ch |-> Glyph(i), data |-> entries[i]]
      BY <1>4
    <3> QED
      BY <3>1
  <2>2. ASSUME NEW i \in DOMAIN entries PROVE \E e \in all : e.ch = Glyph(i)
    <3> DEFINE e == [ch |-> Glyph(i), data |-> entries[i]]
    <3>1. e \in all /\ e.ch = Glyph(i)
      BY <1>4
    <3> QED
      BY <3>1
  <2> QED
    BY <1>5, <2>1, <2>2
<1>7. ASSUME NEW i \in DOMAIN entries PROVE draws[Glyph(i)] = entries[i]
  <2>1. Glyph(i) \in DOMAIN draws
    BY <1>6
  <2>2. PICK e \in all : e.ch = Glyph(i) /\ draws[Glyph(i)] = e.data
    BY <2>1 DEF DrawnBack, all
  <2>3. PICK j \in DOMAIN entries : e = [ch |-> Glyph(j), data |-> entries[j]]
    BY <1>4, <2>2
  <2>4. e.ch = Glyph(j) /\ e.data = entries[j]
    BY <2>3
  <2>5. i \in Nat /\ j \in Nat
    BY <1>2, LenProperties
  <2>6. i = j
    BY <2>2, <2>4, <2>5 DEF Glyph
  <2> QED
    BY <2>2, <2>4, <2>6
<1> QED
  BY <1>6, <1>7 DEF DrawsFor

-------------------------------------------------------------------------------
(* The comments of a conversion.                                               *)

(* A comment gives a renamed font, or a name given, its name back.             *)
Marks == [subset : FontNames, original : FontNames]
OwnComment(c) ==
    \/ \E k \in DOMAIN embedded :
          /\ embedded[k].original # embedded[k].family
          /\ c = [subset |-> embedded[k].family, original |-> embedded[k].original]
    \/ \E f \in DOMAIN names : c = [subset |-> names[f], original |-> Name(f)]

(* A finite set, as a sequence. *)
LEMMA SetAsSequence ==
    ASSUME NEW S, IsFiniteSet(S)
    PROVE  SetToSeq(S) \in Seq(S) /\ ToSet(SetToSeq(S)) \subseteq S
<1> DEFINE n == Cardinality(S)
<1>1. n \in Nat /\ \E f \in [1..n -> S] : IsInjective(f)
  BY FS_CardinalityType DEF ExistsBijection, Bijection, Injection
<1>2. SetToSeq(S) = CHOOSE f \in [1..n -> S] : IsInjective(f)
  BY DEF SetToSeq
<1> HIDE DEF n
<1>3. SetToSeq(S) \in [1..n -> S]
  BY <1>1, <1>2
<1>4. \A s \in [1..n -> S] : s \in Seq(S) /\ ToSet(s) \subseteq S
  BY <1>1, SeqDef DEF ToSet
<1> QED
  BY <1>3, <1>4

(* An image of a finite set is finite: that of the names given as comments. *)
LEMMA NamesAsComments ==
    ASSUME IsFiniteSet(DOMAIN names), NEW T \in SUBSET DOMAIN names
    PROVE  IsFiniteSet({[subset |-> names[face], original |-> Name(face)] : face \in T})
<1> DEFINE S == {[subset |-> names[face], original |-> Name(face)] : face \in T}
           f == [face \in T |-> [subset |-> names[face], original |-> Name(face)]]
<1>1. IsFiniteSet(T)
  BY FS_Subset
<1>2. f \in Surjection(T, S)
  <2>1. f \in [T -> S]
    OBVIOUS
  <2>2. \A x \in S : \E face \in T : f[face] = x
    OBVIOUS
  <2> QED
    BY <2>1, <2>2 DEF Surjection
<1> HIDE DEF S, f
<1>3. IsFiniteSet(S)
  BY <1>1, <1>2, FS_Surjection
<1> QED
  BY <1>3 DEF S

(* Every comment written is one of these. *)
LEMMA OwnComments ==
    ASSUME embedded \in Seq(Fonts), Renames(names), IsFiniteSet(DOMAIN names)
    PROVE  /\ SubsetComments(embedded, names) \in Seq(Marks)
           /\ \A c \in ToSet(SubsetComments(embedded, names)) : OwnComment(c)
<1> DEFINE kept == {f \in ToSet(embedded) : f.original # f.family}
           renamed == Those(embedded, kept)
           Earliest(k) == \A j \in 1..k - 1 : Lookup(renamed[j].family) # Lookup(renamed[k].family)
           Pair(x) == [subset |-> x.family, original |-> x.original]
           seqs == [k \in DOMAIN renamed |-> IF Earliest(k) THEN <<Pair(renamed[k])>> ELSE <<>>]
           faces == {f \in DOMAIN names : Lookup(names[f]) # f}
           set == {[subset |-> names[face], original |-> Name(face)] : face \in faces}
<1>1. SubsetComments(embedded, names) = IF renamed # <<>> THEN FlattenSeq(seqs) ELSE SetToSeq(set)
  BY DEF SubsetComments
<1>2. FlattenSeq(seqs) \in Seq(Marks) /\ \A c \in ToSet(FlattenSeq(seqs)) : OwnComment(c)
  <2>1. /\ renamed \in Seq(Fonts)
        /\ \A x \in ToSet(renamed) : x \in ToSet(embedded) /\ x \in kept
    BY ThoseElements
  <2>2. \A x \in ToSet(embedded) : \E k \in DOMAIN embedded : x = embedded[k]
    BY DEF ToSet
  <2> HIDE DEF renamed
  <2>3. Len(renamed) \in Nat /\ DOMAIN renamed = 1..Len(renamed)
        /\ \A k \in DOMAIN renamed : renamed[k] \in Fonts /\ renamed[k] \in ToSet(renamed)
    BY <2>1, LenProperties, ElementOfSeq DEF ToSet
  <2>4. ASSUME NEW k \in DOMAIN renamed
        PROVE  Pair(renamed[k]) \in Marks /\ OwnComment(Pair(renamed[k]))
    <3>1. Pair(renamed[k]) \in Marks
      BY <2>3 DEF Fonts, Marks
    <3>2. renamed[k] \in ToSet(embedded) /\ renamed[k] \in kept
      BY <2>1, <2>3
    <3>3. PICK m \in DOMAIN embedded : renamed[k] = embedded[m]
      BY <2>2, <3>2
    <3>4. OwnComment(Pair(renamed[k]))
      BY <3>2, <3>3 DEF OwnComment
    <3> QED
      BY <3>1, <3>4
  <2>5. ASSUME NEW k \in DOMAIN renamed
        PROVE  seqs[k] \in Seq(Marks) /\ \A c \in ToSet(seqs[k]) : OwnComment(c)
    <3> HIDE DEF Pair
    <3>1. CASE Earliest(k)
      <4>1. seqs[k] = <<Pair(renamed[k])>>
        BY <3>1
      <4>2. <<Pair(renamed[k])>> \in Seq(Marks) /\ ToSet(<<Pair(renamed[k])>>) = {Pair(renamed[k])}
        BY <2>4, SingletonSeq
      <4> HIDE DEF seqs
      <4> QED
        BY <2>4, <4>1, <4>2
    <3>2. CASE ~Earliest(k)
      <4>1. seqs[k] = <<>>
        BY <3>2
      <4> HIDE DEF seqs
      <4> QED
        BY <4>1, NothingInEmpty, EmptySeq
    <3> QED
      BY <3>1, <3>2
  <2>6. DOMAIN seqs = DOMAIN renamed /\ seqs = [k \in DOMAIN seqs |-> seqs[k]]
    OBVIOUS
  <2> HIDE DEF seqs
  <2>7. seqs \in [1..Len(renamed) -> Seq(Marks)]
    BY <2>3, <2>5, <2>6
  <2>8. seqs \in Seq(Seq(Marks))
    BY <2>3, <2>7, PiecesOfSeq
  <2>9. /\ FlattenSeq(seqs) \in Seq(Marks)
        /\ \A c : c \in ToSet(FlattenSeq(seqs)) <=> \E k \in DOMAIN seqs : c \in ToSet(seqs[k])
    BY <2>8, FlattenElements
  <2> QED
    BY <2>5, <2>6, <2>9
<1>3. SetToSeq(set) \in Seq(Marks) /\ \A c \in ToSet(SetToSeq(set)) : OwnComment(c)
  <2>1. ASSUME NEW c \in set PROVE c \in Marks /\ OwnComment(c)
    <3>1. PICK face \in DOMAIN names : c = [subset |-> names[face], original |-> Name(face)]
      OBVIOUS
    <3>2. face \in Words /\ \E new \in Words : names[face] = Name(new)
      BY DEF Renames
    <3>3. \A w \in Words : Name(w) \in FontNames
      BY DEF Name, FontNames
    <3>4. c \in Marks
      BY <3>1, <3>2, <3>3 DEF Marks
    <3> QED
      BY <3>1, <3>4 DEF OwnComment
  <2>2. IsFiniteSet(set)
    <3>1. faces \in SUBSET DOMAIN names
      OBVIOUS
    <3> HIDE DEF faces
    <3> QED
      BY <3>1, NamesAsComments
  <2> HIDE DEF set
  <2>3. SetToSeq(set) \in Seq(set) /\ ToSet(SetToSeq(set)) \subseteq set
    BY <2>2, SetAsSequence
  <2>4. Seq(set) \subseteq Seq(Marks)
    <3>1. set \subseteq Marks
      BY <2>1
    <3>2. ASSUME NEW s \in Seq(set) PROVE s \in Seq(Marks)
      <4>1. Len(s) \in Nat /\ DOMAIN s = 1..Len(s) /\ s \in [1..Len(s) -> set]
        BY LenProperties, SeqDef
      <4>2. s \in [1..Len(s) -> Marks]
        BY <3>1, <4>1
      <4> QED
        BY <4>1, <4>2, SeqDef
    <3> QED
      BY <3>2
  <2> QED
    BY <2>1, <2>3, <2>4
<1> HIDE DEF renamed, seqs, set
<1> QED
  BY <1>1, <1>2, <1>3

-------------------------------------------------------------------------------
(* The names given back are those the fonts had.                               *)

(* A name given, and a font that had it given.                                 *)
OwnMark(m) ==
    \E f \in DOMAIN names : m.subset = names[f] /\ Lookup(m.original) = f /\ m.original \in FontNames

(* Comments and the worker name nothing else. *)
LEMMA CommentsAreOwn ==
    ASSUME EmbeddedInv, Renames(names), NEW m, OwnComment(m) PROVE OwnMark(m)
<1>1. ASSUME NEW k \in DOMAIN embedded, embedded[k].original # embedded[k].family,
             m = [subset |-> embedded[k].family, original |-> embedded[k].original]
      PROVE  OwnMark(m)
  <2>1. embedded[k] \in Fonts /\ NamedFor(embedded[k], names)
    BY LenProperties, ElementOfSeq DEF EmbeddedInv
  <2>2. Lookup(embedded[k].original) \in DOMAIN names
        /\ embedded[k].family = names[Lookup(embedded[k].original)]
    BY <1>1, <2>1 DEF NamedFor
  <2>3. embedded[k].original \in FontNames
    BY <2>1 DEF Fonts
  <2> QED
    BY <1>1, <2>2, <2>3 DEF OwnMark
<1>2. ASSUME NEW f \in DOMAIN names, m = [subset |-> names[f], original |-> Name(f)]
      PROVE  OwnMark(m)
  <2>1. f \in Words
    BY DEF Renames
  <2>2. Lookup(Name(f)) = f /\ Name(f) \in FontNames
    BY <2>1 DEF Lookup, Name, FontNames
  <2> QED
    BY <1>2, <2>2 DEF OwnMark
<1> QED
  BY <1>1, <1>2 DEF OwnComment

(* Each name that is given back had been given, to the one it gives way to.    *)
WaysBack(map) ==
    \A face \in DOMAIN map : \E f \in DOMAIN names :
        Lookup(names[f]) = face /\ Lookup(map[face]) = f /\ map[face] \in FontNames

(* So it is with the names a strip job gives back. *)
LEMMA NamesGoBack ==
    ASSUME EmbeddedInv, NamesReadBack, Renames(names), NEW found, AllFound(found),
           NEW comments, \A c \in ToSet(comments) : OwnComment(c),
           NEW map, GivenBack(found, comments, map)
    PROVE  WaysBack(map)
<1> DEFINE maps == UNION {SubsetMap(d) : d \in found}
<1>1. \A m \in maps : OwnComment(m)
  BY MapsFound DEF OwnComment, EmbeddedInv
<1>2. \A face \in DOMAIN map : \E m \in maps \cup ToSet(comments) :
         Lookup(m.subset) = face /\ map[face] = m.original
  BY DEF GivenBack
<1> HIDE DEF maps
<1>3. ASSUME NEW face \in DOMAIN map
      PROVE  \E f \in DOMAIN names :
                Lookup(names[f]) = face /\ Lookup(map[face]) = f /\ map[face] \in FontNames
  <2>1. PICK m : OwnComment(m) /\ Lookup(m.subset) = face /\ map[face] = m.original
    BY <1>1, <1>2
  <2>2. OwnMark(m)
    BY <2>1, CommentsAreOwn
  <2> QED
    BY <2>1, <2>2 DEF OwnMark
<1> QED
  BY <1>3 DEF WaysBack

(* No font the subtitle asks for has a digest for its name. *)
LEMMA AskedIsNoDigest ==
    ASSUME NoDigestInUse, NEW word \in AskedFaces(source) PROVE ~IsDigest(word)
BY DEF NoDigestInUse, AskedFaces, AskedNames, IsDigest

(* Every font that was renamed has a comment for its new name. *)
LEMMA CommentsNameAll ==
    ASSUME embedded \in Seq(Fonts), NEW k \in DOMAIN embedded,
           embedded[k].original # embedded[k].family
    PROVE  \E c \in ToSet(SubsetComments(embedded, names)) :
              Lookup(c.subset) = Lookup(embedded[k].family)
<1> DEFINE kept == {f \in ToSet(embedded) : f.original # f.family}
           renamed == Those(embedded, kept)
           Earliest(m) == \A j \in 1..m - 1 : Lookup(renamed[j].family) # Lookup(renamed[m].family)
           Pair(x) == [subset |-> x.family, original |-> x.original]
           seqs == [m \in DOMAIN renamed |-> IF Earliest(m) THEN <<Pair(renamed[m])>> ELSE <<>>]
           word == Lookup(embedded[k].family)
<1>1. embedded[k] \in ToSet(renamed) /\ renamed \in Seq(Fonts)
  <2>1. embedded[k] \in ToSet(embedded) /\ embedded[k] \in kept
    BY DEF ToSet
  <2> HIDE DEF kept
  <2> QED
    BY <2>1, ThoseElements, ThoseHold
<1> HIDE DEF renamed
<1>2. PICK first \in DOMAIN renamed :
         /\ Lookup(renamed[first].family) = word
         /\ \A j \in 1..first - 1 : Lookup(renamed[j].family) # word
  <2> DEFINE ms == {m \in DOMAIN renamed : Lookup(renamed[m].family) = word}
  <2>1. DOMAIN renamed = 1..Len(renamed) /\ Len(renamed) \in Nat
    BY <1>1, LenProperties
  <2>2. ms \in SUBSET Nat /\ ms # {}
    BY <1>1, <2>1 DEF ToSet
  <2>3. PICK m \in ms : \A n \in ms : m <= n
    BY <2>2, Least
  <2> QED
    BY <2>1, <2>3
<1>3. renamed # <<>>
  BY <1>2
<1>4. SubsetComments(embedded, names) = FlattenSeq(seqs)
  BY <1>3 DEF SubsetComments, renamed
<1>5. seqs[first] = <<Pair(renamed[first])>> /\ first \in DOMAIN seqs
  BY <1>2
<1>6. seqs \in Seq(Seq(Marks))
  <2>1. DOMAIN renamed = 1..Len(renamed) /\ Len(renamed) \in Nat
        /\ \A m \in DOMAIN renamed : renamed[m] \in Fonts
    BY <1>1, LenProperties, ElementOfSeq
  <2>2. ASSUME NEW m \in DOMAIN renamed PROVE seqs[m] \in Seq(Marks)
    <3>1. Pair(renamed[m]) \in Marks
      BY <2>1 DEF Fonts, Marks
    <3> HIDE DEF Pair
    <3>2. <<Pair(renamed[m])>> \in Seq(Marks) /\ <<>> \in Seq(Marks)
      BY <3>1, SingletonSeq, EmptySeq
    <3> QED
      BY <3>2
  <2>3. DOMAIN seqs = DOMAIN renamed /\ seqs = [m \in DOMAIN seqs |-> seqs[m]]
    OBVIOUS
  <2> HIDE DEF seqs
  <2>4. seqs \in [1..Len(renamed) -> Seq(Marks)]
    BY <2>1, <2>2, <2>3
  <2> QED
    BY <2>1, <2>4, PiecesOfSeq
<1>7. Pair(renamed[first]) \in ToSet(seqs[first])
  <2> HIDE DEF Pair, seqs
  <2> QED
    BY <1>5, SingletonSeq
<1>8. Pair(renamed[first]) \in ToSet(SubsetComments(embedded, names))
  <2> HIDE DEF Pair, seqs
  <2> QED
    BY <1>4, <1>5, <1>6, <1>7, FlattenElements
<1>9. Pair(renamed[first]).subset = renamed[first].family
  OBVIOUS
<1> HIDE DEF Pair
<1> QED
  BY <1>2, <1>8, <1>9

(* A font of the loop that was given a name is one the worker gives back, or   *)
(* else a comment.                                                             *)
LEMMA RenamedIsFound ==
    ASSUME EmbeddedInv, NamesInv, DigestsInv, NoDigestInUse, NamesReadBack,
           NEW found, AllFound(found),
           NEW comments, comments = IF source.info THEN SubsetComments(embedded, names) ELSE <<>>,
           NEW map, StripMap(found, comments, map),
           NEW k \in DOMAIN embedded, LoopFont(embedded[k]), Lookup(embedded[k].original) \in DOMAIN names
    PROVE  /\ embedded[k].family = names[Lookup(embedded[k].original)]
           /\ Lookup(embedded[k].family) \in DOMAIN map
           /\ \/ SubsetMap(embedded[k].data) # {}
              \/ \E c \in ToSet(comments) : Lookup(c.subset) = Lookup(embedded[k].family)
<1> DEFINE f == Lookup(embedded[k].original)
           m == [subset |-> embedded[k].family, original |-> embedded[k].original]
           maps == UNION {SubsetMap(d) : d \in found}
<1>1. options.random /\ f # "assdrawsubset"
  BY DEF NamesInv, Renames
<1>2. embedded[k].family = names[f]
  <2>1. NamedFor(embedded[k], names)
    BY DEF EmbeddedInv
  <2>2. embedded[k].original # DrawName
    BY <1>1 DEF Lookup, DrawName, Name
  <2> QED
    BY <1>1, <2>1, <2>2 DEF NamedFor
<1>3. embedded[k].original # embedded[k].family
  <2>1. IsDigest(Lookup(names[f]))
    BY DEF DigestsInv
  <2>2. ~IsDigest(f)
    BY AskedIsNoDigest DEF LoopFont
  <2> QED
    BY <1>2, <2>1, <2>2
<1>4. CASE ReadAs[f] # ""
  <2>1. m \in maps
    BY <1>3, <1>4, MapsFound DEF EmbeddedInv
  <2>2. m.subset = embedded[k].family
    OBVIOUS
  <2>3. Lookup(embedded[k].family) \in DOMAIN map
    <3> HIDE DEF maps, m
    <3>1. DOMAIN map = {Lookup(x.subset) : x \in ToSet(comments) \cup maps}
      BY DEF StripMap, maps
    <3>2. m \in ToSet(comments) \cup maps
      BY <2>1
    <3> QED
      BY <2>2, <3>1, <3>2
  <2>4. SubsetMap(embedded[k].data) # {}
    BY <1>3, <1>4 DEF SubsetMap, MadeHere
  <2> QED
    BY <1>2, <2>3, <2>4
<1>5. CASE ReadAs[f] = ""
  <2>1. f # ""
    BY DEF NamesInv, Renames
  <2>2. source.info
    BY <1>5, <2>1 DEF NamesReadBack
  <2>3. PICK c \in ToSet(comments) : Lookup(c.subset) = Lookup(embedded[k].family)
    BY <1>3, <2>2, CommentsNameAll DEF EmbeddedInv
  <2>4. Lookup(embedded[k].family) \in DOMAIN map
    BY <2>3 DEF StripMap
  <2> QED
    BY <1>2, <2>3, <2>4
<1> QED
  BY <1>4, <1>5

(* Every name of the subtitle comes back, or belongs to a font of which the    *)
(* text has no character.                                                      *)
LEMMA NameRestored ==
    ASSUME EmbeddedInv, NamesInv, DigestsInv, NoDigestInUse, NamesReadBack,
           \A k \in DOMAIN embedded : LoopFont(embedded[k]) \/ embedded[k].original = DrawName,
           NEW found, AllFound(found),
           NEW comments, comments = IF source.info THEN SubsetComments(embedded, names) ELSE <<>>,
           NEW map, StripMap(found, comments, map), WaysBack(map),
           NEW n \in Names(source), n \in FontNames, Lookup(n) # Lookup(DrawName)
    PROVE  Restores(n, names, map)
<1>1. ~IsDigest(Lookup(n))
  <2>1. Lookup(n) \in AskedFaces(source)
    BY DEF AskedFaces, AskedNames
  <2> QED
    BY <2>1, AskedIsNoDigest
<1>2. Lookup(DrawName) = "assdrawsubset"
  BY DEF Lookup, DrawName, Name
<1>3. \A m1, m2 : Lookup(m1) = Lookup(m2) => Plain(m1) = Plain(m2)
  BY DEF Plain
<1>4. CASE Lookup(n) \notin DOMAIN names
  <2>1. Renamed(n, names) = n
    BY <1>4 DEF Renamed
  <2>2. Lookup(n) \notin DOMAIN map
    BY <1>1 DEF WaysBack, DigestsInv
  <2>3. Renamed(n, map) = n
    BY <2>2 DEF Renamed
  <2> QED
    BY <2>1, <2>3 DEF Restores
<1>5. CASE Lookup(n) \in DOMAIN names
  <2> DEFINE f == Lookup(n)
             d == Lookup(names[f])
  <2>1. Renamed(n, names) = names[f]
    BY <1>5 DEF Renamed
  <2>2. CASE d \in DOMAIN map
    <3>1. PICK g \in DOMAIN names : Lookup(names[g]) = d /\ Lookup(map[d]) = g /\ map[d] \in FontNames
      BY <2>2 DEF WaysBack
    <3>2. g = f
      BY <1>5, <3>1 DEF NamesInv, Lookup
    <3>3. Renamed(names[f], map) = map[d]
      BY <2>2 DEF Renamed
    <3>4. Plain(map[d]) = Plain(n)
      BY <1>3, <3>1, <3>2
    <3> QED
      BY <2>1, <3>1, <3>2, <3>3, <3>4 DEF Restores
  <2>3. CASE d \notin DOMAIN map
    <3>1. Renamed(names[f], map) = names[f]
      BY <2>3 DEF Renamed
    <3>2. names[f] \in FontNames /\ d # "assdrawsubset" /\ f # "assdrawsubset"
      <4>1. PICK new \in Words \ {"", "assdrawsubset"} : names[f] = Name(new)
        BY <1>5 DEF NamesInv, Renames
      <4>2. f # "assdrawsubset"
        BY <1>5 DEF NamesInv, Renames
      <4>3. Name(new) \in FontNames /\ Lookup(Name(new)) = new
        BY DEF Name, FontNames, Lookup
      <4> QED
        BY <4>1, <4>2, <4>3
    <3>3. ASSUME NEW k \in DOMAIN embedded
          PROVE  Lookup(embedded[k].original) # f /\ Lookup(embedded[k].original) # d
      <4>1. CASE LoopFont(embedded[k])
        <5>1. Lookup(embedded[k].original) # d
          <6>1. IsDigest(d)
            BY <1>5 DEF DigestsInv
          <6>2. ~IsDigest(Lookup(embedded[k].original))
            BY <4>1, AskedIsNoDigest DEF LoopFont
          <6> QED
            BY <6>1, <6>2
        <5>2. ASSUME Lookup(embedded[k].original) = f PROVE FALSE
          <6>1. Lookup(embedded[k].family) = d /\ Lookup(embedded[k].family) \in DOMAIN map
            BY <1>5, <4>1, <5>2, RenamedIsFound
          <6> QED
            BY <2>3, <6>1
        <5> QED
          BY <5>1, <5>2
      <4>2. CASE embedded[k].original = DrawName
        BY <1>2, <3>2, <4>2
      <4> QED
        BY <4>1, <4>2
    <3>4. Plain(n) = Name("unused") /\ Plain(names[f]) = Name("unused")
      <4>1. f \notin {Lookup(embedded[k].original) : k \in DOMAIN embedded}
            /\ d \notin {Lookup(embedded[k].original) : k \in DOMAIN embedded}
        BY <3>3
      <4>2. f \in DOMAIN names /\ d \in {Lookup(names[g]) : g \in DOMAIN names}
        BY <1>5
      <4> QED
        BY <4>1, <4>2 DEF Plain
    <3> QED
      BY <1>2, <2>1, <3>1, <3>2, <3>4 DEF Restores
  <2> QED
    BY <2>2, <2>3
<1> QED
  BY <1>4, <1>5

-------------------------------------------------------------------------------
(* Stripping, part by part.                                                    *)

Parts == {"info", "comments", "styles", "section", "stray", "lines"}

(* Nothing of a sequence is chosen when none of its elements is. *)
LEMMA ThoseNone ==
    ASSUME NEW S, NEW seq \in Seq(S), NEW kept, \A x \in ToSet(seq) : x \notin kept
    PROVE  Those(seq, kept) = <<>>
<1> DEFINE these == Those(seq, kept)
<1>1. these \in Seq(S) /\ \A x \in ToSet(these) : x \in ToSet(seq) /\ x \in kept
  BY ThoseElements
<1> HIDE DEF these
<1>2. Len(these) \in Nat /\ DOMAIN these = 1..Len(these)
  BY <1>1, LenProperties
<1>3. \A i \in DOMAIN these : these[i] \in ToSet(these)
  BY DEF ToSet
<1>4. Len(these) = 0
  <2>1. ASSUME Len(these) # 0 PROVE FALSE
    <3>1. 1 \in DOMAIN these
      BY <1>2, <2>1
    <3> QED
      BY <1>1, <1>3, <3>1
  <2> QED
    BY <2>1
<1>5. these = <<>>
  BY <1>1, <1>4, EmptySeq
<1> QED
  BY <1>5 DEF these

(* A section no line of which looks like a header leaves nothing behind. *)
LEMMA NothingLeft ==
    ASSUME NEW section, \A k \in DOMAIN section : ~LooksLikeHeader(section[k])
    PROVE  Leftover(section) = <<>>
BY DEF Leftover

(* No line of the fonts' section does. *)
LEMMA OwnSectionLeft ==
    ASSUME embedded \in Seq(Fonts), DataReadable
    PROVE  Leftover(FontSection(embedded)) = <<>>
<1> DEFINE section == FontSection(AllRead)
<1>1. AllRead \in Seq(FoundFonts) /\ FontSection(embedded) = section
  BY OwnFontsRead
<1>2. \A f \in ToSet(AllRead) : Readable(f)
  <2>1. \A k \in DOMAIN embedded : Readable(AsRead(embedded[k])) <=> Readable(embedded[k])
    BY DEF Readable, AsRead
  <2> QED
    BY <2>1 DEF ToSet, AllRead, DataReadable
<1>3. section \in Seq(FontLines) /\ \E head : LaidOut(section, AllRead, head)
  BY <1>1, SectionLaidOut
<1> HIDE DEF section
<1>4. PICK head : LaidOut(section, AllRead, head)
  BY <1>3
<1>5. /\ \A f : ~LooksLikeHeader(Opening(f))
      /\ ~LooksLikeHeader(Closing)
      /\ \A i \in 1..Len(AllRead) : \A j \in 1..Len(DataOf(AllRead[i])) :
            ~LooksLikeHeader(DataOf(AllRead[i])[j])
  BY <1>1, <1>2, LineKinds
<1>6. DOMAIN section = 1..Len(section)
  BY <1>3, LenProperties
<1>7. ASSUME NEW p \in DOMAIN section PROVE ~LooksLikeHeader(section[p])
  <2>1. PICK i \in 1..Len(AllRead) :
           \/ p = head[i] \/ section[p] = Closing
           \/ \E j \in 1..Len(DataOf(AllRead[i])) : section[p] = DataOf(AllRead[i])[j]
    BY <1>4, <1>6 DEF LaidOut
  <2>2. section[head[i]] = Opening(AllRead[i])
    BY <1>4 DEF LaidOut
  <2> QED
    BY <1>5, <2>1, <2>2
<1> QED
  BY <1>1, <1>7, NothingLeft

(* The names of a subtitle are names. *)
LEMMA NamesTyped ==
    ASSUME NEW doc, doc.styles \in [DOMAIN doc.styles -> Styles], doc.lines \in Seq(Lines),
           NEW n \in Names(doc)
    PROVE  n \in FontNames
<1> DEFINE tags(i) == UNION {ToSet(doc.lines[i].atoms[k].tags) : k \in DOMAIN doc.lines[i].atoms}
<1>1. Names(doc) = {doc.styles[s].font : s \in DOMAIN doc.styles}
                     \cup UNION {{t.font : t \in tags(i)} : i \in DOMAIN doc.lines}
  BY DEF Names
<1>2. ASSUME NEW s \in DOMAIN doc.styles PROVE doc.styles[s].font \in FontNames
  <2>1. doc.styles[s] \in Styles
    OBVIOUS
  <2> QED
    BY <2>1 DEF Styles
<1>3. ASSUME NEW i \in DOMAIN doc.lines, NEW t \in tags(i) PROVE t.font \in FontNames
  <2> DEFINE atoms == doc.lines[i].atoms
  <2>1. doc.lines[i] \in Lines
    BY LenProperties, ElementOfSeq
  <2>2. atoms \in Seq(Atoms)
    BY <2>1 DEF Lines
  <2>3. PICK k \in DOMAIN atoms : t \in ToSet(atoms[k].tags)
    OBVIOUS
  <2> HIDE DEF atoms
  <2>4. atoms[k] \in Atoms
    BY <2>2, LenProperties, ElementOfSeq
  <2>5. atoms[k].tags \in Seq(Tags)
    BY <2>4 DEF Atoms
  <2>6. \A m \in DOMAIN atoms[k].tags : atoms[k].tags[m] \in Tags
    BY <2>5, LenProperties, ElementOfSeq
  <2>7. t \in Tags
    BY <2>3, <2>6 DEF ToSet
  <2> QED
    BY <2>7 DEF Tags
<1> HIDE DEF tags
<1> QED
  BY <1>1, <1>2, <1>3

(* The parts of a converted subtitle, *)
LEMMA WithParts ==
    ASSUME NEW doc, DOMAIN doc = Parts,
           NEW lines, NEW fonts, NEW map, NEW made, made = WithFonts(doc, lines, fonts, map)
    PROVE  /\ DOMAIN made = Parts
           /\ made.comments = IF doc.info THEN SubsetComments(fonts, map) ELSE <<>>
           /\ made.styles = RenameStyles(doc.styles, map)
           /\ made.section = FontSection(fonts)
           /\ made.stray = doc.stray
           /\ made.lines = RenameTags(lines, map)
BY DEF WithFonts, Parts

(* The comments stripping leaves.                                              *)
StillNamed(comments, map) == Those(comments, {c \in ToSet(comments) : Lookup(c.subset) \notin DOMAIN map})

(* and those of a stripped one. *)
LEMMA StrippedParts ==
    ASSUME NEW doc, DOMAIN doc = Parts,
           NEW map, NEW kept, NEW draws, NEW made, made = Stripped(doc, map, kept, draws)
    PROVE  /\ made.comments = StillNamed(doc.comments, map)
           /\ made.section = FontSection(kept)
           /\ made.stray = doc.stray \o Leftover(doc.section)
           /\ PutBack(made, doc, map, draws)
<1> DEFINE renamed == RenameTags(doc.lines, map)
           put == [i \in DOMAIN renamed |-> [renamed[i] EXCEPT !.atoms = RestoreDrawings(renamed[i].atoms, draws)]]
<1>1. /\ made.comments = StillNamed(doc.comments, map)
      /\ made.styles = RenameStyles(doc.styles, map)
      /\ made.section = FontSection(kept)
      /\ made.stray = doc.stray \o Leftover(doc.section)
      /\ made.lines = put
  BY DEF Stripped, Parts, StillNamed
<1>2. DOMAIN renamed = DOMAIN doc.lines
      /\ \A i \in DOMAIN doc.lines : renamed[i] = RenameLine(doc.lines[i], map)
  BY DEF RenameTags, RenameLine
<1>3. DOMAIN put = DOMAIN renamed
      /\ \A i \in DOMAIN renamed :
            put[i] = [renamed[i] EXCEPT !.atoms = RestoreDrawings(renamed[i].atoms, draws)]
  OBVIOUS
<1> HIDE DEF put, renamed
<1> QED
  BY <1>1, <1>2, <1>3 DEF PutBack

-------------------------------------------------------------------------------
(* Stripping undoes a conversion.                                              *)

(* Stripping what nobody converted, and what has neither fonts nor markers,    *)
(* leaves it as it is.                                                         *)
LEMMA BareIsLeft ==
    ASSUME source \in Documents, text = source, embedded = <<>>, ~HasFonts(source),
           NEW failing, StripSubtitle(failing), NEW after, after = text'
    PROVE  /\ Comparable(after) = Comparable(source)
           /\ after.comments = <<>> /\ after.stray = source.stray /\ after.section = <<>>
<1>1. PICK found, map, draws :
         /\ StripMap(found, text.comments, map) /\ StripDraws(found, draws)
         /\ after = Stripped(source, map, StripKept(text.comments, failing), draws)
  BY StripInParts
<1>2. /\ DOMAIN source = Parts /\ source.styles \in [DOMAIN source.styles -> Styles]
      /\ source.lines \in Seq(Lines) /\ source.stray \in Seq(FontLines)
  BY TextAssumption DEF TextAssumption, Parts
<1>3. source.section = <<>> /\ source.comments = <<>> /\ NamesOther(source)
  BY DEF HasFonts, HasMarker, NamesOther
<1>4. DOMAIN map = {} /\ DOMAIN draws = {}
  <2>1. \A d : SubsetMap(d) = {} /\ DrawEntries(d) = {}
    BY NothingMade
  <2>2. ToSet(text.comments) = {}
    BY <1>3, NothingInEmpty
  <2> QED
    BY <1>1, <2>1, <2>2 DEF StripMap, StripDraws
<1> DEFINE kept == StripKept(text.comments, failing)
<1>5. kept = <<>>
  BY <1>3, NoFontsParsed, ThoseOfNone DEF StripKept
<1> HIDE DEF kept
<1>6. /\ after.comments = StillNamed(source.comments, map)
      /\ after.section = FontSection(<<>>)
      /\ after.stray = source.stray \o Leftover(source.section)
      /\ PutBack(after, source, map, draws)
  <2>1. after = Stripped(source, map, <<>>, draws)
    BY <1>1, <1>5 DEF kept
  <2> QED
    BY <1>2, <2>1, StrippedParts
<1>7. after.comments = <<>> /\ after.section = <<>>
  BY <1>3, <1>6, ThoseOfNone, NoSectionBuilt DEF StillNamed
<1>8. after.stray = source.stray
  <2>1. Leftover(source.section) = <<>>
    <3>1. DOMAIN source.section = {}
      BY <1>3
    <3> QED
      BY <3>1, NothingLeft
  <2>2. \A s \in Seq(FontLines) : s \o <<>> = s
    OBVIOUS
  <2> QED
    BY <1>2, <1>6, <2>1, <2>2
<1>9. Comparable(after) = Comparable(source)
  <2>1. \A n : Renamed(n, map) = n
    BY <1>4 DEF Renamed
  <2>2. NamesRestored(source, map, map)
    BY <1>2, <1>3, <1>4, <2>1, NamesTyped DEF NamesRestored, Restores, NamesOther
  <2>3. source.styles = RenameStyles(source.styles, map)
    <3> DEFINE styles == source.styles
    <3>1. \A style \in Styles : [style EXCEPT !.font = Renamed(style.font, map)] = style
      BY <2>1 DEF Styles
    <3>2. styles \in [DOMAIN styles -> Styles]
      BY <1>2
    <3> HIDE DEF styles
    <3>3. \A s \in DOMAIN styles : [styles[s] EXCEPT !.font = Renamed(styles[s].font, map)] = styles[s]
      BY <3>1, <3>2
    <3>4. RenameStyles(styles, map) = styles
      BY <3>2, <3>3 DEF RenameStyles
    <3> QED
      BY <3>4 DEF styles
  <2>4. source.lines = RenameTags(source.lines, map)
    BY <1>2, <1>4, NothingRenamed
  <2>5. <<>> \in Seq(Seq(Atoms)) /\ DrawsFor(draws, <<>>)
    BY <1>4 DEF DrawsFor
  <2>6. ASSUME NEW i \in DOMAIN source.lines PROVE TracedLine(source.lines[i], source.lines[i], <<>>)
    <3> DEFINE line == source.lines[i]
    <3>1. line \in Lines
      BY <1>2, LenProperties, ElementOfSeq
    <3>2. line.atoms \in Seq(Atoms) /\ line = [line EXCEPT !.atoms = line.atoms]
      BY <3>1 DEF Lines
    <3>3. \A k \in DOMAIN line.atoms : ~UsesDrawName(line.atoms[k])
      BY <1>3, NamesOf DEF NamesOther, UsesDrawName
    <3> HIDE DEF line
    <3>4. AllTraced(line.atoms, line.atoms, <<>>)
      BY <3>2, <3>3, LineAllItself
    <3> QED
      BY <3>2, <3>4 DEF TracedLine, line
  <2>8. PICK lines : lines = source.lines
    OBVIOUS
  <2>9. source.lines = RenameTags(lines, map) /\ TracedLines(lines, source, <<>>)
    BY <2>4, <2>6, <2>8 DEF TracedLines
  <2> QED
    <3>1. ThereAndBack(source, lines, <<>>, map, source, draws, map, after)
      BY <1>2, <1>6, <2>2, <2>3, <2>5, <2>9 DEF ThereAndBack
    <3> QED
      BY <3>1, TextComesBack
<1> QED
  BY <1>7, <1>8, <1>9

(* Stripping a converted subtitle, every font of which can be inspected. *)
LEMMA ConvertedIsUndone ==
    ASSUME LoopInv, MadeInv, stage = "converted", ~HasFonts(source), embedded # <<>>,
           DataReadable, NamesReadBack, NoDigestInUse, StripSubtitle({}), NEW after, after = text'
    PROVE  /\ Comparable(after) = Comparable(source)
           /\ after.comments = <<>> /\ after.stray = source.stray
           /\ options.random => after.section = <<>>
<1>1. PICK lines, entries : DrawnFrom(lines, entries) /\ text = WithFonts(source, lines, embedded, names)
  BY DEF MadeInv, ConvertedInv
<1>2. /\ source \in Documents /\ NamesInv /\ EmbeddedInv /\ Renames(names) /\ embedded \in Seq(Fonts)
      /\ DigestsInv /\ IsFiniteSet(DOMAIN names)
  BY DEF LoopInv, MadeInv, DigestsInv, NamesInv, EmbeddedInv
<1>3. /\ DOMAIN source = Parts /\ source.styles \in [DOMAIN source.styles -> Styles]
      /\ source.lines \in Seq(Lines) /\ source.stray \in Seq(FontLines)
  BY <1>2, TextAssumption DEF TextAssumption, Parts
<1>4. NamesOther(source)
  BY DEF HasFonts, HasMarker, NamesOther
<1> DEFINE comments == text.comments
           kept == StripKept(comments, {})
<1>5. PICK found, map, draws :
         /\ found = FoundData({})
         /\ StripMap(found, comments, map) /\ GivenBack(found, comments, map)
         /\ StripDraws(found, draws) /\ DrawnBack(found, draws)
         /\ after = Stripped(text, map, kept, draws)
  BY StripInParts
<1>6. /\ DOMAIN text = Parts
      /\ comments = IF source.info THEN SubsetComments(embedded, names) ELSE <<>>
      /\ text.styles = RenameStyles(source.styles, names)
      /\ text.section = FontSection(embedded)
      /\ text.stray = source.stray
      /\ text.lines = RenameTags(lines, names)
  BY <1>1, <1>3, WithParts
<1>7. ParseFonts(text.section) = AllRead /\ AllRead \in Seq(FoundFonts)
  BY <1>2, <1>6, OwnFontsRead
<1>8. AllFound(found)
  <2>1. found = {f.data : f \in ToSet(AllRead)}
    BY <1>5, <1>7 DEF FoundData
  <2>2. \A k \in DOMAIN embedded : AsRead(embedded[k]).data = embedded[k].data
    BY DEF AsRead
  <2>3. ToSet(AllRead) = {AsRead(embedded[k]) : k \in DOMAIN embedded}
    BY DEF ToSet, AllRead
  <2>4. \A x : x \in {f.data : f \in ToSet(AllRead)} <=> x \in {embedded[k].data : k \in DOMAIN embedded}
    BY <2>2, <2>3
  <2> QED
    BY <2>1, <2>4 DEF AllFound
<1>9. comments \in Seq(Marks) /\ \A c \in ToSet(comments) : OwnComment(c)
  <2>1. CASE source.info
    <3>1. comments = SubsetComments(embedded, names)
      BY <1>6, <2>1
    <3> HIDE DEF comments
    <3> QED
      BY <1>2, <3>1, OwnComments
  <2>2. CASE ~source.info
    <3>1. comments = <<>>
      BY <1>6, <2>2
    <3> HIDE DEF comments
    <3> QED
      BY <3>1, NothingInEmpty, EmptySeq
  <2> QED
    BY <2>1, <2>2
<1> HIDE DEF kept
<1>10. /\ after.comments = StillNamed(comments, map)
       /\ after.section = FontSection(kept)
       /\ after.stray = source.stray \o Leftover(text.section)
       /\ PutBack(after, text, map, draws)
  <2>1. PICK doc, stays : doc = text /\ stays = kept
    OBVIOUS
  <2>2. DOMAIN doc = Parts /\ after = Stripped(doc, map, stays, draws)
    BY <1>5, <1>6, <2>1
  <2>3. /\ after.comments = StillNamed(doc.comments, map)
        /\ after.section = FontSection(stays)
        /\ after.stray = doc.stray \o Leftover(doc.section)
        /\ PutBack(after, doc, map, draws)
    BY <2>2, StrippedParts
  <2> QED
    BY <1>6, <2>1, <2>3
<1> HIDE DEF comments
<1>11. after.comments = <<>>
  <2>1. \A c \in ToSet(comments) : Lookup(c.subset) \in DOMAIN map
    BY <1>5 DEF StripMap
  <2>2. \A c \in ToSet(comments) : c \notin {x \in ToSet(comments) : Lookup(x.subset) \notin DOMAIN map}
    BY <2>1
  <2>3. Those(comments, {x \in ToSet(comments) : Lookup(x.subset) \notin DOMAIN map}) = <<>>
    BY <1>9, <2>2, ThoseNone
  <2> QED
    BY <1>10, <2>3 DEF StillNamed
<1>12. after.stray = source.stray
  <2>1. Leftover(text.section) = <<>>
    BY <1>2, <1>6, OwnSectionLeft
  <2>2. \A s \in Seq(FontLines) : s \o <<>> = s
    OBVIOUS
  <2> QED
    BY <1>3, <1>10, <2>1, <2>2
<1>13. WaysBack(map)
  BY <1>2, <1>5, <1>8, <1>9, NamesGoBack
<1>14. \A k \in DOMAIN embedded :
          LoopFont(embedded[k]) \/ (embedded[k].original = DrawName /\ embedded[k].family = DrawName)
  BY <1>1 DEF DrawnFrom, DrawingFont
<1>15. \A n \in Names(source) : Restores(n, names, map)
  <2>1. \A n \in Names(source) : n \in FontNames /\ Lookup(n) # Lookup(DrawName)
    BY <1>3, <1>4, NamesTyped DEF NamesOther
  <2> QED
    BY <1>2, <1>5, <1>6, <1>8, <1>13, <1>14, <2>1, NameRestored
<1>16. DrawsFor(draws, entries)
  BY <1>1, <1>5, <1>8, DrawingsFound
<1>17. Comparable(after) = Comparable(source)
  <2>1. "assdrawsubset" \notin DOMAIN names
    BY <1>2 DEF Renames
  <2>2. "assdrawsubset" \notin DOMAIN map
    <3>1. ASSUME NEW f \in DOMAIN names PROVE Lookup(names[f]) # "assdrawsubset"
      <4>1. PICK new \in Words \ {"", "assdrawsubset"} : names[f] = Name(new)
        BY <1>2 DEF Renames
      <4>2. Lookup(Name(new)) = new
        BY DEF Name, Lookup
      <4> QED
        BY <4>1, <4>2
    <3> QED
      BY <1>13, <3>1 DEF WaysBack
  <2>3. entries \in Seq(Seq(Atoms)) /\ TracedLines(lines, source, entries)
    BY <1>1 DEF DrawnFrom, TracedLines
  <2>4. NamesRestored(source, names, map)
    BY <1>15, <2>1, <2>2 DEF NamesRestored
  <2> QED
    <3>1. ThereAndBack(source, lines, entries, names, text, draws, map, after)
      BY <1>3, <1>6, <1>10, <1>16, <2>3, <2>4 DEF ThereAndBack
    <3> QED
      BY <3>1, TextComesBack
<1>18. options.random => after.section = <<>>
  <2> SUFFICES ASSUME options.random PROVE after.section = <<>>
    OBVIOUS
  <2>1. ASSUME NEW f \in ToSet(AllRead) PROVE Removable(f, comments, f.data \notin {})
    <3>1. PICK k \in DOMAIN embedded : f = AsRead(embedded[k])
      BY DEF ToSet, AllRead
    <3>2. f.family = embedded[k].family /\ f.data = embedded[k].data
      BY <3>1 DEF AsRead
    <3>3. CASE embedded[k].family = DrawName
      BY <3>2, <3>3 DEF Removable
    <3>4. CASE embedded[k].family # DrawName
      <4>1. LoopFont(embedded[k])
        BY <1>14, <3>4
      <4>2. NamedFor(embedded[k], names)
        BY <1>2 DEF EmbeddedInv
      <4>3. Lookup(embedded[k].original) \in DOMAIN names
        BY <3>4, <4>2 DEF NamedFor
      <4>4. \/ SubsetMap(embedded[k].data) # {}
            \/ \E c \in ToSet(comments) : Lookup(c.subset) = Lookup(embedded[k].family)
        BY <1>2, <1>5, <1>6, <1>8, <4>1, <4>3, RenamedIsFound
      <4> QED
        BY <3>2, <4>4 DEF Removable
    <3> QED
      BY <3>3, <3>4
  <2> DEFINE stay == {f \in ToSet(AllRead) : ~Removable(f, comments, f.data \notin {})}
  <2>2. kept = Those(AllRead, stay)
    BY <1>7 DEF kept, StripKept
  <2>3. \A f \in ToSet(AllRead) : f \notin stay
    BY <2>1
  <2> HIDE DEF stay
  <2>4. kept = <<>>
    BY <1>7, <2>2, <2>3, ThoseNone
  <2> QED
    BY <1>10, <2>4, NoSectionBuilt
<1> QED
  BY <1>11, <1>12, <1>17, <1>18

(* What compares the same still does while the fonts and their names stay.     *)
LEMMA ComparisonStays ==
    ASSUME UNCHANGED <<embedded, names>> PROVE \A d : Comparable(d)' = Comparable(d)
<1>1. \A n : Plain(n)' = Plain(n)
  BY DEF Plain
<1>2. \A tag : PlainTag(tag)' = PlainTag(tag)
  BY <1>1 DEF PlainTag
<1>3. \A atom : PlainAtom(atom)' = PlainAtom(atom)
  BY <1>2 DEF PlainAtom
<1> QED
  BY <1>1, <1>3 DEF Comparable

(* Stripping a subtitle converted here gives it back: styles and tags with the *)
(* names they had, drawings where they were, no comment, no stray line and,    *)
(* with random names, no font.                                                 *)
THEOREM ConversionsAreUndone == Spec => []StripUndoesConversion
<1>1. Init => LoopInv /\ MadeInv /\ StripUndoesConversion
  BY InitLoop, InitMade DEF Init, StripUndoesConversion
<1>2. LoopInv /\ [Next]_vars => LoopInv'
  BY LoopKept
<1>3. LoopInv /\ MadeInv /\ [Next]_vars => MadeInv'
  BY MadeKept
<1>4. LoopInv /\ MadeInv /\ StripUndoesConversion /\ [Next]_vars => StripUndoesConversion'
  <2> SUFFICES ASSUME LoopInv, MadeInv, StripUndoesConversion, [Next]_vars
               PROVE  StripUndoesConversion'
    OBVIOUS
  <2>1. CASE \E failing \in SUBSET {f.data : f \in ToSet(ParseFonts(text.section))} :
                StripSubtitle(failing)
    <3>1. PICK failing : StripSubtitle(failing)
      BY <2>1
    <3>2. /\ stage \in {"idle", "converted"} /\ UNCHANGED <<source, options, embedded, names>>
          /\ unreadable' = failing
      BY <3>1, StripInParts
    <3>3. /\ HasFonts(source)' = HasFonts(source) /\ DataReadable' = DataReadable
          /\ NoDigestInUse' = NoDigestInUse /\ NamesReadBack' = NamesReadBack
      BY <3>2 DEF HasFonts, HasMarker, Names, DataReadable, Readable, NoDigestInUse, NamesReadBack
    <3>4. PICK after, before : after = text' /\ before = source
      OBVIOUS
    <3>5. ASSUME ~HasFonts(source), failing = {}, DataReadable, NamesReadBack, NoDigestInUse
          PROVE  /\ Comparable(after) = Comparable(before)
                 /\ after.comments = <<>> /\ after.stray = before.stray
                 /\ options.random => after.section = <<>>
      <4>1. CASE embedded = <<>>
        <5>1. source \in Documents /\ text = source
          BY <3>2, <4>1 DEF LoopInv
        <5> QED
          BY <3>1, <3>4, <3>5, <4>1, <5>1, BareIsLeft
      <4>2. CASE embedded # <<>>
        <5>1. stage = "converted"
          BY <3>2, <4>2 DEF LoopInv
        <5> QED
          BY <3>1, <3>4, <3>5, <4>2, <5>1, ConvertedIsUndone
      <4> QED
        BY <4>1, <4>2
    <3>6. \A d : Comparable(d)' = Comparable(d)
      BY <3>2, ComparisonStays
    <3>7. Comparable(text)' = Comparable(after) /\ Comparable(source)' = Comparable(before)
      BY <3>2, <3>4, <3>6
    <3> QED
      BY <3>2, <3>3, <3>4, <3>5, <3>7 DEF StripUndoesConversion
  <2>2. CASE Done \/ UNCHANGED vars
    <3>1. UNCHANGED vars
      BY <2>2 DEF Done
    <3>2. UNCHANGED <<source, text, options, stage, embedded, names, unreadable>>
      BY <3>1 DEF vars
    <3>3. /\ HasFonts(source)' = HasFonts(source) /\ DataReadable' = DataReadable
          /\ NoDigestInUse' = NoDigestInUse /\ NamesReadBack' = NamesReadBack
      BY <3>2 DEF HasFonts, HasMarker, Names, DataReadable, Readable, NoDigestInUse, NamesReadBack
    <3>4. \A d : Comparable(d)' = Comparable(d)
      BY <3>2, ComparisonStays
    <3>5. Comparable(text)' = Comparable(text) /\ Comparable(source)' = Comparable(source)
      BY <3>2, <3>4
    <3> QED
      BY <3>2, <3>3, <3>5 DEF StripUndoesConversion
  <2>3. CASE ReadSubtitle
    BY <2>3 DEF ReadSubtitle, StripUndoesConversion
  <2>4. CASE \E font \in todo : EmbedFont(font)
    BY <2>4 DEF EmbedFont, StripUndoesConversion
  <2>5. CASE WorkerFails
    BY <2>5 DEF WorkerFails, StripUndoesConversion
  <2>6. CASE WriteSubset
    BY <2>6 DEF WriteSubset, StripUndoesConversion
  <2> QED
    BY <2>1, <2>2, <2>3, <2>4, <2>5, <2>6 DEF Next
<1> QED
  BY <1>1, <1>2, <1>3, <1>4, PTL DEF Spec
================================================================================
