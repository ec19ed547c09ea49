------------------------------ MODULE SubtitleText ------------------------------
(***************************************************************************)
(* What one conversion and one "clean and restore" do to the text of a     *)
(* subtitle: which characters it needs of which font, which fonts are      *)
(* embedded under which names, how names and drawings are rewritten, and   *)
(* how stripping finds its way back.                                       *)
(*                                                                         *)
(* A dialogue text is a sequence of atoms: a character, a forced break     *)
(* (\N, \n, \h), or a block {...} of override tags.  Characters are code   *)
(* points; a font name is its lower case form with the vertical-writing    *)
(* '@' and a different letter case noted apart.  Sections come in the      *)
(* usual order.  The font worker is external: a font file is a sequence    *)
(* of bytes, and inspecting the bytes it made tells what it put there.     *)
(***************************************************************************)
EXTENDS FontCodec, SubtitleForms, FiniteSets, SequencesExt

CONSTANTS Words,          \* names of styles and, normalized, of fonts
          Documents,      \* subtitles as they may be found
          OptionSets,     \* processing options
          SystemFaces,    \* normalized names of is_system_font
          IndexedFaces,   \* normalized names the font index knows
          Digest(_, _),   \* the name stable_font_name derives from a name and a salt
          MaxSalt,        \* the last salt it tries: in the code, the largest u32
          ReadAs,         \* ReadAs[w]: the name the worker reads back of w, "" if none
          FontFiles,      \* bytes of the fonts the worker makes, in this order
          LineLength      \* characters per line of the [Fonts] section

VARIABLES source,     \* the subtitle before any job
          text,       \* the subtitle now
          options,
          stage,      \* how far the current job is
          todo,       \* font usages the loop has not reached
          embedded,   \* fonts made so far
          names,      \* assigned_random_names, which rename_map repeats
          missing,    \* fonts without a match in the index
          unreadable  \* data of the fonts whose inspection failed

vars == <<source, text, options, stage, todo, embedded, names, missing, unreadable>>

-------------------------------------------------------------------------------
(* Names, atoms and tags.                                                      *)

Name(face) == [face |-> face, at |-> FALSE, upper |-> FALSE]
NoName     == Name("")
DrawName   == Name("assdrawsubset")

NormFont(n) == [n EXCEPT !.at = FALSE]    \* norm_font
Lookup(n)   == n.face                     \* normalize_lookup_name

Ch(c)       == [kind |-> "char",  ch |-> c, tags |-> <<>>]
Break       == [kind |-> "break", ch |-> 0, tags |-> <<>>]
Block(tags) == [kind |-> "block", ch |-> 0, tags |-> tags]

(* \fn, \r with a style or none, \b, \i and \p with a number.  Tags are told   *)
(* by their first letters: \bord, \iclip and \pos are \b, \i and \p with an     *)
(* argument that is Junk.                                                      *)
Tag(name, font, style, num) == [name |-> name, font |-> font, style |-> style, num |-> num]
Fn(font)  == Tag("fn", font, "", 0)
R(style)  == Tag("r", NoName, style, 0)
B(num)    == Tag("b", NoName, "", num)
I(num)    == Tag("i", NoName, "", num)
P(num)    == Tag("p", NoName, "", num)
Empty     == -100
Junk      == -200

Slots == <<"normal", "bold", "italic", "boldItalic">>

FontNames == [face : Words, at : BOOLEAN, upper : BOOLEAN]
Styles    == [font : FontNames, bold : BOOLEAN, italic : BOOLEAN]
Tags      == [name : {"fn", "r", "b", "i", "p"}, font : FontNames, style : Words, num : Int]
Atoms     == [kind : {"char", "break", "block"}, ch : Int, tags : Seq(Tags)]
Lines     == [style : Words, atoms : Seq(Atoms)]
FontLines == [kind : {"fontname", "data", "blank"}, family : FontNames,
              slot : ToSet(Slots) \cup {""}, chars : Seq(Int)]
Options   == [external : BOOLEAN, system : BOOLEAN, multi : BOOLEAN, random : BOOLEAN,
              draw : BOOLEAN]

(* push_name indexes no empty name; a digest is "AS" and ten digits, whatever  *)
(* it is made from.                                                            *)
ASSUME TextAssumption ==
    /\ {"", "arial", "assdrawsubset"} \subseteq Words
    /\ \A doc \in Documents :
          /\ DOMAIN doc = {"info", "comments", "styles", "section", "stray", "lines"}
          /\ doc.styles \in [DOMAIN doc.styles -> Styles]
          /\ doc.lines \in Seq(Lines)
          /\ doc.section \in Seq(FontLines) /\ doc.stray \in Seq(FontLines)
    /\ OptionSets \subseteq Options
    /\ IndexedFaces \subseteq Words \ {""}
    /\ MaxSalt \in Nat
    /\ \A face \in IndexedFaces, salt \in 0..MaxSalt :
          Digest(face, salt) \in Words \ {"", "assdrawsubset"}
    /\ ReadAs \in [Words -> Words]
    /\ LineLength \in Nat \ {0}
    /\ FontFiles \in Seq(Seq(Byte))
    /\ \A i, j \in DOMAIN FontFiles : FontFiles[i] = FontFiles[j] => i = j

SlotOf(s) == CASE s.bold /\ s.italic   -> "boldItalic"
               [] s.bold /\ ~s.italic  -> "bold"
               [] ~s.bold /\ s.italic  -> "italic"
               [] OTHER                -> "normal"

-------------------------------------------------------------------------------
(* Reading: parse_subtitle.                                                    *)

Arial == [font |-> Name("arial"), bold |-> FALSE, italic |-> FALSE]

(* \r, and \r with a style: an unknown style changes nothing. *)
Reset(style, tag, base, styles) ==
    IF tag.style = "" THEN base
    ELSE IF tag.style \in DOMAIN styles THEN styles[tag.style] ELSE style

(* apply_override_tags, one tag; s is the style in effect and drawing_level. *)
ApplyTag(s, tag, base, styles) ==
    CASE tag.name = "fn" -> IF NormFont(tag.font) = NoName THEN s
                            ELSE [s EXCEPT !.style.font = NormFont(tag.font)]
      [] tag.name = "r"  -> [s EXCEPT !.style = Reset(@, tag, base, styles)]
      [] tag.name = "b"  -> IF tag.num = Junk THEN s
                            ELSE [s EXCEPT !.style.bold =
                                    tag.num = Empty \/ tag.num >= 600 \/ tag.num \in {1, -1}]
      [] tag.name = "i"  -> [s EXCEPT !.style.italic = tag.num \notin {Empty, Junk, 0}]
      [] tag.name = "p"  -> [s EXCEPT !.level = IF tag.num \in {Empty, Junk} THEN 0 ELSE tag.num]

(* The style and drawing_level after the tags of a block. *)
AfterTags(s, tags, base, styles) ==
    LET after[k \in 0..Len(tags)] ==
          IF k = 0 THEN s ELSE ApplyTag(after[k - 1], tags[k], base, styles)
    IN  after[Len(tags)]

(* ... and after each atom of a line (parse_dialogue_text). *)
BaseStyle(styles, line) == IF line.style \in DOMAIN styles THEN styles[line.style] ELSE Arial
Reading(styles, line) ==
    LET base == BaseStyle(styles, line)
        after[i \in 0..Len(line.atoms)] ==
          IF i = 0 THEN [style |-> base, level |-> 0]
          ELSE AfterTags(after[i - 1], line.atoms[i].tags, base, styles)
    IN  after

(* What a character outside drawings uses; a break only makes the font known.  *)
Use(s, atom) ==
    IF atom.kind = "block" \/ s.level > 0 \/ NormFont(s.style.font) = NoName THEN {}
    ELSE {[font |-> NormFont(s.style.font), slot |-> SlotOf(s.style), ch |-> atom.ch]}

LineUses(styles, line) ==
    LET after == Reading(styles, line)
    IN  UNION {Use(after[i - 1], line.atoms[i]) : i \in DOMAIN line.atoms}

Uses(doc) == UNION {LineUses(doc.styles, doc.lines[i]) : i \in DOMAIN doc.lines}

(* The characters of a font in a slot, or in all of them. *)
Chars(uses, font, slots) ==
    {u.ch : u \in {v \in uses : v.font = font /\ v.slot \in slots}} \ {0}

-------------------------------------------------------------------------------
(* The [Fonts] section.                                                        *)

FontLine(kind, family, slot, chars) ==
    [kind |-> kind, family |-> family, slot |-> slot, chars |-> chars]

(* Characters in lines of LineLength of them, the last one shorter. *)
DataLines(chars) ==
    [k \in 1..((Len(chars) + LineLength - 1) \div LineLength) |->
       FontLine("data", NoName, "",
           SubSeq(chars, (k - 1) * LineLength + 1,
                  IF k * LineLength < Len(chars) THEN k * LineLength ELSE Len(chars)))]

(* build_fonts_section, and build_fonts_section_from_blocks. *)
FontSection(fonts) ==
    FlattenSeq([i \in DOMAIN fonts |->
        <<FontLine("fontname", fonts[i].family, fonts[i].slot, <<>>)>>
           \o DataLines(Encode(fonts[i].data))
           \o <<FontLine("blank", NoName, "", <<>>)>>])

(* A line [...] is a section header for this reader, encoded data or not. *)
LooksLikeHeader(line) ==
    /\ line.kind = "data"
    /\ Len(line.chars) >= 2
    /\ line.chars[1] = 58 /\ line.chars[Len(line.chars)] = 60    \* '[' and ']'

(* The characters of the block that starts at a line: those of the data lines  *)
(* up to a blank line, the next font, a header or the end.                     *)
BlockChars(section, k) ==
    LET ends == {e \in k + 1..Len(section) + 1 :
                    e \in DOMAIN section => \/ section[e].kind \in {"blank", "fontname"}
                                           \/ LooksLikeHeader(section[e])}
        end  == CHOOSE e \in ends : \A f \in ends : e <= f
    IN  FlattenSeq([i \in 1..end - k - 1 |-> section[k + i].chars])

(* parse_embedded_fonts with flush_embedded_font: up to the first header;      *)
(* blocks that do not decode are passed over.  (A line of data that begins     *)
(* with FONTNAME: would start another font; the model has none.)               *)
ParseFonts(section) ==
    LET Inside(k) == \A h \in 1..k : ~LooksLikeHeader(section[h])
        Font(k)   == [family |-> section[k].family, slot |-> section[k].slot,
                      data |-> Decode(BlockChars(section, k))]
    IN  FlattenSeq([k \in DOMAIN section |->
            IF section[k].kind = "fontname" /\ Inside(k) /\ Decodes(BlockChars(section, k))
            THEN <<Font(k)>> ELSE <<>>])

(* The elements of a sequence that belong to a set. *)
Those(seq, kept) == FlattenSeq([i \in DOMAIN seq |-> IF seq[i] \in kept THEN <<seq[i]>> ELSE <<>>])

(* What rewriting leaves of an old [Fonts] section: nothing, unless one of its *)
(* lines looks like a header.                                                  *)
Leftover(section) ==
    LET headers == {k \in DOMAIN section : LooksLikeHeader(section[k])}
    IN  IF headers = {} THEN <<>>
        ELSE SubSeq(section, CHOOSE k \in headers : \A h \in headers : k <= h, Len(section))

-------------------------------------------------------------------------------
(* Drawings.                                                                   *)

(* drawing_level_from_tag: the number of the first tag read as \p, 0 for none. *)
NoLevel == -1
DrawingLevel(atom) ==
    LET ps == {k \in DOMAIN atom.tags : atom.tags[k].name = "p"}
        p  == atom.tags[CHOOSE k \in ps : \A m \in ps : k <= m]
    IN  IF atom.kind # "block" \/ ps = {} \/ p.num \in {Empty, Junk} THEN NoLevel ELSE p.num

(* find_drawing_end: the next block with \p0, or 0. *)
DrawingEnd(atoms, i) ==
    LET ends == {k \in i + 1..Len(atoms) : DrawingLevel(atoms[k]) = 0}
    IN  IF ends = {} THEN 0 ELSE CHOOSE k \in ends : \A e \in ends : k <= e

(* Mutant of EntryOf: a drawing seen before gets the latest glyph. *)
LastEntry(entries, data) == Len(entries)

(* The entry of a drawing, the number of which is the glyph that stands for it. *)
EntryOf(entries, data) == CHOOSE k \in DOMAIN entries : entries[k] = data
Glyph(k) == 57344 + k - 1     \* 0xE000, the private use area

DrawBlock == Block(<<Fn(DrawName), P(0)>>)

(* One atom of a line: a closed drawing becomes a glyph. *)
RewriteAtom(acc, atoms, i) ==
    LET end     == DrawingEnd(atoms, i)
        data    == SubSeq(atoms, i, end)
        entries == IF data \in ToSet(acc.entries) THEN acc.entries
                   ELSE Append(acc.entries, data)
    IN  IF i <= acc.upto THEN acc
        ELSE IF DrawingLevel(atoms[i]) \in 1..15 /\ end # 0
        THEN [out |-> acc.out \o <<DrawBlock, Ch(Glyph(EntryOf(entries, data)))>>,
              entries |-> entries, upto |-> end]
        ELSE [acc EXCEPT !.out = Append(@, atoms[i])]

(* rewrite_drawings_in_text: the same glyph for the same drawing. *)
RewriteDrawings(atoms, known) ==
    LET acc[i \in 0..Len(atoms)] ==
          IF i = 0 THEN [out |-> <<>>, entries |-> known, upto |-> 0]
          ELSE RewriteAtom(acc[i - 1], atoms, i)
    IN  acc[Len(atoms)]

(* rewrite_drawings_as_font, over all dialogue lines. *)
DrawingsAsFont(lines) ==
    LET known[i \in 0..Len(lines)] ==
          IF i = 0 THEN <<>> ELSE RewriteDrawings(lines[i].atoms, known[i - 1]).entries
    IN  [lines   |-> [i \in DOMAIN lines |->
                        [lines[i] EXCEPT !.atoms = RewriteDrawings(@, known[i - 1]).out]],
         entries |-> known[Len(lines)]]

UsesDrawName(atom) ==
    \E k \in DOMAIN atom.tags : atom.tags[k].name = "fn" /\ Lookup(atom.tags[k].font) = Lookup(DrawName)

(* restore_draw_font_runs: a block that selects the drawing font and the one   *)
(* character after it.                                                         *)
RestoreDrawings(atoms, draws) ==
    LET Here(i)  == i > 0 /\ i < Len(atoms) /\ UsesDrawName(atoms[i])
                      /\ atoms[i + 1].kind = "char" /\ atoms[i + 1].ch \in DOMAIN draws
        Piece(i) == IF Here(i) THEN draws[atoms[i + 1].ch]
                    ELSE IF Here(i - 1) THEN <<>> ELSE <<atoms[i]>>
    IN  FlattenSeq([i \in DOMAIN atoms |-> Piece(i)])

-------------------------------------------------------------------------------
(* Rewriting.                                                                  *)

(* Mutant of Renamed: a name in another letter case is not found. *)
RenamedIfSame(n, map) == IF Lookup(n) \in DOMAIN map /\ ~n.upper THEN map[Lookup(n)] ELSE n

(* What the two rewriters do to a name. *)
Renamed(n, map) == IF Lookup(n) \in DOMAIN map THEN map[Lookup(n)] ELSE n

RenameStyles(styles, map) ==     \* rewrite_style_line
    [s \in DOMAIN styles |-> [styles[s] EXCEPT !.font = Renamed(@, map)]]

RenameTag(tag, map) ==           \* rewrite_fn_tags
    IF tag.name = "fn" THEN [tag EXCEPT !.font = Renamed(@, map)] ELSE tag
RenameAtom(atom, map) == [atom EXCEPT !.tags = [t \in DOMAIN @ |-> RenameTag(@[t], map)]]
RenameTags(lines, map) ==
    [i \in DOMAIN lines |-> [lines[i] EXCEPT !.atoms =
                               [k \in DOMAIN @ |-> RenameAtom(@[k], map)]]]

(* What a job reads as markers and as embedded fonts (ensure_original_subtitle, *)
(* over the whole text).                                                        *)
Names(doc) ==
    {doc.styles[s].font : s \in DOMAIN doc.styles}
      \cup UNION {{t.font : t \in UNION {ToSet(doc.lines[i].atoms[k].tags) :
                                         k \in DOMAIN doc.lines[i].atoms}} : i \in DOMAIN doc.lines}
HasMarker(doc) ==
    \/ doc.comments # <<>>
    \/ \E n \in Names(doc) : Lookup(n) = Lookup(DrawName)
    \/ \E k \in DOMAIN doc.section : Lookup(doc.section[k].family) = Lookup(DrawName)
HasFonts(doc) == doc.section # <<>> \/ HasMarker(doc)

(* "; Font Subset: new - old", one per new name; when every embedded font kept *)
(* its name, one per renamed font, in lower case.                              *)
SubsetComments(fonts, map) ==
    LET renamed == Those(fonts, {f \in ToSet(fonts) : f.original # f.family})
        First(k) == \A j \in 1..k - 1 : Lookup(renamed[j].family) # Lookup(renamed[k].family)
    IN  IF renamed # <<>>
        THEN FlattenSeq([k \in DOMAIN renamed |->
                IF First(k) THEN <<[subset |-> renamed[k].family, original |-> renamed[k].original]>>
                ELSE <<>>])
        ELSE SetToSeq({[subset |-> map[face], original |-> Name(face)] :
                         face \in {f \in DOMAIN map : Lookup(map[f]) # f}})

(* rewrite_with_embedded_fonts. *)
WithFonts(doc, lines, fonts, map) ==
    [doc EXCEPT !.comments = IF doc.info THEN SubsetComments(fonts, map) ELSE <<>>,
                !.styles   = RenameStyles(@, map),
                !.section  = FontSection(fonts),
                !.lines    = RenameTags(lines, map)]

(* rewrite_strip_embedded. *)
Stripped(doc, map, kept, draws) ==
    LET lines == RenameTags(doc.lines, map)
    IN  [doc EXCEPT !.comments = Those(@, {c \in ToSet(@) : Lookup(c.subset) \notin DOMAIN map}),
                    !.styles   = RenameStyles(@, map),
                    !.section  = FontSection(kept),
                    !.stray    = @ \o Leftover(doc.section),
                    !.lines    = [i \in DOMAIN lines |->
                                    [lines[i] EXCEPT !.atoms = RestoreDrawings(@, draws)]]]

-------------------------------------------------------------------------------
(* The jobs.                                                                   *)

Init ==
    /\ source \in Documents
    /\ text = source
    /\ options \in OptionSets
    /\ stage = "idle"
    /\ todo = {} /\ embedded = <<>> /\ names = <<>> /\ missing = {} /\ unreadable = {}

Unchanged == UNCHANGED <<source, options, unreadable>>

(* process_subset_job up to the loop over the fonts in use. *)
ReadSubtitle ==
    /\ stage = "idle"
    /\ stage' = IF HasFonts(text) THEN "failed" ELSE "fonts"
    /\ todo' = {u.font : u \in Uses(text)}
    /\ UNCHANGED <<text, embedded, names, missing>> /\ Unchanged

(* Neither the drawing font nor what the options leave out is embedded. *)
Exempt(font) ==
    \/ Lookup(font) = Lookup(DrawName)
    \/ Lookup(font) \in SystemFaces /\ ~options.system
    \/ Lookup(font) \notin SystemFaces /\ ~options.external

(* Mutant of StableName: names already given are not looked at. *)
StableNameAnyway(face, used) == Digest(face, 0)

(* stable_font_name: the first salt whose name is not taken. *)
FreeSalts(face, used) == {salt \in 0..MaxSalt : Digest(face, salt) \notin used}
StableName(face, used) ==
    Digest(face, CHOOSE salt \in FreeSalts(face, used) :
                   \A other \in FreeSalts(face, used) : salt <= other)

Given == {names[f].face : f \in DOMAIN names}    \* used_random_names

(* Two spellings of a name share one embedded name. *)
EmbeddedName(font) ==
    IF ~options.random THEN font
    ELSE IF Lookup(font) \in DOMAIN names THEN names[Lookup(font)]
    ELSE Name(StableName(Lookup(font), Given))

NamesWith(font) ==
    [face \in DOMAIN names \cup {Lookup(font)} |->
       IF face = Lookup(font) THEN EmbeddedName(font) ELSE names[face]]

(* subset_usage: a subset for every slot in use, or a single one.  The bytes   *)
(* are those the worker answers, or the cache holds.                           *)
Subsets(font, family) ==
    LET uses  == Uses(text)
        cut   == IF options.multi THEN [i \in 1..4 |-> {Slots[i]}] ELSE <<ToSet(Slots)>>
        InUse(i) == Chars(uses, font, cut[i]) # {}
    IN  FlattenSeq([i \in DOMAIN cut |->
            IF InUse(i)
            THEN <<[original |-> font, family |-> family, slot |-> Slots[i],
                    chars |-> Chars(uses, font, cut[i]), draws |-> <<>>,
                    data |-> FontFiles[Len(embedded) + Cardinality({k \in 1..i : InUse(k)})]]>>
            ELSE <<>>])

(* Bound: what is left of FontFiles is enough for the next font. *)
EnoughFiles == Len(embedded) + Len(Slots) <= Len(FontFiles)

(* One round of the loop, in the order of a hash map; without a salt that is    *)
(* free it panics, which fails the job.                                        *)
EmbedFont(font) ==
    /\ stage = "fonts"
    /\ font \in todo
    /\ todo' = todo \ {font}
    /\ IF Exempt(font) THEN UNCHANGED <<embedded, names, missing>>
       ELSE IF Lookup(font) \notin IndexedFaces
       THEN missing' = missing \cup {font} /\ UNCHANGED <<embedded, names>>
       ELSE /\ EnoughFiles
            /\ options.random => \/ Lookup(font) \in DOMAIN names
                                 \/ FreeSalts(Lookup(font), Given) # {}
            /\ embedded' = embedded \o Subsets(font, EmbeddedName(font))
            /\ names' = IF options.random THEN NamesWith(font) ELSE names
            /\ UNCHANGED missing
    /\ UNCHANGED <<text, stage>> /\ Unchanged

(* A worker error ends the job before anything is written. *)
WorkerFails ==
    /\ stage = "fonts"
    /\ stage' = "failed"
    /\ UNCHANGED <<text, todo, embedded, names, missing>> /\ Unchanged

(* The drawing font, the rewriting and the writing. *)
WriteSubset ==
    /\ stage = "fonts"
    /\ todo = {}
    /\ EnoughFiles
    /\ LET drawn == IF options.draw THEN DrawingsAsFont(text.lines)
                    ELSE [lines |-> text.lines, entries |-> <<>>]
           fonts == IF drawn.entries = <<>> THEN embedded
                    ELSE Append(embedded,
                           [original |-> DrawName, family |-> DrawName, slot |-> "normal",
                            chars |-> {Glyph(k) : k \in DOMAIN drawn.entries},
                            draws |-> drawn.entries, data |-> FontFiles[Len(embedded) + 1]])
       IN  /\ embedded' = fonts
           /\ text' = IF fonts = <<>> THEN text ELSE WithFonts(text, drawn.lines, fonts, names)
    /\ stage' = "converted"
    /\ UNCHANGED <<todo, names, missing>> /\ Unchanged

(* What the worker finds in the bytes of a font: what it put there itself, but *)
(* of a name with a comma what is before it, and nothing if it has a brace     *)
(* (parse_font_subset_map).                                                    *)
MadeHere(data)   == {k \in DOMAIN embedded : embedded[k].data = data}
SubsetMap(data)  ==
    {[subset |-> embedded[k].family, original |-> [embedded[k].original EXCEPT !.face = ReadAs[@]]] :
       k \in {m \in MadeHere(data) : /\ embedded[m].original # embedded[m].family
                                     /\ ReadAs[Lookup(embedded[m].original)] # ""}}
DrawEntries(data) == UNION {{[ch |-> Glyph(e), data |-> embedded[k].draws[e]] :
                               e \in DOMAIN embedded[k].draws} : k \in MadeHere(data)}

(* Mutant of Removable: a font the worker cannot read is taken out. *)
RemovableOnError(font, comments, readable) ==
    \/ \E c \in ToSet(comments) : Lookup(c.subset) = Lookup(font.family)
    \/ Lookup(font.family) = Lookup(DrawName)
    \/ readable => (SubsetMap(font.data) # {} \/ DrawEntries(font.data) # {})

(* What process_strip_job takes out: fonts a comment or their family gives     *)
(* away, and those whose content says so, when the worker could read it.       *)
Removable(font, comments, readable) ==
    \/ \E c \in ToSet(comments) : Lookup(c.subset) = Lookup(font.family)
    \/ Lookup(font.family) = Lookup(DrawName)
    \/ readable /\ (SubsetMap(font.data) # {} \/ DrawEntries(font.data) # {})

(* process_strip_job; the inspection of the fonts in failing ends in an error. *)
StripSubtitle(failing) ==
    /\ stage \in {"idle", "converted"}
    /\ LET fonts    == ParseFonts(text.section)
           found    == {f.data : f \in ToSet(fonts)} \ failing
           comments == ToSet(text.comments)
           maps     == UNION {SubsetMap(d) : d \in found}
           entries  == UNION {DrawEntries(d) : d \in found}
           faces    == {Lookup(m.subset) : m \in comments \cup maps}
           Original(face) ==
             LET from == IF \E m \in maps : Lookup(m.subset) = face THEN maps ELSE comments
             IN  (CHOOSE m \in from : Lookup(m.subset) = face).original
       IN  /\ failing \subseteq {f.data : f \in ToSet(fonts)}
           /\ text' = Stripped(text, [face \in faces |-> Original(face)],
                         Those(fonts, {f \in ToSet(fonts) :
                           ~Removable(f, text.comments, f.data \notin failing)}),
                         [c \in {e.ch : e \in entries} |-> (CHOOSE e \in entries : e.ch = c).data])
    /\ unreadable' = failing
    /\ stage' = "stripped"
    /\ UNCHANGED <<source, options, todo, embedded, names, missing>>

Done == stage \in {"failed", "stripped"} /\ UNCHANGED vars

Next ==
    \/ ReadSubtitle
    \/ \E font \in todo : EmbedFont(font)
    \/ WorkerFails
    \/ WriteSubset
    \/ \E failing \in SUBSET {f.data : f \in ToSet(ParseFonts(text.section))} :
          StripSubtitle(failing)
    \/ Done

Spec == Init /\ [][Next]_vars
-------------------------------------------------------------------------------
(* Properties.                                                                 *)

TypeOK ==
    /\ source \in Documents /\ options \in OptionSets
    /\ stage \in {"idle", "fonts", "converted", "failed", "stripped"}
    /\ \A k \in DOMAIN embedded :
          embedded[k].slot \in ToSet(Slots) /\ embedded[k].data \in ToSet(FontFiles)

(* The form SubtitleFiles would give to this text, up to whether its first     *)
(* marker lies within the scan's first mebibyte: sizes are not kept here.      *)
HasForm(form) == Embedded(form) = HasFonts(text) /\ Marker(form) = HasMarker(text)

FormBefore ==
    IF stage = "stripped" /\ embedded # <<>> THEN Outputs("subset", "orig")
    ELSE IF HasMarker(source) THEN {"ext_marked"}
    ELSE IF HasFonts(source) THEN {"ext_fonts"} ELSE {"orig"}

(* Types; two different fonts never get the same embedded name, whatever the   *)
(* order of the loop and the digests (stable_font_name); and each job leaves a *)
(* text of a form the file-level model knows.                                  *)
TextInv ==
    /\ TypeOK
    /\ \A i, k \in DOMAIN embedded :
          Lookup(embedded[i].family) = Lookup(embedded[k].family)
          => Lookup(embedded[i].original) = Lookup(embedded[k].original)
    /\ stage = "converted" => \E form \in Outputs("subset", "orig") : HasForm(form)
    /\ stage = "stripped" => \E was \in FormBefore : \E form \in Outputs("strip", was) : HasForm(form)

(* A line up to the first drawing that was made a glyph. *)
BeforeDrawings(line) ==
    LET drawn == {k \in DOMAIN line.atoms : UsesDrawName(line.atoms[k])}
    IN  IF drawn = {} THEN line
        ELSE [line EXCEPT !.atoms =
                SubSeq(@, 1, (CHOOSE k \in drawn : \A d \in drawn : k <= d) - 1)]

(* README line 3: the fonts a subtitle needs are embedded.  Read again after   *)
(* the conversion, every character before the first converted drawing of its   *)
(* line is in an embedded font of the name and slot it now asks for, or its    *)
(* font was reported missing or is left out by the options, or it is the Arial *)
(* assumed for a line of no known style, which nothing renames.                *)
CharactersAreEmbedded ==
    stage = "converted" =>
        \A i \in DOMAIN text.lines :
            \A u \in LineUses(text.styles, BeforeDrawings(text.lines[i])) :
                \/ u.ch = 0
                \/ u.font \in missing \/ Exempt(u.font)
                \/ text.lines[i].style \notin DOMAIN text.styles /\ u.font = Arial.font
                \/ \E k \in DOMAIN embedded :
                      /\ Lookup(embedded[k].family) = Lookup(u.font)
                      /\ u.ch \in embedded[k].chars
                      /\ embedded[k].slot = IF options.multi THEN u.slot ELSE "normal"

(* Names up to '@' and letter case; a font without a character in the text     *)
(* leaves no trace of its name.                                                *)
Plain(n) ==
    LET used  == Lookup(n) \in {Lookup(embedded[k].original) : k \in DOMAIN embedded}
        given == Lookup(n) \in DOMAIN names \cup {Lookup(names[f]) : f \in DOMAIN names}
    IN  Name(IF used \/ ~given THEN Lookup(n) ELSE "unused")
PlainTag(tag)   == [tag EXCEPT !.font = Plain(@)]
PlainAtom(atom) == [atom EXCEPT !.tags = [t \in DOMAIN @ |-> PlainTag(@[t])]]
Comparable(doc) ==
    [styles |-> [s \in DOMAIN doc.styles |-> [doc.styles[s] EXCEPT !.font = Plain(@)]],
     lines  |-> [i \in DOMAIN doc.lines |-> [doc.lines[i] EXCEPT !.atoms =
                   [k \in DOMAIN @ |-> PlainAtom(@[k])]]]]

(* No line of the encoded data looks like a section header. *)
Readable(font) ==
    \A line \in ToSet(DataLines(Encode(font.data))) : ~LooksLikeHeader(line)
DataReadable   == \A k \in DOMAIN embedded : Readable(embedded[k])
SourceReadable == \A f \in ToSet(ParseFonts(source.section)) : Readable(f)

(* No name the subtitle asks for could be a digest, as it could if a line had  *)
(* been copied from a converted subtitle: stripping cannot tell it from its    *)
(* own.                                                                        *)
NoDigestInUse ==
    \A n \in Names(source) \cup {Arial.font}, face \in IndexedFaces, salt \in 0..MaxSalt :
        Lookup(n) # Digest(face, salt)

(* What the worker says of a font goes before the comment.  So a name cut off  *)
(* at a comma is lost; one with a brace comes back if there is a [Script Info] *)
(* section for its comment.                                                    *)
NamesReadBack ==
    \A k \in DOMAIN embedded :
        LET face == Lookup(embedded[k].original)
        IN  ReadAs[face] = face \/ (ReadAs[face] = "" /\ source.info)

(* Stripping what was converted here gives back styles, tags and drawings and  *)
(* leaves none of the fonts that were renamed, when every embedded font could  *)
(* be inspected, no line of its data looks like a section header, the names    *)
(* are not cut off, and the subtitle asked for no digest.                      *)
StripUndoesConversion ==
    (stage = "stripped" /\ ~HasFonts(source) /\ unreadable = {} /\ DataReadable
       /\ NamesReadBack /\ NoDigestInUse) =>
        /\ Comparable(text) = Comparable(source)
        /\ text.comments = <<>> /\ text.stray = source.stray
        /\ options.random => text.section = <<>>

(* Stripping keeps the fonts that are not ours: blocks no marker names and     *)
(* whose bytes no worker made are still there, byte for byte and in order,     *)
(* also when inspecting some of them fails, if no line of the data looks like  *)
(* a section header once it is encoded again.                                  *)
Foreign(doc) ==
    LET fonts == ParseFonts(doc.section)
    IN  Those(fonts, {f \in ToSet(fonts) :
            /\ MadeHere(f.data) = {}
            /\ Lookup(f.family) # Lookup(DrawName)
            /\ \A c \in ToSet(source.comments) : Lookup(c.subset) # Lookup(f.family)})

ForeignFontsStay ==
    (stage = "stripped" /\ HasFonts(source) /\ SourceReadable) =>
        Foreign(text) = Foreign(source)
===============================================================================
