---------------------------- MODULE MCSubtitleText ----------------------------
(* Small subtitles for SubtitleText, and digests that collide. *)
EXTENDS SubtitleText

(* Every setting for the subtitles spelt out below. *)
MCOptionSets == [external : BOOLEAN, system : BOOLEAN, multi : BOOLEAN, random : BOOLEAN,
                 draw : BOOLEAN]

(* The digests of "main" and "other" collide at salt 0, and again at salt 1.   *)
MCDigest(face, salt) == CASE face = "arial"  -> "as-arial"
                          [] salt = 0 -> "as-0"
                          [] salt = 1 -> "as-1"
                          [] OTHER -> IF face = "main" THEN "as-2" ELSE "as-3"

MCWords == {"", "arial", "assdrawsubset", "main", "other", "gone", "x1", "keep", "keep2", "cut",
            "main,bold", "br}ace", "as-arial", "as-0", "as-1", "as-2", "as-3", "Default", "Sign", "Top", "nobody"}

(* A name is cut at a comma, and a brace ends the map. *)
MCReadAs == [w \in MCWords |-> CASE w = "main,bold" -> "main" [] w = "br}ace" -> "" [] OTHER -> w]

(* Every length modulo 3; the fourth encodes to a line that looks like a       *)
(* section header.                                                             *)
MCFontFiles == <<<<7>>, <<255, 254>>, <<0, 0, 0>>, <<232, 0, 60>>, <<1, 2, 3, 4>>,
                 <<9, 9, 9, 9, 9>>, <<5, 5>>, <<6>>, <<10>>, <<11, 11>>, <<12>>, <<13>>>>

Other == [Name("other") EXCEPT !.upper = TRUE]
Style(font, bold, italic) == [font |-> font, bold |-> bold, italic |-> italic]
MCStyles == [s \in {"Default", "Sign", "Top"} |->
               CASE s = "Default" -> Style(Name("main"), FALSE, FALSE)
                 [] s = "Sign"    -> Style(Other, TRUE, FALSE)
                 [] OTHER         -> Style([Name("main") EXCEPT !.at = TRUE], FALSE, TRUE)]

Line(style, atoms) == [style |-> style, atoms |-> atoms]
Doc(info, lines) == [info |-> info, comments |-> <<>>, styles |-> MCStyles,
                     section |-> <<>>, stray |-> <<>>, lines |-> lines]

(* Fonts and styles switched by tags, an unknown style, a line of no style. *)
Tagged == <<
    Line("Default", <<Ch(65), Block(<<Fn(Other), B(700)>>), Ch(66), Block(<<R("Sign")>>), Ch(67),
                      Block(<<R("nobody")>>), Ch(68), Block(<<R("")>>), Ch(69)>>),
    Line("Top", <<Block(<<I(Empty), Fn(NoName)>>), Ch(65), Block(<<B(Empty), I(1)>>), Ch(66),
                  Block(<<I(Junk), B(Junk)>>), Ch(67)>>),
    Line("nobody", <<Ch(70), Block(<<Fn(Name("gone"))>>), Ch(71)>>)>>

(* A drawing, another one, the first again, one that never  *)
(* ends, one behind \pos, text before and after, and breaks alone in a font.    *)
Drawn == <<
    Line("Default", <<Ch(65), Block(<<P(1)>>), Ch(109), Block(<<P(0)>>), Ch(66)>>),
    Line("Default", <<Block(<<P(1)>>), Ch(109), Block(<<P(0)>>), Block(<<B(1), P(2)>>), Ch(108),
                      Block(<<I(1)>>), Ch(108), Block(<<P(0)>>)>>),
    Line("Sign", <<Ch(67), Block(<<P(Junk), P(1)>>), Ch(109), Block(<<P(0), Fn(Name("main"))>>), Ch(68)>>),
    Line("Default", <<Block(<<Fn(Other)>>), Break, Block(<<Fn(Name("main"))>>), Ch(69),
                      Block(<<P(1)>>), Ch(109), Block(<<P(0)>>), Block(<<P(4)>>), Ch(109)>>)>>

(* Fonts and markers from elsewhere: one named by a comment, one with the       *)
(* drawing font's name, two others, one of which looks like a header inside.    *)
Found(family, data) == [family |-> Name(family), slot |-> "normal", data |-> data]
Elsewhere(comments, fonts) ==
    [Doc(TRUE, <<Line("Default", <<Block(<<Fn(Name("x1"))>>), Ch(65)>>)>>)
       EXCEPT !.comments = comments, !.section = FontSection(fonts)]

(* A font in longer lines than this program writes: written again, it has a    *)
(* line that looks like a header.                                              *)
Wide == [Doc(TRUE, <<Line("Default", <<Ch(65)>>)>>)
           EXCEPT !.section = <<FontLine("fontname", Name("keep"), "normal", <<>>),
                                FontLine("data", NoName, "", Encode(<<2, 2, 2, 232, 0, 60>>)),
                                FontLine("blank", NoName, "", <<>>)>>]

(* A line copied from a converted subtitle, which asks for a digest.           *)
Copied == Doc(TRUE, <<Line("Default", <<Ch(65), Block(<<Fn(Name("as-0"))>>), Ch(66)>>)>>)

(* Names the worker does not read back: one with a comma, from a tag, and one  *)
(* with a brace, from a style.                                                 *)
Comma == Doc(TRUE, <<Line("Default", <<Ch(65), Block(<<Fn(Name("main,bold"))>>), Ch(66)>>)>>)
Brace(info) == [Doc(info, <<Line("Default", <<Ch(65)>>), Line("Sign", <<Ch(66)>>)>>)
                  EXCEPT !.styles = [MCStyles EXCEPT !["Sign"].font = Name("br}ace")]]

(* Every line of three atoms, before a line that shares a drawing with it.     *)
Alphabet == {Ch(65), Ch(109), Break, Block(<<P(1)>>), Block(<<P(0)>>), Block(<<Fn(Other)>>),
             Block(<<R("Sign")>>), Block(<<B(1)>>), Block(<<P(0), Fn(Name("main"))>>)}
Short == {Doc(TRUE, <<Line("Default", <<x, y, z>>),
                      Line("Sign", <<Ch(67), Block(<<P(1)>>), Ch(109), Block(<<P(0)>>)>>)>>) :
             x, y, z \in Alphabet}

MCDocuments == Short \cup
    {Doc(TRUE, Tagged), Doc(TRUE, Drawn), Doc(FALSE, Drawn), Wide, Copied,
     Comma, Brace(TRUE), Brace(FALSE),
     Elsewhere(<<[subset |-> Name("x1"), original |-> Name("main")]>>,
               <<Found("x1", <<8>>), Found("keep", <<3, 1>>), Found("assdrawsubset", <<2>>),
                 Found("keep2", <<4, 4, 4, 4>>)>>),
     Elsewhere(<<>>, <<Found("keep", <<3, 1>>), Found("cut", <<2, 2, 2, 232, 0, 60, 1>>),
                       Found("keep2", <<4>>)>>)}
===============================================================================
