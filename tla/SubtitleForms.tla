----------------------------- MODULE SubtitleForms -----------------------------
(***************************************************************************)
(* What the jobs and the scan can tell of a subtitle's content, and what   *)
(* each job may turn it into.  SubtitleFiles moves files between these     *)
(* forms; SubtitleText says what is in them, and its runs check Outputs.   *)
(***************************************************************************)
Forms == {"orig",          \* no embedded font
          "ext_marked",    \* fonts and subset markers from elsewhere
          "ext_late",      \* ... the first of which lies past the prefix
          "ext_fonts",     \* fonts without a subset marker, from elsewhere
          "marked",        \* converted here, with subset markers
          "late",          \* ... the first of which lies past the prefix
          "fonts",         \* embedded fonts without a marker, written here
          "stripped",      \* cleaned by a strip job
          "drawn",         \* cleaned, except for glyphs whose drawings are lost
          "drawn_late"}    \* ... the first of which lies past the prefix

(* ensure_original_subtitle: a [Fonts] section or any subset marker.           *)
Embedded(form) == form \notin {"orig", "stripped"}

(* A "; Font Subset:" comment or the drawing font's name, wherever it is.      *)
Late         == {"ext_late", "late", "drawn_late"}
Marker(form) == form \in {"marked", "ext_marked", "drawn"} \cup Late

(* inspect_candidate_file searches no more than the first mebibyte of a file   *)
(* (SUBSET_MARKER_PREFIX_LIMIT), and does not look for a [Fonts] section.      *)
MarkerSeen(form) == Marker(form) /\ form \notin Late

(* What a job may write.  Renamed fonts leave a marker where there is a        *)
(* [Script Info] section to hold it, drawing fonts always, but behind the      *)
(* other fonts; with nothing to embed the text is kept.  Stripping removes the *)
(* fonts it recognises, or keeps some; a drawing font it could not read takes  *)
(* its drawings along.                                                         *)
Outputs(mode, form) ==
    IF mode = "subset" THEN {form, "marked", "late", "fonts"}
    ELSE {form, "stripped"} \cup (IF Embedded(form) THEN {"fonts"} ELSE {})
                            \cup (IF Marker(form) THEN {"drawn", "drawn_late"} ELSE {})
===============================================================================
