----------------------------- MODULE VersionList ----------------------------
(***************************************************************************)
(* VersionListParser of gen_ec_release_notes.py (lines 155-205): the      *)
(* callbacks html.parser makes while find_new_releases feeds it a mirror  *)
(* page (lines 216-218).  A page is the sequence of events the parser     *)
(* reports; one action per callback.                                       *)
(*                                                                         *)
(* A text stands for what data.strip() (line 196) yields of it; the      *)
(* whitespace it strips is not told apart by any property.               *)
(***************************************************************************)
EXTENDS Naturals, Sequences, SequencesExt

CONSTANTS
    Versions,     \* version directory names, e.g. 4.14.0-ec.1
    LatestNames,  \* names that start with "latest-"
    MaxEvents     \* longest page considered

Texts == Versions \cup LatestNames \cup {""}
Events ==
    [kind : {"start"}, tag : {"span", "a"}, class : {"name", "other"}]
    \cup [kind : {"end"}] \cup [kind : {"data"}, text : Texts]
Pages == BoundedSeq(Events, MaxEvents)

VARIABLES
    page,       \* the events of the page
    pos,        \* the next event to report
    inVersion,  \* _in_version
    versions    \* versions

vars == <<page, pos, inVersion, versions>>

TypeOK ==
    /\ page \in Pages
    /\ pos \in 1..MaxEvents + 1
    /\ inVersion \in BOOLEAN
    /\ versions \in Seq(Versions \cup LatestNames)

(* Lines 179-182: __init__. *)
Init ==
    /\ page \in Pages
    /\ pos = 1 /\ inVersion = FALSE /\ versions = <<>>

Event == page[pos]
Reported(kind) == pos <= Len(page) /\ Event.kind = kind

(* Lines 184-188: handle_starttag. *)
HandleStartTag ==
    /\ Reported("start")
    /\ inVersion' = IF Event.tag # "span" THEN inVersion
                    ELSE Event.class = "name"
    /\ pos' = pos + 1
    /\ UNCHANGED <<page, versions>>

(* Lines 190-191: handle_endtag, for any tag. *)
HandleEndTag ==
    /\ Reported("end")
    /\ inVersion' = FALSE
    /\ pos' = pos + 1
    /\ UNCHANGED <<page, versions>>

(* A slip: "latest-" names are kept. *)
HandleDataKeepsLatest ==
    /\ Reported("data")
    /\ versions' = IF inVersion /\ Event.text # ""
                   THEN Append(versions, Event.text) ELSE versions
    /\ pos' = pos + 1
    /\ UNCHANGED <<page, inVersion>>

(* A slip: the blank test after strip() is dropped. *)
HandleDataKeepsBlank ==
    /\ Reported("data")
    /\ versions' = IF inVersion /\ Event.text \notin LatestNames
                   THEN Append(versions, Event.text) ELSE versions
    /\ pos' = pos + 1
    /\ UNCHANGED <<page, inVersion>>

(* Lines 193-201: handle_data. *)
HandleData ==
    /\ Reported("data")
    /\ versions' = IF /\ inVersion
                      /\ Event.text # ""
                      /\ Event.text \notin LatestNames
                   THEN Append(versions, Event.text) ELSE versions
    /\ pos' = pos + 1
    /\ UNCHANGED <<page, inVersion>>

(* The whole page has been fed. *)
Fed ==
    /\ pos > Len(page)
    /\ UNCHANGED vars

Next == HandleStartTag \/ HandleEndTag \/ HandleData \/ Fed

Spec == Init /\ [][Next]_vars

-----------------------------------------------------------------------------
(* The reference: the elements open before event i, innermost last; an   *)
(* end tag closes the innermost one.                                       *)
OpenBefore(i) ==
    FoldLeft(LAMBDA st, e :
                CASE e.kind = "start" -> Append(st, e)
                  [] e.kind = "end" -> IF st = <<>> THEN st
                                       ELSE SubSeq(st, 1, Len(st) - 1)
                  [] OTHER -> st,
             <<>>, SubSeq(page, 1, i - 1))

InNameSpan(i) ==
    LET st == OpenBefore(i) IN
    st # <<>> /\ Last(st).tag = "span" /\ Last(st).class = "name"

IsVersionText(i) ==
    /\ page[i].kind = "data" /\ InNameSpan(i)
    /\ page[i].text \notin LatestNames \cup {""}

VersionPositions == SelectSeq([i \in 1..Len(page) |-> i], IsVersionText)

(* The pages the mirror serves put nothing but text in a name span. *)
FlatNameSpans ==
    \A i \in 1..Len(page) : InNameSpan(i) => page[i].kind \in {"data", "end"}

(* On a page whose name spans hold only text, the parser reports exactly *)
(* the stripped texts directly inside <span class="name">, in page order,*)
(* leaving out blanks and "latest-" links, as the docstring of lines     *)
(* 155-177 describes; a text after an unrelated end tag or inside a span *)
(* of another class is not a version.                                     *)
VersionsAreNameSpanTexts ==
    (pos > Len(page) /\ FlatNameSpans) =>
        versions = [n \in 1..Len(VersionPositions) |->
                        page[VersionPositions[n]].text]
=============================================================================
