--------------------------- MODULE NameResolution ---------------------------
(***************************************************************************)
(* get_image_display_name of crio-df.py (lines 120-142): an image name    *)
(* from images.json to the (repository, tag) pair of the report.  A name  *)
(* is a sequence of tokens: the separators ":", "/", "@" each a token of  *)
(* their own, every other run of characters one word token.              *)
(*                                                                         *)
(* The names resolved are those of the reference grammar the spec (4.5)   *)
(* describes and containers/storage records:                              *)
(*     [host[:port]/]path[:tag][@sha256:hex]                               *)
(* built from word tokens Words; Init picks the names list of an image.   *)
(***************************************************************************)
EXTENDS Naturals, Sequences, SequencesExt

CONSTANTS
    Hosts,     \* host part: <<>> (none), a host word, or host ":" port
    Paths,     \* repository path: words joined by "/"
    Tags,      \* <<>> (no tag) or one tag word
    Digests,   \* <<>> (no digest) or <<"@", "sha256", ":", hex>>
    NotYet     \* the function has not been called

Colon == ":"
Slash == "/"
At == "@"
DigestMarker == <<"@", "sha256", ":">>
None == <<"<none>">>
Latest == <<"latest">>

ContainsSubSeq(s, t) ==
    \E i \in 1..(Len(s) - Len(t) + 1) : SubSeq(s, i, i + Len(t) - 1) = t
Contains1(s, tok) == \E i \in DOMAIN s : s[i] = tok

(* A name of the grammar, rendered as tokens. *)
Components == [host : Hosts, path : Paths, tag : Tags, digest : Digests]
Render(c) ==
    (IF c.host = <<>> THEN <<>> ELSE c.host \o <<Slash>>)
    \o c.path
    \o (IF c.tag = <<>> THEN <<>> ELSE <<Colon>> \o c.tag)
    \o c.digest

VARIABLES
    comps,    \* the components the image's first name was built from
    names,    \* image["names"]
    result    \* the returned (repository, tag), or NotYet

vars == <<comps, names, result>>

(* name.split("@")[0]: the tokens before the first "@". *)
BeforeFirstAt(name) ==
    LET i == SelectInSeq(name, LAMBDA x : x = At)
    IN  IF i = 0 THEN name ELSE SubSeq(name, 1, i - 1)

(* Lines 129-142 with the two tests as parameters: whether the digest is  *)
(* stripped, and whether a "/" after the last ":" marks a host:port.      *)
ResolveWith(name0, stripDigest, checkSlash) ==
    LET name  == IF stripDigest /\ ContainsSubSeq(name0, DigestMarker)
                 THEN BeforeFirstAt(name0) ELSE name0
        i     == SelectLastInSeq(name, LAMBDA x : x = Colon)
        left  == SubSeq(name, 1, i - 1)
        right == SubSeq(name, i + 1, Len(name))
    IN  IF i = 0 THEN <<name, Latest>>
        ELSE IF checkSlash /\ Contains1(right, Slash) THEN <<name, Latest>>
        ELSE <<left, right>>

(* Lines 122-127: no names gives ("<none>", "<none>"); else the first.    *)
GetImageDisplayNameWith(nms, stripDigest, checkSlash) ==
    IF nms = <<>> THEN <<None, None>>
    ELSE ResolveWith(nms[1], stripDigest, checkSlash)

(* Mutations: the digest is kept; the host:port test is dropped; the     *)
(* fallback written `return ("<none>")`, a string rather than a pair.     *)
GetImageDisplayNameBareNone(nms) ==
    IF nms = <<>> THEN None ELSE ResolveWith(nms[1], TRUE, TRUE)
GetImageDisplayNameKeepDigest(nms) == GetImageDisplayNameWith(nms, FALSE, TRUE)
GetImageDisplayNameNoPortCheck(nms) == GetImageDisplayNameWith(nms, TRUE, FALSE)

GetImageDisplayName(nms) == GetImageDisplayNameWith(nms, TRUE, TRUE)

TypeOK ==
    /\ comps \in Components \cup {NotYet}
    /\ names \in Seq(Seq(STRING))
    /\ result \in {NotYet} \cup (Seq(STRING) \X Seq(STRING))

(* An image holds no name, or one or two names of the grammar. *)
Init ==
    \/ /\ comps = NotYet
       /\ names = <<>>
       /\ result = NotYet
    \/ \E c \in Components, more \in {<<>>} \cup {<<Render(d)>> : d \in Components} :
         /\ comps = c
         /\ names = <<Render(c)>> \o more
         /\ result = NotYet

(* The report calls get_image_display_name for the image (lines 173, 265). *)
Resolve ==
    /\ result = NotYet
    /\ result' = GetImageDisplayName(names)
    /\ UNCHANGED <<comps, names>>

Resolved ==
    /\ result # NotYet
    /\ UNCHANGED vars

Next == Resolve \/ Resolved

Spec == Init /\ [][Next]_vars

-----------------------------------------------------------------------------
(* The spec's examples (section 8) generalised: the repository reported   *)
(* is host/path as the first name was written, port included and digest  *)
(* removed; the tag is the name's tag, or "latest" when it has none; an   *)
(* image without names reports ("<none>", "<none>").                      *)
ResolvesComponents ==
    result # NotYet =>
        IF comps = NotYet THEN result = <<None, None>>
        ELSE result = << Render([comps EXCEPT !.tag = <<>>, !.digest = <<>>]),
                         IF comps.tag = <<>> THEN Latest ELSE comps.tag >>

=============================================================================
