---------------------------- MODULE ChannelUrls ----------------------------
(***************************************************************************)
(* What a pasted text opens: rust/src/url.rs, and with_transport and url   *)
(* of rust/src/channel.rs.                                                 *)
(*                                                                         *)
(* A text, trimmed, is cut where its signs are: what is before "://", the  *)
(* authority, what is between the slashes after it, and whether a query or *)
(* a fragment follows, with or without a "://" of its own.                 *)
(***************************************************************************)
EXTENDS Integers, Sequences

CONSTANTS
    Lower,          \* Lower[s]: a scheme as it is typed, in small letters
    Authorities,    \* what may stand for a host, the empty text included
    KeyTexts,       \* the texts that are mk_ and 40 small hexadecimal digits
    OtherTexts,     \* other texts between slashes
    Nothing,        \* no scheme, no slash, no channel
    Unread,         \* nothing pasted, or not parsed yet
    Depth           \* bound: parts between the slashes of a text

DefaultHost == "mast.tissue.dev"
Empty       == ""

Segments == KeyTexts \cup OtherTexts \cup {Empty, "m"}

Paths == UNION { [1 .. n -> Segments] : n \in 0 .. Depth }

Pasted == [scheme : DOMAIN Lower \cup {Nothing}, authority : Authorities \cup KeyTexts,
           path : Paths \cup {Nothing}, tail : {"none", "query", "url"}]

Channel == [scheme : {"http", "https"}, authority : (Authorities \cup KeyTexts) \ {Empty},
            prefix : {<< >>, << "m" >>}, key : KeyTexts]

ASSUME TextAssumption ==
    /\ {Empty, DefaultHost} \subseteq Authorities
    /\ {Empty, "m"} \cap (KeyTexts \cup OtherTexts) = {}
    /\ KeyTexts \cap (OtherTexts \cup Authorities) = {}
    /\ {"http", "https"} \subseteq DOMAIN Lower /\ \A s \in {"http", "https"} : Lower[s] = s
    /\ Depth \in Nat /\ Depth >= 2
ASSUME NothingAssumption ==
    /\ Nothing \notin Paths \cup DOMAIN Lower /\ Unread \notin Pasted
    /\ {Nothing, Unread} \cap Channel = {} /\ Nothing # Unread

VARIABLES
    pasted,         \* what came off the clipboard
    channel         \* what it opened: Nothing when it was refused

urlVars == << pasted, channel >>
-----------------------------------------------------------------------------
IsKey(text) == text \in KeyTexts

Alone(text) == [scheme |-> Nothing, authority |-> text, path |-> Nothing, tail |-> "none"]

(* segments.next(): where the next part stands that is not empty, or the    *)
(* place behind the last part; unwrap_or_default() makes that an empty text.*)
NextAfter(path, k) ==
    CHOOSE j \in k + 1 .. Len(path) + 1 :
        /\ \A i \in k + 1 .. j - 1 : path[i] = Empty
        /\ j <= Len(path) => path[j] # Empty

Part(path, j) == IF j <= Len(path) THEN path[j] ELSE Empty

HasM(path) == Part(path, NextAfter(path, 0)) = "m"

\* Mutant: the prefix is taken off as often as it is there.
KeyPartPastEveryM(path) ==
    CHOOSE j \in 1 .. Len(path) + 1 :
        /\ \A i \in 1 .. j - 1 : path[i] \in {Empty, "m"}
        /\ j <= Len(path) => path[j] \notin {Empty, "m"}

KeyPart(path) == IF HasM(path) THEN NextAfter(path, NextAfter(path, 0)) ELSE NextAfter(path, 0)

(* The "://" that is split at is the first there is, in a query if need be. *)
Scheme(text) == CASE text.scheme # Nothing -> Lower[text.scheme]
                  [] text.scheme = Nothing /\ text.tail = "url" -> "not http"
                  [] OTHER -> "https"

Path(text) == IF text.path = Nothing THEN << >> ELSE text.path

Candidate(text) == Part(Path(text), KeyPart(Path(text)))

Refused(text) == \/ Scheme(text) \notin {"http", "https"}
                 \/ text.authority = Empty
                 \/ ~ IsKey(Candidate(text))

ParseChannelUrl(text) ==
    IF text = Alone(text.authority) /\ IsKey(text.authority)
    THEN [scheme |-> "https", authority |-> DefaultHost, prefix |-> << >>, key |-> text.authority]
    ELSE IF Refused(text) THEN Nothing
    ELSE [scheme |-> Scheme(text), authority |-> text.authority,
          prefix |-> IF HasM(Path(text)) THEN << "m" >> ELSE << >>, key |-> Candidate(text)]

\* Mutant: a channel prints the short form, whatever prefix it was given.
UrlShort(c) == [scheme |-> c.scheme, authority |-> c.authority, path |-> << c.key >>,
                tail |-> "none"]

Url(c) == [scheme |-> c.scheme, authority |-> c.authority,
           path |-> Append(c.prefix, c.key), tail |-> "none"]
-----------------------------------------------------------------------------
UrlInit == pasted = Unread /\ channel = Unread

Paste == /\ pasted = Unread
         /\ pasted' \in Pasted
         /\ UNCHANGED channel

Open == /\ pasted # Unread /\ channel = Unread
        /\ channel' = ParseChannelUrl(pasted)
        /\ UNCHANGED pasted

(* A channel is made a text again and opened by somebody else.              *)
Reopen == /\ channel \notin {Unread, Nothing}
          /\ pasted' = Url(channel)
          /\ channel' = ParseChannelUrl(Url(channel))

UrlNext == Paste \/ Open \/ Reopen

UrlSpec == UrlInit /\ [][UrlNext]_urlVars
-----------------------------------------------------------------------------
(* A text spells a channel: the bare key of one at the default host, or a   *)
(* URL with the key between its slashes, and before the key nothing but     *)
(* slashes and, if the channel has that prefix, one "m".                    *)
Spells(text, c) ==
    \/ /\ text = Alone(c.key)
       /\ c.scheme = "https" /\ c.authority = DefaultHost /\ c.prefix = << >>
    \/ /\ text.path # Nothing
       /\ c.authority = text.authority
       /\ IF text.scheme = Nothing THEN c.scheme = "https" /\ text.tail # "url"
          ELSE c.scheme = Lower[text.scheme]
       /\ \E k \in DOMAIN text.path :
             /\ text.path[k] = c.key
             /\ \A i \in 1 .. k - 1 : text.path[i] \in {Empty, "m"}
             /\ IF c.prefix = << >> THEN \A i \in 1 .. k - 1 : text.path[i] # "m"
                ELSE \E i \in 1 .. k - 1 : \A n \in 1 .. k - 1 : text.path[n] = "m" <=> n = i

Channels(text) == [scheme : {"http", "https"},
                   authority : {DefaultHost, text.authority} \ {Empty},
                   prefix : {<< >>, << "m" >>}, key : KeyTexts]

(* A text opens the channel it spells, and one that spells none is refused. *)
OpensWhatIsSpelled ==
    channel # Unread =>
        /\ channel \in Channels(pasted) \cup {Nothing}
        /\ \A c \in Channels(pasted) : channel = c <=> Spells(pasted, c)

(* What a channel says of itself opens the same channel: the key, the host  *)
(* and the prefix that was pasted are all kept.                            *)
ReopensTheSame == [][Reopen => channel' = channel]_urlVars
=============================================================================
