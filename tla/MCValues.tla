------------------------------ MODULE MCValues ------------------------------
(***************************************************************************)
(* The parts of the Rust client that have no clock and no task of their    *)
(* own, side by side: a behaviour is about a message, about a card and the *)
(* calendar, or about a pasted text, and the rest stays as it began.       *)
(***************************************************************************)
EXTENDS Messages, Calendar, ChannelUrls

VARIABLE topic

Words(lengths) == [chars : lengths, scheme : {"none"}]

(* Each field on both sides of its limits, and what is turned off.          *)
MCOffers ==
    [f \in Fields |->
        CASE f = "title" -> Words({0, 250, 251})
          [] f = "body" -> Words({4096, 4097})
          [] f = "url_title" -> Words({250, 251})
          [] f = "dedupe_key" -> Words({0, 1, 120, 121})
          [] f = "url" -> [chars : {512}, scheme : {"http", "https", "none"}] \cup
                          [chars : {513}, scheme : {"https"}]
          [] f = "callback" -> [chars : {512}, scheme : {"http", "https", "none"}] \cup
                               [chars : {513}, scheme : {"https"}]
          [] f = "priority" -> {"normal", "page"}
          [] f = "sound" -> {"klaxon"}
          [] f = "retry" -> {Off, 0, 59, 60, 61, 172800, 172802}
          [] f = "expire" -> {Off, 0, 118, 120, 121, 1209600, 1209602}
          [] f = "timestamp" -> {0}
          [] OTHER -> {TRUE}]

MCKeys == Words({0, 119, 121})

MCMessageIds == [prefix : {"mm_", "mk_"}, digits : {31, 32, 40}, hex : BOOLEAN]

MCFirst     == -401
MCMonthDays == {1, 28, 29, 31}

MCClocks == { [hour |-> 0, minute |-> 0, second |-> 0],
              [hour |-> 23, minute |-> 59, second |-> 60] }

MCLower == [s \in {"", "https", "http", "HTTPS", "ftp"} |-> IF s = "HTTPS" THEN "https" ELSE s]
-----------------------------------------------------------------------------
MCInit == topic \in {"message", "card", "text"} /\ Init /\ CivilInit /\ UrlInit

MCNext == /\ UNCHANGED topic
          /\ \/ topic = "message" /\ Next /\ UNCHANGED << civilVars, urlVars >>
             \/ topic = "card" /\ CivilNext /\ UNCHANGED << vars, urlVars >>
             \/ topic = "text" /\ UrlNext /\ UNCHANGED << vars, civilVars >>

MCSpec == MCInit /\ [][MCNext]_<< topic, vars, civilVars, urlVars >>
=============================================================================
