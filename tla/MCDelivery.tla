----------------------------- MODULE MCDelivery -----------------------------
(* Instances of Delivery for TLC: one caller with three calls, and the       *)
(* statuses a proxy in front of a self-hosted edge answers on its own.       *)
EXTENDS Delivery

Everyone == {"rust", "go", "js", "py"}
Lenient  == {"js", "py"}

Unavailable == {404, 502, 504}
Redirecting == Unavailable \cup {302, 307}
Denying     == {401, 403, 407}

(* A denying proxy is kept from the clients that take 401 for sent, a       *)
(* redirecting one from the client that follows it.                        *)
AnyProxy == [rust |-> Redirecting \cup Denying, go |-> Redirecting \cup Denying,
             js |-> Redirecting, py |-> Unavailable]

AnyBody == [c \in Everyone |-> Endings]

DenyingProxy == [js |-> Denying, py |-> Denying]
WholeBody    == [js |-> {"whole"}, py |-> {"whole"}]
=============================================================================
