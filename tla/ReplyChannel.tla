---------------------------- MODULE ReplyChannel ----------------------------
(***************************************************************************)
(* What a connection promises its client: the replies arrive in the order  *)
(* of the requests, each once, the reply to a malformed request is the     *)
(* last one, pushed messages may come between whole replies, and nothing   *)
(* arrives after the end of the connection.                                *)
(***************************************************************************)
EXTENDS Naturals, Sequences

CONSTANTS
    Conns, Kinds,
    UnitsOf(_),   \* the number of units of the reply to a request of a kind
    Push          \* the unit of a pushed message

VARIABLES
    asked,    \* the kinds of the requests each client has sent
    got,      \* the units it has received
    over      \* the connections that have ended

channelVars == <<asked, got, over>>

\* The units of the replies to a list of requests, <<i, j>> being the j-th unit
\* of the i-th reply; nothing follows the reply to a malformed request.
Answered(kinds) == {i \in 1..Len(kinds) : \A j \in 1..(i - 1) : kinds[j] # "bad"}
Expected(kinds) == UNION {{i} \X (1..UnitsOf(kinds[i])) : i \in Answered(kinds)}

Before(u, w) == u[1] < w[1] \/ (u[1] = w[1] /\ u[2] < w[2])

\* Of the expected units, exactly those before a unit arrive before it.
InOrder(units, kinds) ==
    \A p \in DOMAIN units : units[p] # Push =>
        /\ units[p] \in Expected(kinds)
        /\ \A u \in Expected(kinds) :
             Before(u, units[p]) <=> \E q \in 1..(p - 1) : units[q] = u

ChannelInit ==
    /\ asked = [c \in Conns |-> <<>>] /\ got = [c \in Conns |-> <<>>]
    /\ over = {}

Ask(c) ==
    /\ \E kind \in Kinds : asked' = [asked EXCEPT ![c] = Append(@, kind)]
    /\ UNCHANGED <<got, over>>

Deliver(c) ==
    /\ c \notin over
    /\ \A d \in Conns \ {c} : got'[d] = got[d]
    /\ Len(got[c]) < Len(got'[c]) /\ SubSeq(got'[c], 1, Len(got[c])) = got[c]
    /\ InOrder(got'[c], asked[c])
    /\ UNCHANGED asked

End(S) == over' = over \cup S

\* A last delivery and the end of connections may be one step.
ChannelNext ==
    \/ \E c \in Conns : Ask(c)
    \/ /\ \E S \in SUBSET (Conns \ over) : End(S)
       /\ (\E c \in Conns : Deliver(c)) \/ UNCHANGED <<asked, got>>

ChannelSpec == ChannelInit /\ [][ChannelNext]_channelVars
=============================================================================
