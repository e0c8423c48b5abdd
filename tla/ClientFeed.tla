------------------------------ MODULE ClientFeed ------------------------------
(***************************************************************************)
(* What one MPEG-TS stream promises to its clients, whatever queues, locks *)
(* and sentinels implement it.  The source publishes numbered chunks.  A   *)
(* client that joined sees some of them, each at most once and in the      *)
(* order they were published; it may miss any (a slow client is trimmed).  *)
(* Once its feed is over it sees nothing more, and after the stream was    *)
(* shut nobody joins.                                                      *)
(***************************************************************************)
EXTENDS Naturals

CONSTANTS Clients       \* one element per subscription

VARIABLES published,    \* number of chunks the source has published
          seen,         \* seen[c]: the last chunk c received, 0 before the first
          feed,         \* feed[c]: where c's subscription stands
          shut          \* the stream accepts no further client

feedVars == <<published, seen, feed, shut>>

FeedTypeOK ==
    /\ published \in Nat
    /\ seen \in [Clients -> Nat]
    /\ feed \in [Clients -> {"out", "open", "over"}]
    /\ shut \in BOOLEAN

FeedInit ==
    /\ published = 0
    /\ seen = [c \in Clients |-> 0]
    /\ feed = [c \in Clients |-> "out"]
    /\ shut = FALSE

Publish ==
    /\ published' = published + 1
    /\ UNCHANGED <<seen, feed, shut>>

Join(c) ==
    /\ ~shut
    /\ feed[c] = "out"
    /\ feed' = [feed EXCEPT ![c] = "open"]
    /\ UNCHANGED <<published, seen, shut>>

Deliver(c) ==
    /\ feed[c] = "open"
    /\ \E n \in 1..published :
          /\ n > seen[c]
          /\ seen' = [seen EXCEPT ![c] = n]
    /\ UNCHANGED <<published, feed, shut>>

\* The feed ends, or the client is turned away before it began.
Finish(c) ==
    /\ feed[c] # "over"
    /\ feed' = [feed EXCEPT ![c] = "over"]
    /\ UNCHANGED <<published, seen, shut>>

Shut ==
    /\ shut' = TRUE
    /\ UNCHANGED <<published, seen, feed>>

FeedNext ==
    \/ Publish
    \/ Shut
    \/ \E c \in Clients : Join(c) \/ Deliver(c) \/ Finish(c)

FeedSpec == FeedInit /\ [][FeedNext]_feedVars
===============================================================================
