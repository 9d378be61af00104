----------------------------- MODULE RateLimits -----------------------------
(* PublicRouteLimiter of core/security.py on Redis: the window of one key is  *)
(* pruned, counted twice and extended by commands of their own, and calls of  *)
(* several processes go on at the same time.                                  *)
EXTENDS Integers, FiniteSets

CONSTANTS
    Calls,         \* calls of check that may be going on at a time
    BURST_LIMIT, BURST_WINDOW, DAILY_LIMIT, DAILY_WINDOW,
    MaxRequests

ASSUME LimitsAssumption ==
  /\ {BURST_LIMIT, DAILY_LIMIT, MaxRequests} \subseteq Nat \ {0}
  /\ BURST_WINDOW \in Nat /\ DAILY_WINDOW \in Nat /\ BURST_WINDOW < DAILY_WINDOW
  /\ IsFiniteSet(Calls)

VARIABLES
    clock,       \* the time of the last request
    requests,    \* how many there were
    calls,       \* a call: its next command, its time and its burst count
    window,      \* the sorted set: the times of the requests that were let in
    admitted     \* the same, never pruned

limitVars == <<clock, requests, calls, window, admitted>>

Idle == [next |-> "idle", at |-> 0, burst |-> 0]

LimitInit == /\ clock = 0
             /\ requests = 0
             /\ calls = [c \in Calls |-> Idle]
             /\ window = {}
             /\ admitted = {}

\* Requests come at different times.
Request(c) == /\ calls[c].next = "idle"
              /\ requests < MaxRequests
              /\ requests' = requests + 1
              /\ \E wait \in 1..(BURST_WINDOW + 1) :
                   /\ clock' = clock + wait
                   /\ calls' = [calls EXCEPT ![c] = [next |-> "zremrangebyscore", at |-> clock + wait, burst |-> 0]]
              /\ UNCHANGED <<window, admitted>>

\* Mutant of Prune: as long as the burst counts, so do the requests of a day.
PruneBurst(c) == /\ calls[c].next = "zremrangebyscore"
                 /\ window' = {t \in window : t >= calls[c].at - BURST_WINDOW}
                 /\ calls' = [calls EXCEPT ![c].next = "zcount"]
                 /\ UNCHANGED <<clock, requests, admitted>>

Prune(c) == /\ calls[c].next = "zremrangebyscore"
            /\ window' = {t \in window : t > calls[c].at - DAILY_WINDOW}
            /\ calls' = [calls EXCEPT ![c].next = "zcount"]
            /\ UNCHANGED <<clock, requests, admitted>>

BurstOf(c) == {t \in window : calls[c].at - BURST_WINDOW <= t /\ t <= calls[c].at}

CountBurst(c) ==
  /\ calls[c].next = "zcount"
  /\ calls' = [calls EXCEPT ![c] = [@ EXCEPT !.next = "zcard", !.burst = Cardinality(BurstOf(c))]]
  /\ UNCHANGED <<clock, requests, window, admitted>>

\* The daily count, and the decision.
CountDaily(c) ==
  /\ calls[c].next = "zcard"
  /\ calls' = [calls EXCEPT ![c] =
                 IF @.burst >= BURST_LIMIT \/ Cardinality(window) >= DAILY_LIMIT THEN Idle
                 ELSE [@ EXCEPT !.next = "zadd"]]
  /\ UNCHANGED <<clock, requests, window, admitted>>

Admit(c) == /\ calls[c].next = "zadd"
            /\ window' = window \cup {calls[c].at}
            /\ admitted' = admitted \cup {calls[c].at}
            /\ calls' = [calls EXCEPT ![c] = Idle]
            /\ UNCHANGED <<clock, requests>>

LimitNext == \E c \in Calls : Request(c) \/ Prune(c) \/ CountBurst(c) \/ CountDaily(c) \/ Admit(c)

LimitSpec == LimitInit /\ [][LimitNext]_limitVars

\* However calls overlap, and whatever a later call prunes while an earlier one
\* still counts: in the windows that end with the last request, no more were let
\* in than the limit and one for each other call that can be going on.
LimitsAreBounded ==
  LET since(t) == Cardinality({s \in admitted : s >= t})
      others   == Cardinality(Calls) - 1
  IN  /\ since(clock - BURST_WINDOW) <= BURST_LIMIT + others
      /\ since(clock - DAILY_WINDOW + 1) <= DAILY_LIMIT + others
=============================================================================
