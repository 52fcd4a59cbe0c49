----------------------------- MODULE Subscriptions -----------------------------
(***************************************************************************)
(* What a live feed promises its subscribers, with its channels, pumps and *)
(* locks left out. A subscriber receives the messages of the log one after *)
(* the other from the place where it joined, with none missing and none    *)
(* twice. While it is subscribed it lags by at most MaxLag messages; one   *)
(* that is cut off may still receive some that follow, and never joins     *)
(* again.                                                                  *)
(***************************************************************************)
EXTENDS Naturals, Sequences

CONSTANTS Subscribers, MaxLag

VARIABLES
  log,    \* messages so far, numbered from 1
  place,  \* place[s]: "out", "in" or "cut"
  from,   \* from[s]: length of the log when s joined
  got     \* got[s]: what s has received

feed == <<log, place, from, got>>

FeedInit ==
  /\ log = 0
  /\ place = [s \in Subscribers |-> "out"]
  /\ from = [s \in Subscribers |-> 0]
  /\ got = [s \in Subscribers |-> <<>>]

Lag(s) == log - (from[s] + Len(got[s]))

Extend ==
  /\ \A s \in Subscribers : place[s] = "in" => Lag(s) < MaxLag
  /\ log' = log + 1
  /\ UNCHANGED <<place, from, got>>

Join(s) ==
  /\ place[s] = "out"
  /\ place' = [place EXCEPT ![s] = "in"]
  /\ from' = [from EXCEPT ![s] = log]
  /\ UNCHANGED <<log, got>>

Receive(s) ==
  /\ place[s] # "out"
  /\ Lag(s) > 0
  /\ got' = [got EXCEPT ![s] = Append(@, from[s] + Len(@) + 1)]
  /\ UNCHANGED <<log, place, from>>

Cut(s) ==
  /\ place[s] = "in"
  /\ place' = [place EXCEPT ![s] = "cut"]
  /\ UNCHANGED <<log, from, got>>

FeedNext == Extend \/ \E s \in Subscribers : Join(s) \/ Receive(s) \/ Cut(s)

FeedSpec == FeedInit /\ [][FeedNext]_feed
================================================================================
