------------------------------ MODULE ConfigReload -----------------------------
(***************************************************************************)
(* How a setting the dashboard changes reaches a running OMS. The gateway  *)
(* commits the app_config rows and then publishes "config:changed"; the    *)
(* OMS loads the rows at startup, subscribes, and loads them again for     *)
(* every message. Redis delivers to who is subscribed at that moment.      *)
(* A gateway that finds the table empty fills it when it starts, and tells *)
(* nobody.                                                                 *)
(*                                                                         *)
(* Restart has no place in ConfigNext: the process that is restarted holds *)
(* more than its settings.                                                 *)
(***************************************************************************)
EXTENDS Naturals

CONSTANTS
  Settings,    \* the settings the dashboard offers
  Defaults,    \* those of a process that could not load any, and of an empty table's seed
  MaxChanges,  \* bound: requests to change settings
  MaxFaults    \* bound: statements and publishes that fail

ASSUME ConfigAssumption ==
  /\ Defaults \in Settings
  /\ DOMAIN Defaults # {}
  /\ Settings \subseteq [DOMAIN Defaults -> Nat]
  /\ MaxChanges \in Nat
  /\ MaxFaults \in Nat

VARIABLES
  dbConfig,    \* the rows of app_config
  announcing,  \* requests that committed and have not published yet
  notices,     \* messages in the OMS's channel
  subscribed,  \* Redis knows of the subscription
  cfg,         \* the OMS's copy
  loader,      \* where LoadFromDB stands, and the rows in its hands
  missed,      \* a message was lost, or a load failed, since the last full load
  changes, faults

configVars ==
  <<dbConfig, announcing, notices, subscribed, cfg, loader, missed, changes, faults>>

Keys == DOMAIN Defaults

\* A table without the rows of these settings.
NoRows == [k \in {} |-> 0]

Tables == Settings \cup {NoRows}

\* The settings after the rows of the keys in S were applied.
Applied(old, read, S) == [k \in Keys |-> IF k \in S THEN read[k] ELSE old[k]]

\* "start..." are the steps of main, before the subscription.
LoaderSteps == {"startQuery", "startApply", "subscribe", "idle", "query", "apply"}

ConfigTypeOK ==
  /\ dbConfig \in Tables
  /\ announcing \in Nat
  /\ notices \in Nat
  /\ announcing + notices <= changes
  /\ subscribed \in BOOLEAN
  /\ cfg \in [Keys -> Nat]
  /\ loader \in [pc : LoaderSteps, read : Tables]
  /\ missed \in BOOLEAN
  /\ changes \in 0..MaxChanges
  /\ faults \in Nat

Starting == [pc |-> "startQuery", read |-> NoRows]

ConfigInit ==
  /\ dbConfig \in Tables
  /\ announcing = 0
  /\ notices = 0
  /\ subscribed = FALSE
  /\ cfg = Defaults
  /\ loader = Starting
  /\ missed = FALSE
  /\ changes = 0
  /\ faults = 0

--------------------------------------------------------------------------------
(* The gateway: seedConfigIfEmpty, Update and BulkUpdate *)

\* A starting gateway counts no rows and inserts its own, which are the OMS's defaults. An
\* error is a warning: the next one tries again.
Seed ==
  /\ dbConfig = NoRows
  /\ dbConfig' = Defaults
  /\ UNCHANGED <<announcing, notices, subscribed, cfg, loader, missed, changes, faults>>

\* The statement, or the transaction, commits. BulkUpdate goes on to the publish when it
\* changed no row, too, as when there is none.
Commit ==
  /\ changes < MaxChanges
  /\ changes' = changes + 1
  /\ dbConfig' \in IF dbConfig = NoRows THEN {NoRows} ELSE Settings
  /\ announcing' = announcing + 1
  /\ UNCHANGED <<notices, subscribed, cfg, loader, missed, faults>>

\* Variant of Announce: a publish that succeeded is tried again.
AnnounceAgain ==
  /\ announcing > 0
  /\ IF subscribed THEN notices' = notices + 1 /\ UNCHANGED missed
                   ELSE missed' = TRUE /\ UNCHANGED notices
  /\ announcing' \in {announcing, announcing - 1}
  /\ UNCHANGED <<dbConfig, subscribed, cfg, loader, changes, faults>>

\* The publish, whose error is ignored.
Announce ==
  /\ announcing > 0
  /\ announcing' = announcing - 1
  /\ \/ /\ IF subscribed THEN notices' = notices + 1 /\ UNCHANGED missed
                         ELSE missed' = TRUE /\ UNCHANGED notices
        /\ UNCHANGED faults
     \/ /\ faults < MaxFaults
        /\ faults' = faults + 1
        /\ missed' = TRUE
        /\ UNCHANGED notices
  /\ UNCHANGED <<dbConfig, subscribed, cfg, loader, changes>>

--------------------------------------------------------------------------------
(* The OMS *)

AtStart == loader.pc \in {"startQuery", "startApply", "subscribe"}

\* What follows a load: main subscribes, the subscriber waits for the next message.
AfterLoad == IF AtStart THEN "subscribe" ELSE "idle"

\* Variant of TakeNotice: a message that arrives during a load is skipped.
TakeNoticeBusy ==
  /\ loader.pc \in {"idle", "query", "apply"}
  /\ notices > 0
  /\ notices' = notices - 1
  /\ loader' = IF loader.pc = "idle" THEN [loader EXCEPT !.pc = "query"] ELSE loader
  /\ UNCHANGED <<dbConfig, announcing, subscribed, cfg, missed, changes, faults>>

\* Variant of TakeNotice: the message is logged and nothing is loaded.
TakeNoticeLogged ==
  /\ loader.pc = "idle"
  /\ notices > 0
  /\ notices' = notices - 1
  /\ UNCHANGED <<dbConfig, announcing, subscribed, cfg, loader, missed, changes, faults>>

\* SubscribeChanges' goroutine takes a message.
TakeNotice ==
  /\ loader.pc = "idle"
  /\ notices > 0
  /\ notices' = notices - 1
  /\ loader' = [loader EXCEPT !.pc = "query"]
  /\ UNCHANGED <<dbConfig, announcing, subscribed, cfg, missed, changes, faults>>

\* LoadFromDB's SELECT: one snapshot of the rows, or an error, after which the process
\* goes on with the settings it has.
Query ==
  /\ loader.pc \in {"startQuery", "query"}
  /\ \/ /\ loader' = [pc |-> IF AtStart THEN "startApply" ELSE "apply", read |-> dbConfig]
        /\ missed' = FALSE
        /\ UNCHANGED faults
     \/ /\ faults < MaxFaults
        /\ faults' = faults + 1
        /\ loader' = [loader EXCEPT !.pc = AfterLoad]
        /\ missed' = TRUE
  /\ UNCHANGED <<dbConfig, announcing, notices, subscribed, cfg, changes>>

\* The rows are applied under c.mu; the error of a result that breaks off is not looked at.
Apply ==
  /\ loader.pc \in {"startApply", "apply"}
  /\ \/ /\ cfg' = Applied(cfg, loader.read, DOMAIN loader.read)
        /\ UNCHANGED <<missed, faults>>
     \/ /\ faults < MaxFaults
        /\ faults' = faults + 1
        /\ \E S \in SUBSET DOMAIN loader.read : cfg' = Applied(cfg, loader.read, S)
        /\ missed' = TRUE
  /\ loader' = [pc |-> AfterLoad, read |-> NoRows]
  /\ UNCHANGED <<dbConfig, announcing, notices, subscribed, changes>>

\* SubscribeChanges, as Redis sees it.
Subscribe ==
  /\ loader.pc = "subscribe"
  /\ subscribed' = TRUE
  /\ loader' = [loader EXCEPT !.pc = "idle"]
  /\ UNCHANGED <<dbConfig, announcing, notices, cfg, missed, changes, faults>>

\* A new process: the settings and the channel of the old one are gone.
ConfigRestart ==
  /\ cfg' = Defaults
  /\ loader' = Starting
  /\ notices' = 0
  /\ subscribed' = FALSE
  /\ missed' = FALSE
  /\ UNCHANGED <<dbConfig, announcing, changes>>

ConfigNext ==
  \/ Seed \/ Commit \/ Announce
  \/ TakeNotice \/ Query \/ Apply \/ Subscribe

--------------------------------------------------------------------------------
(* Properties *)

\* A load is under way that will read, or has read, what the table holds.
Loading ==
  \/ loader.pc \in {"startQuery", "query"}
  \/ loader.pc \in {"startApply", "apply"} /\ loader.read = dbConfig

\* What a process that loads the whole table goes by.
InForce == IF dbConfig = NoRows THEN Defaults ELSE dbConfig

\* The OMS works with the settings of the table, unless a change is on its way to it, or
\* a message or a load was lost since the last load that went through. No order of two
\* requests, their messages and the loads leaves older settings standing; nor does the
\* seed, which nobody is told of.
SettingsFollow ==
  cfg = InForce \/ announcing > 0 \/ notices > 0 \/ Loading \/ missed
================================================================================
