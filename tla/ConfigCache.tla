----------------------------- MODULE ConfigCache -----------------------------
(***************************************************************************)
(* The two copies of the gateway's configuration: the one requests for it  *)
(* are answered from for a quarter of an hour (api/system_config.go), and  *)
(* the one ConfigCollector takes the tariff from for an hour               *)
(* (collector/config.go).  They do not depend on each other, and the       *)
(* variable "kind" says which of them is followed.                         *)
(*                                                                         *)
(* Users of a copy, which are requests or runs of the collector, fetch     *)
(* side by side when they find it missing or old, and the one that         *)
(* finishes last leaves what it has fetched, be it older.  The copy of the *)
(* API is read and replaced under configMutex; that of the collector is    *)
(* two fields without a lock, read twice and written one after the other;  *)
(* a time read half written is the old one, the new one, or an older one.  *)
(* Of the times it is told whether the copy still counts as fresh.         *)
(***************************************************************************)
EXTENDS Naturals

CONSTANTS
  Users,
  MaxConfigs    \* bound: configurations the gateway has had

ASSUME ConfigAssumption == MaxConfigs \in Nat \ {0}

VARIABLES
  kind,     \* "api" or "collector"
  live,     \* the number of the configuration the gateway has
  copy,     \* configCache; or currentConfig, with lastFetch as "fresh".  0: none
  user      \* of each user how far it is, the configuration it was sent or
            \* used, and whether "now" is an hour ago

configVars == <<kind, live, copy, user>>

ConfigInit ==
  /\ kind \in {"api", "collector"}
  /\ live = 1
  /\ copy = [config |-> 0, fresh |-> FALSE]
  /\ user = [u \in Users |-> [at |-> "idle", got |-> 0, late |-> FALSE]]

Becomes(u, at, got) == user' = [user EXCEPT ![u].at = at, ![u].got = got]

(* Kept that does not look at the time. *)
KeptForever == copy.config # 0

(* What both test before they fetch. *)
Kept == copy.config # 0 /\ copy.fresh

(* A request that finds the copy is answered before the lock is released;    *)
(* a run of the collector goes on, and reads currentConfig once more.        *)
FindKept(u) ==
  /\ user[u].at = "idle" /\ Kept
  /\ IF kind = "api" THEN Becomes(u, "done", copy.config) ELSE Becomes(u, "using", 0)
  /\ UNCHANGED <<kind, live, copy>>

BeginFetch(u) ==
  /\ user[u].at = "idle" /\ ~Kept
  /\ user' = [user EXCEPT ![u] = [at |-> "asking", got |-> 0, late |-> FALSE]]
  /\ UNCHANGED <<kind, live, copy>>

(* The gateway writes its answer. *)
SendConfig(u) ==
  /\ user[u].at = "asking" /\ Becomes(u, "sent", live)
  /\ UNCHANGED <<kind, live, copy>>

(* No answer, or one that does not parse: "Failed to fetch config". *)
ConfigFails(u) ==
  /\ user[u].at \in {"asking", "sent"} /\ Becomes(u, "idle", 0)
  /\ UNCHANGED <<kind, live, copy>>

(* The copy is as old as the end of the fetch. *)
StoreConfig(u) ==
  /\ kind = "api" /\ user[u].at = "sent"
  /\ copy' = [config |-> user[u].got, fresh |-> TRUE]
  /\ Becomes(u, "done", user[u].got)
  /\ UNCHANGED <<kind, live>>

SetCurrentConfig(u) ==
  /\ kind = "collector" /\ user[u].at = "sent"
  /\ copy' = [copy EXCEPT !.config = user[u].got]
  /\ Becomes(u, "set", 0)
  /\ UNCHANGED <<kind, live>>

(* The copy is as old as the run, which may have waited for long. *)
SetLastFetch(u) ==
  /\ user[u].at = "set"
  /\ copy' = [copy EXCEPT !.fresh = ~user[u].late]
  /\ Becomes(u, "using", 0)
  /\ UNCHANGED <<kind, live>>

UseCurrentConfig(u) ==
  /\ user[u].at = "using" /\ Becomes(u, "done", copy.config)
  /\ UNCHANGED <<kind, live, copy>>

(* The next request, or the next run. *)
NextUse(u) ==
  /\ user[u].at = "done" /\ Becomes(u, "idle", 0)
  /\ UNCHANGED <<kind, live, copy>>

ConfigChanges ==
  /\ live < MaxConfigs /\ live' = live + 1
  /\ UNCHANGED <<kind, copy, user>>

(* A quarter of an hour, or an hour. *)
CopyAges ==
  /\ copy.fresh \/ \E u \in Users : user[u].at # "idle" /\ ~user[u].late
  /\ copy' = [copy EXCEPT !.fresh = FALSE]
  /\ user' = [u \in Users |-> [user[u] EXCEPT !.late = user[u].at # "idle"]]
  /\ UNCHANGED <<kind, live>>

ConfigNext ==
  \/ \E u \in Users : \/ FindKept(u) \/ BeginFetch(u) \/ SendConfig(u) \/ ConfigFails(u)
                      \/ StoreConfig(u) \/ SetCurrentConfig(u) \/ SetLastFetch(u)
                      \/ UseCurrentConfig(u) \/ NextUse(u)
  \/ ConfigChanges \/ CopyAges

(* Time passes.  Neither the gateway nor those who ask need do anything.     *)
ConfigSpec == ConfigInit /\ [][ConfigNext]_configVars /\ WF_configVars(CopyAges)

-----------------------------------------------------------------------------
ConfigTypeOK ==
  /\ kind \in {"api", "collector"} /\ live \in 1 .. MaxConfigs
  /\ copy \in [config : 0 .. MaxConfigs, fresh : BOOLEAN]
  /\ user \in [Users -> [at : {"idle", "asking", "sent", "set", "using", "done"},
                         got : 0 .. MaxConfigs, late : BOOLEAN]]

(* Once the gateway's configuration does not change any more, only it is     *)
(* given to pages, and only its tariff is used, from some time on: old       *)
(* copies go out of use whoever fetches beside whom, and even if some of     *)
(* them wait for the gateway for ever (getConfig, Collect).                  *)
ConfigCatchesUp ==
  <>[][\A u \in Users : user[u].at # "done" /\ user'[u].at = "done" => user'[u].got = live]_configVars
=============================================================================
