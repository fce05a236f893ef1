------------------------- MODULE Onboarding_proofs -------------------------
(***************************************************************************)
(* Theorems about Onboarding for any terminals, accounts and bounds: no    *)
(* key is registered whose private half is lost, and the key announced as  *)
(* verified is the one in the file, wherever commands are interrupted; the *)
(* newest tokens are in the token file or on their way to it, unless a     *)
(* grant was lost; and every variable keeps its type.                      *)
(***************************************************************************)
EXTENDS Onboarding, TLAPS

(* What the argument needs of the types. *)
Typed ==
  /\ account \in Accounts
  /\ granted \in Grants
  /\ registry \in [Sites -> [Keys -> {"none", "pending", "verified"}]]
  /\ file \in [state : FileStates, tokens : Tokens]
  /\ keyFile \in [KeyPaths -> [state : FileStates, key : Keys]]
  /\ generated \in 0 .. MaxKeys
  /\ proc \in [Terminals -> Command]

-----------------------------------------------------------------------------
(* Commands *)

(* The constants, and what they bound.                                       *)
LEMMA Bounds ==
  /\ 0 \in Grants /\ 0 \in Keys /\ 0 \in 0 .. MaxCallbacks
  /\ MaxCommands \in Nat /\ MaxGrants \in Nat /\ MaxKeys \in Nat
  /\ \A s \in Sites : s # None
  BY OnboardingAssumption DEF Grants, Keys

(* The tokens of a grant are tokens.                                         *)
LEMMA BlankTokens ==
  ASSUME NEW g \in Grants
  PROVE  Granted(g) \in Tokens /\ Granted(g).grant = g
  BY DEF Granted, Tokens, NoRegion, None

(* A terminal without a command is typed.                                    *)
LEMMA BlankCommand == Idle \in Command /\ Idle.at = "idle"
  BY Bounds, BlankTokens DEF Idle, Command, Places, Local, NoRegion, None, Foreign

(* A place is all that changes. *)
LEMMA CommandGoes ==
  ASSUME NEW c \in Command, NEW p \in Places
  PROVE  /\ [c EXCEPT !.at = p] \in Command
         /\ [c EXCEPT !.at = p].at = p
         /\ [c EXCEPT !.at = p].key = c.key
         /\ [c EXCEPT !.at = p].cmd = c.cmd
  BY DEF Command

(* What is left of a login is typed, wherever it goes on.                    *)
LEMMA LoginTyped ==
  ASSUME Typed, NEW t \in Terminals, NEW p \in Places
  PROVE  Login(t, p) \in Command /\ Login(t, p).at = p
  BY BlankCommand DEF Login, Command, Typed

(* So is a command that starts its own work, or one of its places.           *)
LEMMA ActingTyped ==
  ASSUME Typed, NEW t \in Terminals,
         NEW site \in Sites \cup {None}, NEW din \in Sites \cup {None}
  PROVE  /\ Acting(t, site, din) \in Command
         /\ Acting(t, site, din).at \in {"key", "list", "remove"}
  <1> DEFINE place == CASE proc[t].cmd = "add" -> "key"
                        [] proc[t].cmd = "remove" -> "remove" [] OTHER -> "list"
  <1>1. place \in {"key", "list", "remove"} /\ place \in Places
    BY DEF Places, Local
  <1>2. proc[t].cmd \in KeyCommands \cup {"none", "auth"}
    BY DEF Typed, Command
  <1>3. Acting(t, site, din) = [Idle EXCEPT !.cmd = proc[t].cmd, !.site = site,
                                            !.din = din, !.at = place]
    BY DEF Acting
  <1> HIDE DEF place
  <1>4. [Idle EXCEPT !.cmd = proc[t].cmd, !.site = site, !.din = din, !.at = place] \in Command
    BY <1>1, <1>2, BlankCommand DEF Command
  <1>5. [Idle EXCEPT !.cmd = proc[t].cmd, !.site = site, !.din = din, !.at = place].at = place
    BY BlankCommand DEF Command
  <1>6. QED
    BY <1>1, <1>3, <1>4, <1>5

(* So is one that saves what it found out about its site.                    *)
LEMMA PersistingTyped ==
  ASSUME Typed, NEW t \in Terminals, NEW region \in Regions \cup {NoRegion},
         NEW site \in Sites \cup {None}, NEW din \in Sites \cup {None}
  PROVE  /\ Persisting(t, region, site, din) \in Command
         /\ Persisting(t, region, site, din).at = "saving"
  <1> DEFINE new == [proc[t].tokens EXCEPT !.site = site, !.din = din,
                       !.region = IF region = NoRegion THEN @ ELSE region]
  <1>1. proc[t] \in Command /\ proc[t].tokens \in Tokens
    BY DEF Typed, Command
  <1>2. new \in Tokens
    BY <1>1 DEF Tokens
  <1>3. Persisting(t, region, site, din) =
          [proc[t] EXCEPT !.site = site, !.din = din, !.tokens = new, !.at = "saving",
                          !.then = "act"]
    BY DEF Persisting
  <1> HIDE DEF new
  <1>4. "saving" \in Places
    BY DEF Places, Local
  <1>5. [proc[t] EXCEPT !.site = site, !.din = din, !.tokens = new, !.at = "saving",
                        !.then = "act"] \in Command
    BY <1>1, <1>2, <1>4 DEF Command
  <1>6. [proc[t] EXCEPT !.site = site, !.din = din, !.tokens = new, !.at = "saving",
                        !.then = "act"].at = "saving"
    BY <1>1 DEF Command
  <1>7. QED
    BY <1>3, <1>5, <1>6

(* A terminal's command becomes another. *)
LEMMA Change ==
  ASSUME Typed, NEW t \in Terminals, NEW c \in Command, Becomes(t, c)
  PROVE  /\ proc' \in [Terminals -> Command]
         /\ proc'[t] = c
         /\ \A u \in Terminals \ {t} : proc'[u] = proc[u]
  BY DEF Becomes, Typed

-----------------------------------------------------------------------------
(* The invariant *)

(* Where a command relies on the key in the file. *)
KeyHeld == {"register", "first", "second", "prompt", "ready"}
Making == {"generate", "keywriting"}

(* RegisteredKeyKept is not inductive: a command must not go on to register  *)
(* a key that is not in the file, nor two commands write the file.  While a  *)
(* key is made the file is still absent, or created and empty; and as it is  *)
(* not written, no key is registered then.                                   *)
HeldKeysInFile ==
  \A t \in Terminals : proc[t].at \in KeyHeld =>
    keyFile["rsa"] = [state |-> "written", key |-> proc[t].key]

OneMaker ==
  \A t \in Terminals : Generating(t, "rsa") =>
    /\ keyFile["rsa"].state = IF At(t, "generate") THEN "absent" ELSE Garbled
    /\ \A u \in Terminals : Generating(u, "rsa") => u = t

KeysSafe == collided \/ (RegisteredKeyKept /\ HeldKeysInFile /\ OneMaker)

(* Most steps leave the RSA key's file alone, and move a command to where it *)
(* has none to do with it or keeps the key it had.                           *)
Quiet(t, c) ==
  /\ Becomes(t, c)
  /\ \/ c.at \notin KeyHeld \cup Making
     \/ c.at \in Making /\ c.cmd = "auth"
     \/ c.at \in KeyHeld /\ proc[t].at \in KeyHeld /\ c.key = proc[t].key
  /\ c.at = "ready" => PollKeyState(t)
  /\ UNCHANGED <<account, registry, generated>>
  /\ keyFile' \in [KeyPaths -> [state : FileStates, key : Keys]]
  /\ keyFile'["rsa"] = keyFile["rsa"]
  /\ collided => collided'
  /\ granted' \in Grants
  /\ file' \in [state : FileStates, tokens : Tokens]

(* A quiet step keeps the invariant. *)
LEMMA QuietKeeps ==
  ASSUME Typed, KeysSafe, NEW t \in Terminals, NEW c \in Command, Quiet(t, c)
  PROVE  Typed' /\ KeysSafe'
  <1>1. /\ proc' \in [Terminals -> Command]
        /\ proc'[t] = c
        /\ \A u \in Terminals \ {t} : proc'[u] = proc[u]
    BY Change DEF Quiet
  <1>2. Typed'
    BY <1>1 DEF Typed, Quiet
  <1>3. ASSUME ~collided PROVE RegisteredKeyKept'
    <2>1. RegisteredKeyKept /\ registry' = registry /\ keyFile'["rsa"] = keyFile["rsa"]
      BY <1>3 DEF KeysSafe, Quiet
    <2>2. QED
      BY <1>3, <2>1 DEF RegisteredKeyKept
  <1>4. ASSUME ~collided PROVE HeldKeysInFile'
    <2>1. HeldKeysInFile /\ keyFile'["rsa"] = keyFile["rsa"]
      BY <1>4 DEF KeysSafe, Quiet
    <2>2. c.at \in KeyHeld => proc[t].at \in KeyHeld /\ c.key = proc[t].key
      BY DEF Quiet, KeyHeld, Making
    <2>3. QED
      BY <1>1, <2>1, <2>2 DEF HeldKeysInFile
  <1>5. ASSUME ~collided PROVE OneMaker'
    <2>1. OneMaker /\ keyFile'["rsa"] = keyFile["rsa"]
      BY <1>5 DEF KeysSafe, Quiet
    <2>2. c.at \in Making => c.cmd = "auth"
      BY DEF Quiet, KeyHeld, Making
    <2>3. \A u \in Terminals : Generating(u, "rsa")' => u # t /\ Generating(u, "rsa")
      BY <1>1, <2>2 DEF Generating, KeyPath, Making
    <2>4. QED
      BY <1>1, <2>1, <2>3 DEF OneMaker, At
  <1>6. QED
    BY <1>2, <1>3, <1>4, <1>5 DEF KeysSafe, Quiet

-----------------------------------------------------------------------------
(* The steps that are quiet *)

(* Places with no key of their own. *)
Away == Places \ (KeyHeld \cup Making)

(* The places a command goes through without relying on a key.               *)
LEMMA AwayPlaces ==
  {"idle", "refresh", "resolve", "saving", "writing", "list", "key", "remove",
   "waiting", "exchange", "partner", "shutdown", "tunnel"} \subseteq Away
  BY DEF Away, Places, Local, KeyHeld, Making

(* Returning is idling, or shutting the login's server down. *)
LEMMA ReturnsTyped ==
  ASSUME Typed, NEW t \in Terminals, Returns(t)
  PROVE  \E c \in Command : Becomes(t, c) /\ c.at \in Away
  <1>1. CASE Becomes(t, Idle)
    BY <1>1, BlankCommand, AwayPlaces
  <1>2. CASE Becomes(t, Login(t, "shutdown"))
    <2>1. "shutdown" \in Places /\ "shutdown" \in Away
      BY AwayPlaces DEF Away
    <2>2. QED
      BY <1>2, <2>1, LoginTyped
  <1>3. QED
    BY <1>1, <1>2 DEF Returns

(* Going on after a save is going to such a place.                           *)
LEMMA SavedTyped ==
  ASSUME Typed, NEW t \in Terminals
  PROVE  Saved(t) \in Command /\ Saved(t).at \in Away
  <1>1. /\ proc[t] \in Command
        /\ proc[t].then \in {"idle", "resolve", "act", "partner"}
        /\ proc[t].site \in Sites \cup {None} /\ proc[t].din \in Sites \cup {None}
        /\ proc[t].tokens.grant \in Grants
    BY DEF Typed, Command, Tokens
  <1>2. CASE proc[t].then = "idle"
    BY <1>2, BlankCommand, AwayPlaces DEF Saved
  <1>3. CASE proc[t].then = "act"
    BY <1>1, <1>3, ActingTyped, AwayPlaces DEF Saved
  <1>4. CASE proc[t].then = "partner"
    <2>1. "partner" \in Places /\ "partner" \in Away
      BY AwayPlaces DEF Away
    <2>2. QED
      BY <1>4, <2>1, LoginTyped DEF Saved
  <1>5. CASE proc[t].then = "resolve"
    <2>1. Saved(t) = [proc[t] EXCEPT !.at = "resolve", !.loaded = proc[t].tokens.grant]
      BY <1>5 DEF Saved
    <2>2. "resolve" \in Places /\ "resolve" \in Away
      BY AwayPlaces DEF Away
    <2>3. QED
      BY <1>1, <2>1, <2>2 DEF Command
  <1>6. QED
    BY <1>1, <1>2, <1>3, <1>4, <1>5

(* A step that goes to such a place and leaves the keys alone is quiet. *)
LEMMA AwayQuiet ==
  ASSUME Typed, NEW t \in Terminals, NEW c \in Command,
         Becomes(t, c), c.at \in Away, UNCHANGED <<account, registry, keyVars>>,
         granted' \in Grants, file' \in [state : FileStates, tokens : Tokens]
  PROVE  Quiet(t, c)
  BY DEF Quiet, Away, KeyHeld, keyVars, Typed

(* A command that is started loads its tokens, and no key yet.               *)
LEMMA QuietStart ==
  ASSUME Typed, NEW t \in Terminals,
         \/ \E flag \in {"none", "force", "refresh"} : StartAuth(t, flag)
         \/ \E cmd \in KeyCommands, region \in Regions \cup {NoRegion},
               site \in Sites \cup {None} : StartKeys(t, cmd, region, site)
  PROVE  \E c \in Command : Quiet(t, c)
  <1> DEFINE keyed(cmd, region, site, place) ==
        [Idle EXCEPT !.cmd = cmd, !.region = region, !.site = site,
           !.tokens = file.tokens, !.loaded = file.tokens.grant,
           !.at = place, !.then = "resolve"]
  <1>0. file.tokens \in Tokens /\ file.tokens.grant \in Grants
    BY DEF Typed, Tokens
  <1>1. ASSUME NEW flag \in {"none", "force", "refresh"}, StartAuth(t, flag)
        PROVE  \E c \in Command : Quiet(t, c)
    <2>1. /\ UNCHANGED <<account, registry, keyVars>> /\ granted' \in Grants
          /\ file' \in [state : FileStates, tokens : Tokens]
      BY <1>1 DEF StartAuth, Typed, fileVars
    <2>2. \/ Becomes(t, NewLogin(flag)) \/ Becomes(t, NewRefresh(flag)) \/ Becomes(t, Idle)
      BY <1>1 DEF StartAuth
    <2>3. "key" \in Places /\ "refresh" \in Places
      BY DEF Places, Local
    <2>4. NewLogin(flag) \in Command /\ NewLogin(flag).at \in Away
      BY BlankCommand, AwayPlaces, <2>3 DEF NewLogin, Command
    <2>5. NewRefresh(flag) \in Command /\ NewRefresh(flag).at \in Away
      BY BlankCommand, AwayPlaces, <2>3, <1>0 DEF NewRefresh, Command
    <2>6. Idle \in Command /\ Idle.at \in Away
      BY BlankCommand, AwayPlaces
    <2>7. QED
      BY <2>1, <2>2, <2>4, <2>5, <2>6, AwayQuiet
  <1>2. ASSUME NEW cmd \in KeyCommands, NEW region \in Regions \cup {NoRegion},
               NEW site \in Sites \cup {None}, StartKeys(t, cmd, region, site)
        PROVE  \E c \in Command : Quiet(t, c)
    <2>1. /\ UNCHANGED <<account, registry, keyVars>> /\ granted' \in Grants
          /\ file' \in [state : FileStates, tokens : Tokens]
      BY <1>2 DEF StartKeys, Typed, fileVars
    <2> DEFINE place == IF IsExpired(file.tokens) THEN "refresh" ELSE "resolve"
    <2>2. Becomes(t, keyed(cmd, region, site, place))
      BY <1>2 DEF StartKeys
    <2>3. place \in Places /\ place \in Away
      BY AwayPlaces DEF Away
    <2> HIDE DEF place
    <2>4. /\ keyed(cmd, region, site, place) \in Command
          /\ keyed(cmd, region, site, place).at = place
      BY BlankCommand, <2>3, <1>0 DEF Command
    <2> HIDE DEF keyed
    <2>5. QED
      BY <2>1, <2>2, <2>3, <2>4, AwayQuiet
  <1>3. QED
    BY <1>1, <1>2

(* Returning leaves the tokens and keys alone, or has them as typed. *)
LEMMA QuietReturn ==
  ASSUME Typed, NEW t \in Terminals, Returns(t),
         UNCHANGED <<account, registry, keyVars>>,
         granted' \in Grants, file' \in [state : FileStates, tokens : Tokens]
  PROVE  \E c \in Command : Quiet(t, c)
  BY ReturnsTyped, AwayQuiet

(* And so does going on after a save. *)
LEMMA QuietSaved ==
  ASSUME Typed, NEW t \in Terminals, Becomes(t, Saved(t)),
         UNCHANGED <<account, registry, keyVars>>,
         granted' \in Grants, file' \in [state : FileStates, tokens : Tokens]
  PROVE  \E c \in Command : Quiet(t, c)
  BY SavedTyped, AwayQuiet

(* The refreshes and the saves. *)
LEMMA QuietTokens ==
  ASSUME Typed, NEW t \in Terminals,
         \/ Refresh(t) \/ RefreshRefused(t) \/ RefreshLost(t)
         \/ Truncate(t) \/ Write(t) \/ SaveFails(t)
  PROVE  \E c \in Command : Quiet(t, c)
  <1>0. /\ proc[t] \in Command /\ proc[t].tokens \in Tokens /\ granted \in Nat
        /\ file \in [state : FileStates, tokens : Tokens] /\ MaxGrants \in Nat
        /\ granted \in Grants
        /\ Garbled \in FileStates /\ "written" \in FileStates
    BY Bounds DEF Typed, Command, Grants, FileStates
  <1>1. granted < MaxGrants => granted + 1 \in Grants
    BY <1>0 DEF Grants
  <1>2. CASE Refresh(t)
    <2> DEFINE c == [proc[t] EXCEPT !.tokens = Granted(granted'), !.at = "saving"]
    <2>1. /\ UNCHANGED <<account, registry, keyVars>> /\ granted' \in Grants
          /\ file' \in [state : FileStates, tokens : Tokens] /\ Becomes(t, c)
      BY <1>0, <1>1, <1>2 DEF Refresh, fileVars
    <2>2. "saving" \in Places /\ "saving" \in Away
      BY AwayPlaces DEF Away
    <2>3. Granted(granted') \in Tokens
      BY <2>1, BlankTokens
    <2>4. c \in Command /\ c.at = "saving"
      BY <1>0, <2>2, <2>3 DEF Command
    <2> HIDE DEF c
    <2>5. QED
      BY <2>1, <2>2, <2>4, AwayQuiet
  <1>3. ASSUME RefreshFailed(t), UNCHANGED <<account, registry, keyVars>>,
               granted' \in Grants, file' \in [state : FileStates, tokens : Tokens]
        PROVE  \E c \in Command : Quiet(t, c)
    <2>1. CASE Becomes(t, Login(t, "key"))
      <3>1. "key" \in Places /\ "key" \in Away
        BY AwayPlaces DEF Away
      <3>2. QED
        BY <1>3, <2>1, <3>1, LoginTyped, AwayQuiet
    <2>2. CASE Returns(t)
      BY <1>3, <2>2, QuietReturn
    <2>3. QED
      BY <1>3, <2>1, <2>2 DEF RefreshFailed
  <1>4. CASE RefreshRefused(t)
    BY <1>0, <1>3, <1>4 DEF RefreshRefused, fleetVars, fileVars
  <1>5. CASE RefreshLost(t)
    <2>1. /\ RefreshFailed(t) /\ UNCHANGED <<account, registry, keyVars>>
          /\ granted' \in Grants /\ file' = file
      BY <1>0, <1>1, <1>5 DEF RefreshLost
    <2>2. QED
      BY <1>0, <1>3, <2>1
  <1>6. CASE Truncate(t)
    <2> DEFINE c == [proc[t] EXCEPT !.at = "writing"]
    <2>1. /\ UNCHANGED <<account, registry, keyVars>> /\ granted' \in Grants
          /\ file' \in [state : FileStates, tokens : Tokens] /\ Becomes(t, c)
      BY <1>0, <1>6 DEF Truncate, Goes, fleetVars
    <2>2. "writing" \in Places /\ "writing" \in Away
      BY AwayPlaces DEF Away
    <2>3. c \in Command /\ c.at = "writing"
      BY <1>0, <2>2, CommandGoes
    <2> HIDE DEF c
    <2>4. QED
      BY <2>1, <2>2, <2>3, AwayQuiet
  <1>7. CASE Write(t)
    <2>1. /\ UNCHANGED <<account, registry, keyVars>> /\ granted' \in Grants
          /\ file' \in [state : FileStates, tokens : Tokens] /\ Becomes(t, Saved(t))
      BY <1>0, <1>7 DEF Write, fleetVars
    <2>2. QED
      BY <2>1, QuietSaved
  <1>8. CASE SaveFails(t)
    BY <1>0, <1>8, QuietSaved DEF SaveFails, fleetVars
  <1>9. QED
    BY <1>2, <1>4, <1>5, <1>6, <1>7, <1>8

(* What of the state the steps below leave alone. *)
LEMMA Still ==
  ASSUME Typed
  PROVE  /\ UNCHANGED <<fleetVars, keyVars>> => /\ UNCHANGED <<account, registry, keyVars>>
                                                /\ granted' \in Grants
         /\ UNCHANGED fileVars => file' \in [state : FileStates, tokens : Tokens]
  BY DEF Typed, fleetVars, fileVars

(* resolveClient. *)
LEMMA QuietResolve ==
  ASSUME Typed, NEW t \in Terminals,
         ResolveKnown(t) \/ ResolveUnknown(t) \/ ResolveFails(t)
  PROVE  \E c \in Command : Quiet(t, c)
  <1>0. /\ proc[t].site \in Sites \cup {None} /\ proc[t].tokens \in Tokens
        /\ proc[t].tokens.site \in Sites \cup {None}
        /\ proc[t].tokens.din \in Sites \cup {None}
        /\ account \subseteq Sites
    BY DEF Typed, Command, Tokens, Sites
  <1>1. Site(t) \in Sites \cup {None}
    BY <1>0 DEF Site
  <1>2. /\ UNCHANGED <<account, registry, keyVars>> /\ granted' \in Grants
        /\ file' \in [state : FileStates, tokens : Tokens]
    BY Still DEF ResolveKnown, ResolveUnknown, ResolveFails
  <1>3. ASSUME NEW region \in Regions \cup {NoRegion}, NEW site \in Sites \cup {None},
               NEW din \in Sites \cup {None}, Becomes(t, Persisting(t, region, site, din))
        PROVE  \E c \in Command : Quiet(t, c)
    <2>1. "saving" \in Away
      BY AwayPlaces
    <2>2. QED
      BY <1>2, <1>3, <2>1, PersistingTyped, AwayQuiet
  <1>4. ASSUME NEW site \in Sites \cup {None}, NEW din \in Sites \cup {None},
               Becomes(t, Acting(t, site, din))
        PROVE  \E c \in Command : Quiet(t, c)
    <2>1. {"key", "list", "remove"} \subseteq Away
      BY AwayPlaces
    <2>2. QED
      BY <1>2, <1>4, <2>1, ActingTyped, AwayQuiet
  <1>5. NoRegion \in Regions \cup {NoRegion} /\ "home" \in Regions \cup {NoRegion}
    BY DEF Regions
  <1>6. CASE ResolveKnown(t)
    <2>1. \/ \E s \in GetEnergySites(Region(t)) : Becomes(t, Persisting(t, NoRegion, s, s))
          \/ Becomes(t, Acting(t, Site(t), proc[t].tokens.din))
      BY <1>6 DEF ResolveKnown
    <2>2. GetEnergySites(Region(t)) \subseteq Sites
      BY <1>0 DEF GetEnergySites
    <2>3. QED
      BY <1>0, <1>1, <1>3, <1>4, <1>5, <2>1, <2>2
  <1>7. CASE ResolveUnknown(t)
    <2>1. \/ Becomes(t, Persisting(t, "home", Site(t), proc[t].tokens.din))
          \/ \E s \in account : Becomes(t, Persisting(t, "home", s, s))
          \/ Returns(t)
      BY <1>7 DEF ResolveUnknown
    <2>2. QED
      BY <1>0, <1>1, <1>2, <1>3, <1>5, <2>1, QuietReturn
  <1>8. CASE ResolveFails(t)
    BY <1>2, <1>8, QuietReturn DEF ResolveFails
  <1>9. QED
    BY <1>6, <1>7, <1>8

(* The steps that end a command, or its login, without more. *)
LEMMA QuietEnd ==
  ASSUME Typed, NEW t \in Terminals,
         \/ List(t) \/ CreateKeyFails(t) \/ Announce(t) \/ TunnelFails(t)
         \/ TimeOut(t) \/ ExchangeFails(t) \/ RegisterPartner(t) \/ Shutdown(t) \/ Kill(t)
  PROVE  \E c \in Command : Quiet(t, c)
  <1>0. /\ granted \in Nat /\ MaxGrants \in Nat /\ granted \in Grants
        /\ file \in [state : FileStates, tokens : Tokens]
        /\ granted < MaxGrants => granted + 1 \in Grants
    BY Bounds DEF Typed, Grants
  <1>1. CASE List(t) \/ CreateKeyFails(t) \/ Announce(t) \/ TunnelFails(t) \/ TimeOut(t)
             \/ RegisterPartner(t)
    <2>1. Returns(t) /\ UNCHANGED <<fleetVars, keyVars, fileVars>>
      BY <1>1 DEF List, CreateKeyFails, Announce, TunnelFails, TimeOut, RegisterPartner
    <2>2. QED
      BY <2>1, Still, QuietReturn
  <1>2. CASE ExchangeFails(t)
    <2>1. /\ Returns(t) /\ UNCHANGED <<account, registry, keyVars>> /\ file' = file
          /\ granted' \in Grants
      BY <1>0, <1>2 DEF ExchangeFails
    <2>2. QED
      BY <1>0, <2>1, QuietReturn
  <1>3. CASE Shutdown(t) \/ Kill(t)
    <2>1. /\ Becomes(t, Idle) /\ UNCHANGED <<fleetVars, keyVars>> /\ file' = file
      BY <1>3 DEF Shutdown, Kill, fileVars
    <2>2. Idle.at \in Away
      BY BlankCommand, AwayPlaces
    <2>3. QED
      BY <1>0, <2>1, <2>2, Still, BlankCommand, AwayQuiet
  <1>4. QED
    BY <1>1, <1>2, <1>3

(* The login, and the polls of a key that is registered. *)
LEMMA QuietLogin ==
  ASSUME Typed, NEW t \in Terminals,
         \/ TunnelUp(t) \/ (\E code \in BOOLEAN : Callback(t, code))
         \/ TakeCode(t) \/ TakeError(t) \/ Exchange(t)
  PROVE  \E c \in Command : Quiet(t, c)
  <1>0. /\ proc[t] \in Command /\ proc[t].codes \in Nat /\ proc[t].errs \in Nat
        /\ proc[t].callbacks \in 0 .. MaxCallbacks /\ MaxCallbacks \in Nat
        /\ granted \in Nat /\ MaxGrants \in Nat /\ granted \in Grants
    BY OnboardingAssumption DEF Typed, Command, Grants
  <1>1. CASE TunnelUp(t)
    <2> DEFINE c == [proc[t] EXCEPT !.at = "waiting"]
    <2>1. Becomes(t, c) /\ UNCHANGED <<fleetVars, keyVars, fileVars>>
      BY <1>1 DEF TunnelUp, Goes
    <2>2. "waiting" \in Places /\ "waiting" \in Away
      BY AwayPlaces DEF Away
    <2>3. c \in Command /\ c.at = "waiting"
      BY <1>0, <2>2, CommandGoes
    <2> HIDE DEF c
    <2>4. QED
      BY <2>1, <2>2, <2>3, Still, AwayQuiet
  <1>2. ASSUME NEW code \in BOOLEAN, Callback(t, code) PROVE \E c \in Command : Quiet(t, c)
    <2> DEFINE codes == IF code THEN proc[t].codes + 1 ELSE proc[t].codes
               errs == IF code THEN proc[t].errs ELSE proc[t].errs + 1
               c == [proc[t] EXCEPT !.callbacks = @ + 1, !.codes = codes, !.errs = errs]
    <2>1. /\ Becomes(t, c) /\ UNCHANGED <<fleetVars, keyVars, fileVars>>
          /\ proc[t].callbacks < MaxCallbacks
      BY <1>2 DEF Callback
    <2>2. codes \in Nat /\ errs \in Nat /\ proc[t].callbacks + 1 \in 0 .. MaxCallbacks
      BY <1>0, <2>1
    <2>3. proc[t].at \in Away
      BY <1>2, AwayPlaces DEF Callback, Serving
    <2> HIDE DEF codes, errs
    <2>4. c \in Command /\ c.at = proc[t].at
      BY <1>0, <2>2 DEF Command
    <2> HIDE DEF c
    <2>5. QED
      BY <2>1, <2>3, <2>4, Still, AwayQuiet
  <1>3. CASE TakeCode(t)
    <2> DEFINE c == [proc[t] EXCEPT !.codes = @ - 1, !.at = "exchange"]
    <2>1. /\ Becomes(t, c) /\ UNCHANGED <<fleetVars, keyVars, fileVars>>
          /\ proc[t].codes - 1 \in Nat
      BY <1>0, <1>3 DEF TakeCode
    <2>2. "exchange" \in Places /\ "exchange" \in Away
      BY AwayPlaces DEF Away
    <2>3. c \in Command /\ c.at = "exchange"
      BY <1>0, <2>1, <2>2 DEF Command
    <2> HIDE DEF c
    <2>4. QED
      BY <2>1, <2>2, <2>3, Still, AwayQuiet
  <1>4. CASE TakeError(t)
    <2> DEFINE c == [proc[t] EXCEPT !.errs = @ - 1, !.at = "shutdown"]
    <2>1. /\ Becomes(t, c) /\ UNCHANGED <<fleetVars, keyVars, fileVars>>
          /\ proc[t].errs - 1 \in Nat
      BY <1>0, <1>4 DEF TakeError
    <2>2. "shutdown" \in Places /\ "shutdown" \in Away
      BY AwayPlaces DEF Away
    <2>3. c \in Command /\ c.at = "shutdown"
      BY <1>0, <2>1, <2>2 DEF Command
    <2> HIDE DEF c
    <2>4. QED
      BY <2>1, <2>2, <2>3, Still, AwayQuiet
  <1>5. CASE Exchange(t)
    <2> DEFINE c == [proc[t] EXCEPT !.tokens = Granted(granted'), !.loaded = granted,
                                    !.at = "saving", !.then = "partner"]
    <2>1. /\ Becomes(t, c) /\ UNCHANGED <<account, registry, keyVars, fileVars>>
          /\ granted' \in Grants
      BY <1>0, <1>5 DEF Exchange, Grants
    <2>2. "saving" \in Places /\ "saving" \in Away
      BY AwayPlaces DEF Away
    <2>3. Granted(granted') \in Tokens
      BY <2>1, BlankTokens
    <2>4. c \in Command /\ c.at = "saving"
      BY <1>0, <2>2, <2>3 DEF Command
    <2> HIDE DEF c
    <2>5. QED
      BY <2>1, <2>2, <2>4, Still, AwayQuiet
  <1>6. QED
    BY <1>1, <1>2, <1>3, <1>4, <1>5

(* A step that leaves the keys alone and goes on with the key it has. *)
LEMMA HeldQuiet ==
  ASSUME Typed, NEW t \in Terminals, NEW c \in Command,
         Becomes(t, c), c.at \in KeyHeld, proc[t].at \in KeyHeld, c.key = proc[t].key,
         c.at = "ready" => PollKeyState(t), UNCHANGED <<fleetVars, keyVars, fileVars>>
  PROVE  Quiet(t, c)
  BY Still DEF Quiet, keyVars, fleetVars, Typed

(* A command that polls goes on with the key it registered, or ends.         *)
LEMMA QuietPolls ==
  ASSUME Typed, NEW t \in Terminals, PollKeyState(t) \/ Enter(t)
  PROVE  \E c \in Command : Quiet(t, c)
  <1>0. proc[t] \in Command /\ proc[t].left \in Nat
    BY DEF Typed, Command
  <1>1. UNCHANGED <<fleetVars, keyVars, fileVars>> /\ proc[t].at \in KeyHeld
    BY DEF PollKeyState, Enter, At, KeyHeld
  <1>2. {"ready", "prompt", "second"} \subseteq KeyHeld /\ KeyHeld \subseteq Places
    BY DEF KeyHeld, Places, Local
  <1>3. ASSUME NEW p \in KeyHeld, NEW n \in Nat,
               p = "ready" => PollKeyState(t),
               Becomes(t, [proc[t] EXCEPT !.at = p, !.left = n])
        PROVE  \E c \in Command : Quiet(t, c)
    <2> DEFINE c == [proc[t] EXCEPT !.at = p, !.left = n]
    <2>1. p \in Places
      BY <1>2
    <2>2. c \in Command /\ c.at = p /\ c.key = proc[t].key
      BY <1>0, <2>1 DEF Command
    <2>3. Becomes(t, c)
      BY <1>3
    <2> HIDE DEF c
    <2>4. QED
      BY <1>1, <1>3, <2>2, <2>3, HeldQuiet
  <1>4. CASE PollKeyState(t)
    <2>1. \/ Verified(t)
          \/ MorePolls(t) /\ Becomes(t, [proc[t] EXCEPT !.left = @ - 1])
          \/ Becomes(t, [proc[t] EXCEPT !.at = "prompt", !.left = 0])
          \/ Returns(t)
      BY <1>4 DEF PollKeyState
    <2>2. CASE MorePolls(t) /\ Becomes(t, [proc[t] EXCEPT !.left = @ - 1])
      <3>1. proc[t].left - 1 \in Nat
        BY <1>0, <2>2 DEF MorePolls
      <3>2. [proc[t] EXCEPT !.left = @ - 1] =
              [proc[t] EXCEPT !.at = proc[t].at, !.left = proc[t].left - 1]
        BY <1>0 DEF Command
      <3>3. QED
        BY <1>1, <1>3, <1>4, <2>2, <3>1, <3>2
    <2>3. CASE Verified(t)
      BY <1>2, <1>3, <1>4, <2>3 DEF Verified
    <2>4. CASE Becomes(t, [proc[t] EXCEPT !.at = "prompt", !.left = 0])
      BY <1>2, <1>3, <1>4, <2>4
    <2>5. CASE Returns(t)
      BY <1>1, <2>5, Still, QuietReturn
    <2>6. QED
      BY <2>1, <2>2, <2>3, <2>4, <2>5
  <1>5. CASE Enter(t)
    <2>1. Polls["second"] \in Nat
      BY OnboardingAssumption
    <2>2. QED
      BY <1>2, <1>3, <1>5, <2>1 DEF Enter
  <1>6. QED
    BY <1>4, <1>5

-----------------------------------------------------------------------------
(* The steps that make, use or register a key *)

(* What the steps below keep of the types by how they go on. *)
LEMMA TypedChange ==
  ASSUME Typed, NEW t \in Terminals, NEW c \in Command, Becomes(t, c),
         UNCHANGED <<account, granted, fileVars>>,
         registry' \in [Sites -> [Keys -> {"none", "pending", "verified"}]],
         keyFile' \in [KeyPaths -> [state : FileStates, key : Keys]],
         generated' \in 0 .. MaxKeys
  PROVE  Typed'
  BY Change DEF Typed, fileVars

(* A key that is in the file is used, by a login too; a garbled one is not.  *)
(* To make one, the file must be absent, and nobody else at it.              *)
LEMMA LoadKeySafe ==
  ASSUME Typed, KeysSafe, NEW t \in Terminals, LoadKey(t)
  PROVE  Typed' /\ KeysSafe'
  <1> DEFINE path == KeyPath(t)
  <1>0. /\ proc[t] \in Command /\ path \in KeyPaths /\ keyFile[path].key \in Keys
        /\ keyFile[path].state \in FileStates
    BY DEF Typed, KeyPath, KeyPaths
  <1>1. /\ UNCHANGED <<fleetVars, keyFile, generated, fileVars>>
        /\ collided => collided'
    BY DEF LoadKey
  <1>2. /\ UNCHANGED <<account, granted, registry, generated, keyFile, file>>
        /\ keyFile' \in [KeyPaths -> [state : FileStates, key : Keys]]
        /\ file' \in [state : FileStates, tokens : Tokens] /\ granted' \in Grants
    BY <1>1 DEF fleetVars, fileVars, Typed
  <1>3. CASE keyFile[path].state = "absent"
    <2> DEFINE c == [proc[t] EXCEPT !.at = "generate"]
    <2>1. Becomes(t, c)
      BY <1>3 DEF LoadKey, Goes, Garbled
    <2>2. "generate" \in Places
      BY DEF Places, Local
    <2>3. /\ c \in Command /\ c.at = "generate" /\ c.cmd = proc[t].cmd
      BY <1>0, <2>2, CommandGoes
    <2> HIDE DEF c
    <2>4. CASE proc[t].cmd = "auth"
      <3>1. Quiet(t, c)
        BY <1>1, <1>2, <2>1, <2>3, <2>4 DEF Quiet, Making
      <3>2. QED
        BY <2>3, <3>1, QuietKeeps
    <2>5. CASE proc[t].cmd # "auth"
      <3>1. path = "rsa"
        BY <2>5 DEF KeyPath
      <3>2. Typed'
        BY <1>2, <1>1, <2>1, <2>3, TypedChange DEF Typed
      <3>3. /\ proc'[t] = c /\ \A u \in Terminals \ {t} : proc'[u] = proc[u]
        BY <2>1, <2>3, Change
      <3>4. ASSUME ~collided' PROVE RegisteredKeyKept' /\ HeldKeysInFile' /\ OneMaker'
        <4>1. /\ ~collided
              /\ \A u \in Terminals \ {t} : ~Generating(u, "rsa")
          BY <1>3, <3>1, <3>4 DEF LoadKey
        <4>2. RegisteredKeyKept /\ HeldKeysInFile
          BY <4>1 DEF KeysSafe
        <4>3. RegisteredKeyKept'
          BY <1>2, <4>1, <4>2 DEF RegisteredKeyKept
        <4>4. HeldKeysInFile'
          BY <1>2, <2>3, <3>3, <4>2 DEF HeldKeysInFile, KeyHeld
        <4>5. \A u \in Terminals : Generating(u, "rsa")' => u = t
          BY <3>3, <4>1 DEF Generating, KeyPath
        <4>6. keyFile'["rsa"].state = "absent" /\ proc'[t].at = "generate"
          BY <1>2, <1>3, <2>3, <3>1, <3>3
        <4>7. QED
          BY <4>3, <4>4, <4>5, <4>6 DEF OneMaker, At
      <3>5. QED
        BY <3>2, <3>4 DEF KeysSafe
    <2>6. QED
      BY <2>4, <2>5
  <1>4. CASE keyFile[path].state = Garbled
    <2>1. Returns(t)
      BY <1>4 DEF LoadKey, Garbled
    <2>2. PICK c \in Command : Becomes(t, c) /\ c.at \in Away
      BY <2>1, ReturnsTyped
    <2>3. Quiet(t, c)
      BY <1>1, <1>2, <2>2 DEF Quiet, Away, KeyHeld
    <2>4. QED
      BY <2>3, QuietKeeps
  <1>5. CASE keyFile[path].state = "written" /\ proc[t].cmd = "auth"
    <2>1. Becomes(t, Login(t, "tunnel"))
      BY <1>5 DEF LoadKey, WithKey, Garbled
    <2>2. "tunnel" \in Away /\ "tunnel" \in Places
      BY AwayPlaces DEF Away
    <2>3. Login(t, "tunnel") \in Command /\ Login(t, "tunnel").at = "tunnel"
      BY <2>2, LoginTyped
    <2>4. Quiet(t, Login(t, "tunnel"))
      BY <1>1, <1>2, <2>1, <2>2, <2>3 DEF Quiet, Away
    <2>5. QED
      BY <2>3, <2>4, QuietKeeps
  <1>6. CASE keyFile[path].state = "written" /\ proc[t].cmd # "auth"
    <2> DEFINE c == [proc[t] EXCEPT !.at = "register", !.key = keyFile["rsa"].key]
    <2>1. path = "rsa"
      BY <1>6 DEF KeyPath
    <2>2. Becomes(t, [proc[t] EXCEPT !.key = keyFile["rsa"].key, !.at = "register"])
      BY <1>6, <2>1 DEF LoadKey, WithKey, Garbled
    <2>3. Becomes(t, c)
      BY <1>0, <2>2 DEF Command
    <2>4. "register" \in Places /\ keyFile["rsa"].key \in Keys
      BY <1>0, <2>1 DEF Places, Local
    <2>5. c \in Command /\ c.at = "register" /\ c.key = keyFile["rsa"].key
      <3> HIDE DEF path
      <3>1. QED
        BY <1>0, <2>4 DEF Command
    <2> HIDE DEF c
    <2>6. Typed'
      BY <1>2, <1>1, <2>3, <2>5, TypedChange DEF Typed
    <2>7. /\ proc'[t] = c /\ \A u \in Terminals \ {t} : proc'[u] = proc[u]
      BY <2>3, <2>5, Change
    <2>8. ASSUME ~collided' PROVE RegisteredKeyKept' /\ HeldKeysInFile' /\ OneMaker'
      <3>1. ~collided /\ RegisteredKeyKept /\ HeldKeysInFile /\ OneMaker
        BY <1>1, <2>8 DEF KeysSafe
      <3>2. RegisteredKeyKept'
        BY <1>2, <3>1 DEF RegisteredKeyKept
      <3>3. keyFile["rsa"] = [state |-> "written", key |-> keyFile["rsa"].key]
        BY <1>6, <2>1 DEF Typed, KeyPaths
      <3>4. HeldKeysInFile'
        BY <1>2, <2>5, <2>7, <3>1, <3>3 DEF HeldKeysInFile
      <3>5. \A u \in Terminals : Generating(u, "rsa")' => u # t /\ Generating(u, "rsa")
        BY <2>5, <2>7 DEF Generating, KeyPath
      <3>6. OneMaker'
        BY <1>2, <2>7, <3>1, <3>5 DEF OneMaker, At
      <3>7. QED
        BY <3>2, <3>4, <3>6
    <2>9. QED
      BY <2>6, <2>8 DEF KeysSafe
  <1>7. QED
    BY <1>0, <1>3, <1>4, <1>5, <1>6 DEF FileStates

(* The file a key is made for holds none yet: no key can be registered then, *)
(* and none is relied on.                                                    *)
LEMMA NoKeyYet ==
  ASSUME ~collided, RegisteredKeyKept, HeldKeysInFile, keyFile["rsa"].state # "written"
  PROVE  /\ \A s \in Sites, k \in Keys \ {Foreign} : registry[s][k] = "none"
         /\ \A u \in Terminals : proc[u].at \notin KeyHeld
  <1>1. ASSUME NEW k PROVE keyFile["rsa"] # [state |-> "written", key |-> k]
    OBVIOUS
  <1>2. QED
    BY <1>1 DEF RegisteredKeyKept, HeldKeysInFile

(* Making the key: generated, and its file created.                          *)
LEMMA CreateKeySafe ==
  ASSUME Typed, KeysSafe, NEW t \in Terminals, CreateKey(t)
  PROVE  Typed' /\ KeysSafe'
  <1>0. /\ proc[t] \in Command /\ proc[t].at = "generate" /\ "keywriting" \in Places
        /\ keyFile \in [KeyPaths -> [state : FileStates, key : Keys]]
        /\ KeyPath(t) \in KeyPaths /\ Garbled \in FileStates
        /\ granted' \in Grants /\ file' \in [state : FileStates, tokens : Tokens]
    BY DEF Typed, CreateKey, At, Places, Local, KeyPath, KeyPaths, FileStates, fleetVars,
           fileVars
  <1>1. /\ keyFile' \in [KeyPaths -> [state : FileStates, key : Keys]]
        /\ keyFile'[KeyPath(t)].state = Garbled
        /\ \A q \in KeyPaths \ {KeyPath(t)} : keyFile'[q] = keyFile[q]
    BY <1>0 DEF CreateKey
  <1>2. UNCHANGED <<account, granted, registry, file, lost, collided>>
    BY DEF CreateKey, fleetVars, fileVars
  <1>3. CASE proc[t].cmd = "auth"
    <2> DEFINE c == [proc[t] EXCEPT !.at = "keywriting"]
    <2>1. Becomes(t, c) /\ UNCHANGED generated /\ KeyPath(t) = "ec"
      BY <1>3 DEF CreateKey, Goes, KeyPath
    <2>2. c \in Command /\ c.at = "keywriting" /\ c.cmd = "auth"
      BY <1>0, <1>3, CommandGoes
    <2> HIDE DEF c
    <2>3. keyFile'["rsa"] = keyFile["rsa"]
      BY <1>1, <2>1 DEF KeyPaths
    <2>4. Quiet(t, c)
      BY <1>0, <1>1, <1>2, <2>1, <2>2, <2>3 DEF Quiet, Making
    <2>5. QED
      BY <2>2, <2>4, QuietKeeps
  <1>4. CASE proc[t].cmd # "auth"
    <2> DEFINE c == [proc[t] EXCEPT !.at = "keywriting", !.key = generated']
    <2>1. /\ Becomes(t, c) /\ KeyPath(t) = "rsa"
          /\ generated < MaxKeys /\ generated' = generated + 1
      BY <1>4 DEF CreateKey, KeyPath
    <2>2. generated' \in 0 .. MaxKeys /\ generated' \in Keys
      BY <2>1, Bounds DEF Typed, Keys
    <2>3. c \in Command /\ c.at = "keywriting"
      BY <1>0, <2>2 DEF Command
    <2> HIDE DEF c
    <2>4. Typed'
      BY <1>1, <1>2, <2>1, <2>2, <2>3, TypedChange DEF Typed, fileVars
    <2>5. /\ proc'[t] = c /\ \A u \in Terminals \ {t} : proc'[u] = proc[u]
      BY <2>1, <2>3, Change
    <2>6. ASSUME ~collided PROVE RegisteredKeyKept' /\ HeldKeysInFile' /\ OneMaker'
      <3>1. RegisteredKeyKept /\ HeldKeysInFile /\ OneMaker
        BY <2>6 DEF KeysSafe
      <3>2. Generating(t, "rsa")
        BY <1>0, <2>1 DEF Generating
      <3>3. keyFile["rsa"].state = "absent"
        BY <1>0, <3>1, <3>2 DEF OneMaker, At
      <3>4. /\ \A s \in Sites, k \in Keys \ {Foreign} : registry'[s][k] = "none"
            /\ \A u \in Terminals : proc'[u].at \notin KeyHeld
        BY <1>2, <2>3, <2>5, <2>6, <3>1, <3>3, NoKeyYet DEF KeyHeld
      <3>5. \A u \in Terminals \ {t} : ~Generating(u, "rsa")'
        BY <2>5, <3>1, <3>2 DEF OneMaker, Generating, KeyPath
      <3>6. OneMaker'
        BY <1>1, <2>1, <2>3, <2>5, <3>5 DEF OneMaker, At
      <3>7. QED
        BY <3>4, <3>6 DEF RegisteredKeyKept, HeldKeysInFile
    <2>7. QED
      BY <1>2, <2>4, <2>6 DEF KeysSafe
  <1>5. QED
    BY <1>3, <1>4

(* Once it is written, the command that made it relies on it. *)
LEMMA WriteKeySafe ==
  ASSUME Typed, KeysSafe, NEW t \in Terminals, WriteKey(t)
  PROVE  Typed' /\ KeysSafe'
  <1> DEFINE f == [state |-> "written", key |-> proc[t].key]
  <1>0. /\ proc[t] \in Command /\ proc[t].at = "keywriting" /\ "register" \in Places
        /\ keyFile \in [KeyPaths -> [state : FileStates, key : Keys]]
        /\ KeyPath(t) \in KeyPaths /\ f \in [state : FileStates, key : Keys]
        /\ granted' \in Grants /\ file' \in [state : FileStates, tokens : Tokens]
    BY DEF Typed, Command, WriteKey, At, Places, Local, KeyPath, KeyPaths, FileStates,
           fleetVars, fileVars
  <1>1. /\ keyFile' \in [KeyPaths -> [state : FileStates, key : Keys]]
        /\ keyFile'[KeyPath(t)] = f
        /\ \A q \in KeyPaths \ {KeyPath(t)} : keyFile'[q] = keyFile[q]
    BY <1>0 DEF WriteKey
  <1>2. UNCHANGED <<account, granted, registry, file, lost, collided, generated>>
    BY DEF WriteKey, fleetVars, fileVars
  <1>3. CASE proc[t].cmd = "auth"
    <2>1. Becomes(t, Login(t, "tunnel")) /\ KeyPath(t) = "ec"
      BY <1>3 DEF WriteKey, WithKey, KeyPath
    <2>2. "tunnel" \in Places /\ "tunnel" \in Away
      BY AwayPlaces DEF Away
    <2>3. Login(t, "tunnel") \in Command /\ Login(t, "tunnel").at = "tunnel"
      BY <2>2, LoginTyped
    <2>4. keyFile'["rsa"] = keyFile["rsa"]
      BY <1>1, <2>1 DEF KeyPaths
    <2>5. Quiet(t, Login(t, "tunnel"))
      BY <1>0, <1>1, <1>2, <2>1, <2>2, <2>3, <2>4 DEF Quiet, Away
    <2>6. QED
      BY <2>3, <2>5, QuietKeeps
  <1>4. CASE proc[t].cmd # "auth"
    <2> DEFINE c == [proc[t] EXCEPT !.key = proc[t].key, !.at = "register"]
    <2>1. Becomes(t, c) /\ KeyPath(t) = "rsa"
      BY <1>4 DEF WriteKey, WithKey, KeyPath
    <2>2. c \in Command /\ c.at = "register" /\ c.key = proc[t].key
      BY <1>0 DEF Command
    <2> HIDE DEF c
    <2>3. Typed'
      BY <1>1, <1>2, <2>1, <2>2, TypedChange DEF Typed, fileVars
    <2>4. /\ proc'[t] = c /\ \A u \in Terminals \ {t} : proc'[u] = proc[u]
      BY <2>1, <2>2, Change
    <2>5. ASSUME ~collided PROVE RegisteredKeyKept' /\ HeldKeysInFile' /\ OneMaker'
      <3>1. RegisteredKeyKept /\ HeldKeysInFile /\ OneMaker
        BY <2>5 DEF KeysSafe
      <3>2. Generating(t, "rsa")
        BY <1>0, <2>1 DEF Generating
      <3>3. keyFile["rsa"].state = Garbled
        BY <1>0, <3>1, <3>2 DEF OneMaker, At
      <3>4. /\ \A s \in Sites, k \in Keys \ {Foreign} : registry[s][k] = "none"
            /\ \A u \in Terminals : proc[u].at \notin KeyHeld
        BY <2>5, <3>1, <3>3, NoKeyYet DEF Garbled
      <3>5. RegisteredKeyKept'
        BY <1>2, <3>4 DEF RegisteredKeyKept
      <3>6. HeldKeysInFile'
        BY <1>1, <2>1, <2>2, <2>4, <3>4 DEF HeldKeysInFile
      <3>7. \A u \in Terminals : ~Generating(u, "rsa")'
        BY <2>2, <2>4, <3>1, <3>2 DEF OneMaker, Generating, KeyPath
      <3>8. QED
        BY <3>5, <3>6, <3>7 DEF OneMaker
    <2>6. QED
      BY <1>2, <2>3, <2>5 DEF KeysSafe
  <1>5. QED
    BY <1>3, <1>4

(* The key registered is the one in the file, whatever becomes of the answer.*)
LEMMA RegisterSafe ==
  ASSUME Typed, KeysSafe, NEW t \in Terminals, Register(t) \/ RegisterLost(t)
  PROVE  Typed' /\ KeysSafe'
  <1> DEFINE site == proc[t].site
             key == proc[t].key
             States == {"none", "pending", "verified"}
  <1>0. /\ proc[t] \in Command /\ key \in Keys /\ account \subseteq Sites
        /\ registry \in [Sites -> [Keys -> States]]
        /\ proc[t].at = "register" /\ "register" \in KeyHeld
        /\ {"ready", "first"} \subseteq Places \cap KeyHeld /\ Polls["first"] \in Nat
    BY OnboardingAssumption
    DEF Typed, Command, Register, RegisterLost, At, KeyHeld, Places, Local, Sites
  <1>1. /\ UNCHANGED <<account, granted, keyVars, fileVars>>
    BY DEF Register, RegisterLost
  <1>2. /\ registry' \in [Sites -> [Keys -> States]]
        /\ \A s \in Sites, k \in Keys : registry'[s][k] # registry[s][k] => k = key
    <2>1. \/ UNCHANGED registry
          \/ /\ site \in account
             /\ \E state \in States : registry' = [registry EXCEPT ![site][key] = state]
      <3>1. CASE Register(t)
        <4>1. CASE site \notin account
          BY <3>1, <4>1 DEF Register
        <4>2. CASE site \in account
          <5>1. KeyState(site, key) \subseteq States
            BY <1>0, <4>2 DEF KeyState
          <5>2. QED
            BY <3>1, <4>2, <5>1 DEF Register
        <4>3. QED
          BY <4>1, <4>2
      <3>2. CASE RegisterLost(t)
        BY <3>2 DEF RegisterLost
      <3>3. QED
        BY <3>1, <3>2
    <2>2. QED
      BY <1>0, <2>1
  <1>3. \E c \in Command : /\ Becomes(t, c)
                           /\ \/ c.at \in Away
                              \/ c.at \in KeyHeld /\ c.key = key
    <2>1. \/ Returns(t) \/ Verified(t)
          \/ Becomes(t, [proc[t] EXCEPT !.at = "first", !.left = Polls["first"]])
      BY DEF Register, RegisterLost
    <2>2. CASE Returns(t)
      BY <2>2, ReturnsTyped
    <2>3. ASSUME NEW p \in Places \cap KeyHeld, NEW n \in Nat
          PROVE  LET c == [proc[t] EXCEPT !.at = p, !.left = n]
                 IN  c \in Command /\ c.at \in KeyHeld /\ c.key = key
      BY <1>0 DEF Command
    <2>4. CASE Verified(t)
      BY <1>0, <2>3, <2>4 DEF Verified
    <2>5. CASE Becomes(t, [proc[t] EXCEPT !.at = "first", !.left = Polls["first"]])
      BY <1>0, <2>3, <2>5
    <2>6. QED
      BY <2>1, <2>2, <2>4, <2>5
  <1>4. PICK c \in Command : /\ Becomes(t, c)
                             /\ \/ c.at \in Away
                                \/ c.at \in KeyHeld /\ c.key = key
    BY <1>3
  <1>5. /\ proc'[t] = c /\ \A u \in Terminals \ {t} : proc'[u] = proc[u]
    BY <1>4, Change
  <1>6. Typed'
    BY <1>1, <1>2, <1>4, TypedChange DEF Typed, keyVars
  <1>7. ASSUME ~collided PROVE RegisteredKeyKept' /\ HeldKeysInFile' /\ OneMaker'
    <2>1. RegisteredKeyKept /\ HeldKeysInFile /\ OneMaker /\ UNCHANGED <<keyFile, collided>>
      BY <1>1, <1>7 DEF KeysSafe, keyVars
    <2>2. keyFile["rsa"] = [state |-> "written", key |-> key]
      BY <1>0, <2>1 DEF HeldKeysInFile
    <2>3. RegisteredKeyKept'
      BY <1>2, <1>7, <2>1, <2>2 DEF RegisteredKeyKept
    <2>4. HeldKeysInFile'
      BY <1>4, <1>5, <2>1, <2>2 DEF HeldKeysInFile, Away
    <2>5. c.at \notin Making
      BY <1>4 DEF Away, KeyHeld, Making
    <2>6. \A u \in Terminals : Generating(u, "rsa")' => u # t /\ Generating(u, "rsa")
      BY <1>5, <2>5 DEF Generating, KeyPath, Making
    <2>7. OneMaker'
      BY <1>5, <2>1, <2>6 DEF OneMaker, At
    <2>8. QED
      BY <2>3, <2>4, <2>7
  <1>8. QED
    BY <1>1, <1>6, <1>7 DEF KeysSafe, keyVars

(* A key that is removed is registered no more. *)
LEMMA RemoveSafe ==
  ASSUME Typed, KeysSafe, NEW t \in Terminals, NEW k \in Keys, Remove(t, k)
  PROVE  Typed' /\ KeysSafe'
  <1>0. registry \in [Sites -> [Keys -> {"none", "pending", "verified"}]]
    BY DEF Typed
  <1>1. PICK c \in Command : Becomes(t, c) /\ c.at \in Away
    BY ReturnsTyped DEF Remove
  <1>2. UNCHANGED <<account, granted, keyVars, fileVars>>
    BY DEF Remove
  <1>3. \/ UNCHANGED registry
        \/ registry' = [registry EXCEPT ![proc[t].site][k] = "none"]
    BY DEF Remove
  <1>4. /\ registry' \in [Sites -> [Keys -> {"none", "pending", "verified"}]]
        /\ \A s \in Sites, q \in Keys : registry'[s][q] # "none" => registry[s][q] # "none"
    BY <1>0, <1>3
  <1>5. /\ proc'[t] = c /\ \A u \in Terminals \ {t} : proc'[u] = proc[u]
    BY <1>1, Change
  <1>6. Typed'
    BY <1>1, <1>2, <1>4, TypedChange DEF Typed, keyVars
  <1>7. ASSUME ~collided PROVE RegisteredKeyKept' /\ HeldKeysInFile' /\ OneMaker'
    <2>1. RegisteredKeyKept /\ HeldKeysInFile /\ OneMaker /\ UNCHANGED <<keyFile, collided>>
      BY <1>2, <1>7 DEF KeysSafe, keyVars
    <2>2. RegisteredKeyKept'
      BY <1>4, <1>7, <2>1 DEF RegisteredKeyKept
    <2>3. HeldKeysInFile'
      BY <1>1, <1>5, <2>1 DEF HeldKeysInFile, Away
    <2>4. c.at \notin Making
      BY <1>1 DEF Away
    <2>5. \A u \in Terminals : Generating(u, "rsa")' => u # t /\ Generating(u, "rsa")
      BY <1>5, <2>4 DEF Generating, KeyPath, Making
    <2>6. OneMaker'
      BY <1>5, <2>1, <2>5 DEF OneMaker, At
    <2>7. QED
      BY <2>2, <2>3, <2>6
  <1>8. QED
    BY <1>2, <1>6, <1>7 DEF KeysSafe, keyVars

(* A key that is verified was registered. *)
LEMMA VerifySafe ==
  ASSUME Typed, KeysSafe, NEW s \in Sites, NEW k \in Keys, Verify(s, k)
  PROVE  Typed' /\ KeysSafe'
  <1>1. /\ registry' \in [Sites -> [Keys -> {"none", "pending", "verified"}]]
        /\ \A u \in Sites, q \in Keys : registry'[u][q] # "none" => registry[u][q] # "none"
    BY DEF Typed, Verify
  <1>2. UNCHANGED <<account, granted, keyFile, generated, collided, file, proc>>
    BY DEF Verify, keyVars, fileVars
  <1>3. Typed'
    BY <1>1, <1>2 DEF Typed
  <1>4. RegisteredKeyKept => RegisteredKeyKept'
    BY <1>1, <1>2 DEF RegisteredKeyKept
  <1>5. (HeldKeysInFile => HeldKeysInFile') /\ (OneMaker => OneMaker')
    BY <1>2 DEF HeldKeysInFile, OneMaker, Generating, KeyPath, At
  <1>6. QED
    BY <1>2, <1>3, <1>4, <1>5 DEF KeysSafe

(* An idle step keeps everything. *)
LEMMA IdleSafe ==
  ASSUME Typed, KeysSafe, UNCHANGED vars
  PROVE  Typed' /\ KeysSafe'
  BY DEF Typed, KeysSafe, RegisteredKeyKept, HeldKeysInFile, OneMaker, Generating, KeyPath,
         At, vars, fleetVars, keyVars, fileVars

-----------------------------------------------------------------------------
(* The theorems *)

(* Every step keeps the invariant. *)
LEMMA StepSafe ==
  ASSUME Typed, KeysSafe, [Next]_vars
  PROVE  Typed' /\ KeysSafe'
  <1>1. CASE UNCHANGED vars
    BY <1>1, IdleSafe
  <1>2. ASSUME NEW s \in Sites, NEW k \in Keys, Verify(s, k) PROVE Typed' /\ KeysSafe'
    BY <1>2, VerifySafe
  <1>3. ASSUME NEW t \in Terminals,
               \/ \E flag \in {"none", "force", "refresh"} : StartAuth(t, flag)
               \/ \E cmd \in KeyCommands, region \in Regions \cup {NoRegion},
                     site \in Sites \cup {None} : StartKeys(t, cmd, region, site)
               \/ Step(t) \/ Enter(t) \/ TunnelUp(t) \/ TunnelFails(t)
               \/ (\E code \in BOOLEAN : Callback(t, code)) \/ Kill(t)
        PROVE  Typed' /\ KeysSafe'
    <2>1. ASSUME \E c \in Command : Quiet(t, c) PROVE Typed' /\ KeysSafe'
      BY <2>1, QuietKeeps
    <2>2. CASE \/ \E flag \in {"none", "force", "refresh"} : StartAuth(t, flag)
               \/ \E cmd \in KeyCommands, region \in Regions \cup {NoRegion},
                     site \in Sites \cup {None} : StartKeys(t, cmd, region, site)
      BY <2>1, <2>2, QuietStart
    <2>3. CASE \/ TunnelUp(t) \/ (\E code \in BOOLEAN : Callback(t, code))
               \/ TakeCode(t) \/ TakeError(t) \/ Exchange(t)
      BY <2>1, <2>3, QuietLogin
    <2>4. CASE PollKeyState(t) \/ Enter(t)
      BY <2>1, <2>4, QuietPolls
    <2>5. CASE \/ List(t) \/ CreateKeyFails(t) \/ Announce(t) \/ TunnelFails(t)
               \/ TimeOut(t) \/ ExchangeFails(t) \/ RegisterPartner(t) \/ Shutdown(t)
               \/ Kill(t)
      BY <2>1, <2>5, QuietEnd
    <2>6. CASE \/ Refresh(t) \/ RefreshRefused(t) \/ RefreshLost(t)
               \/ Truncate(t) \/ Write(t) \/ SaveFails(t)
      BY <2>1, <2>6, QuietTokens
    <2>7. CASE ResolveKnown(t) \/ ResolveUnknown(t) \/ ResolveFails(t)
      BY <2>1, <2>7, QuietResolve
    <2>8. CASE LoadKey(t) \/ CreateKey(t) \/ WriteKey(t)
      BY <2>8, LoadKeySafe, CreateKeySafe, WriteKeySafe
    <2>9. CASE Register(t) \/ RegisterLost(t) \/ \E k \in Keys : Remove(t, k)
      BY <2>9, RegisterSafe, RemoveSafe
    <2>10. QED
      BY <1>3, <2>2, <2>3, <2>4, <2>5, <2>6, <2>7, <2>8, <2>9 DEF Step
  <1>4. QED
    BY <1>1, <1>2, <1>3 DEF Next

(* No command runs, and no key but another installation's is registered. *)
LEMMA StartSafe == Init => Typed /\ KeysSafe
  <1> SUFFICES ASSUME Init PROVE Typed /\ KeysSafe
    OBVIOUS
  <1>1. proc \in [Terminals -> Command] /\ \A t \in Terminals : proc[t].at = "idle"
    BY BlankCommand DEF Init
  <1>2. granted \in Grants
    BY OnboardingAssumption DEF Init, Grants
  <1>3. Granted(granted) \in Tokens
    BY <1>2, BlankTokens
  <1>4. file \in [state : FileStates, tokens : Tokens]
    BY <1>3 DEF Init, FileStates
  <1>5. keyFile \in [KeyPaths -> [state : FileStates, key : Keys]]
    BY Bounds DEF Init, FileStates, Foreign
  <1>6. registry \in [Sites -> [Keys -> {"none", "pending", "verified"}]]
    BY DEF Init
  <1>7. account \in Accounts /\ generated \in 0 .. MaxKeys
    BY Bounds DEF Init
  <1>8. \A s \in Sites, k \in Keys \ {Foreign} : registry[s][k] = "none"
    BY DEF Init
  <1>9. Typed
    BY <1>1, <1>2, <1>4, <1>5, <1>6, <1>7 DEF Typed
  <1>10. RegisteredKeyKept /\ HeldKeysInFile /\ OneMaker
    BY <1>1, <1>8 DEF RegisteredKeyKept, HeldKeysInFile, OneMaker, Generating, KeyHeld
  <1>11. QED
    BY <1>9, <1>10 DEF KeysSafe

(* No key is registered whose private half is lost.                          *)
THEOREM KeysKept == Spec => []RegisteredKeyKept
  <1>1. Typed /\ KeysSafe /\ [Next]_vars => (Typed /\ KeysSafe)'
    BY StepSafe
  <1>2. Typed /\ KeysSafe => RegisteredKeyKept
    BY DEF KeysSafe, RegisteredKeyKept
  <1>3. QED
    BY <1>1, <1>2, StartSafe, PTL DEF Spec

(* A command only comes to announce its key from an answer about that key.   *)
LEMMA OnlyAnswers ==
  ASSUME Typed, [Next]_vars, NEW u \in Terminals, ~At(u, "ready"), proc'[u].at = "ready"
  PROVE  Register(u) \/ PollKeyState(u)
  <1>1. ASSUME NEW t \in Terminals, NEW c \in Command, Quiet(t, c) PROVE PollKeyState(u)
    <2>1. Becomes(t, c) /\ (c.at = "ready" => PollKeyState(t))
      BY <1>1 DEF Quiet
    <2>2. QED
      BY <2>1, Change DEF At
  <1>2. ASSUME NEW t \in Terminals, NEW c, Becomes(t, c), c.at # "ready" PROVE FALSE
    BY <1>2 DEF Typed, Becomes, At
  <1>3. proc' # proc
    BY DEF At
  <1>4. ASSUME NEW t \in Terminals,
               LoadKey(t) \/ CreateKey(t) \/ WriteKey(t) \/ RegisterLost(t)
                 \/ \E k \in Keys : Remove(t, k)
        PROVE  FALSE
    <2>1. proc[t] \in Command /\ "ready" \notin Away
      BY DEF Typed, Away, KeyHeld
    <2>2. CASE Returns(t)
      BY <1>2, <2>1, <2>2, ReturnsTyped
    <2>3. CASE Goes(t, "generate") \/ Goes(t, "keywriting")
      BY <1>2, <2>1, <2>3 DEF Goes, Command
    <2>4. ASSUME NEW k, Becomes(t, WithKey(t, k)) PROVE FALSE
      <3>1. CASE Becomes(t, Login(t, "tunnel"))
        <4>1. "tunnel" \in Places
          BY DEF Places
        <4>2. QED
          BY <1>2, <3>1, <4>1, LoginTyped
      <3>2. CASE Becomes(t, [proc[t] EXCEPT !.key = k, !.at = "register"])
        BY <1>2, <2>1, <3>2 DEF Command
      <3>3. QED
        BY <2>4, <3>1, <3>2 DEF WithKey
    <2>5. ASSUME NEW k, Becomes(t, [proc[t] EXCEPT !.at = "keywriting", !.key = k])
          PROVE  FALSE
      BY <1>2, <2>1, <2>5 DEF Command
    <2>6. CASE LoadKey(t)
      <3>1. \/ Goes(t, "generate") \/ Returns(t)
            \/ Becomes(t, WithKey(t, keyFile[KeyPath(t)].key))
        <4>1. keyFile[KeyPath(t)].state \in FileStates
          BY DEF Typed, KeyPath, KeyPaths
        <4>2. QED
          BY <2>6, <4>1 DEF LoadKey, FileStates, Garbled
      <3>2. QED
        BY <2>2, <2>3, <2>4, <3>1
    <2>7. CASE CreateKey(t)
      BY <2>3, <2>5, <2>7 DEF CreateKey
    <2>8. CASE WriteKey(t)
      BY <2>4, <2>8 DEF WriteKey
    <2>9. CASE RegisterLost(t) \/ \E k \in Keys : Remove(t, k)
      BY <2>2, <2>9 DEF RegisterLost, Remove
    <2>10. QED
      BY <1>4, <2>6, <2>7, <2>8, <2>9
  <1>5. ASSUME NEW t \in Terminals, Register(t) PROVE Register(u)
    <2>1. CASE t = u
      BY <1>5, <2>1
    <2>2. CASE t # u
      <3>1. ASSUME NEW c, Becomes(t, c) PROVE FALSE
        BY <2>2, <3>1 DEF Becomes, Typed, At
      <3>2. QED
        BY <1>5, <3>1 DEF Register, Returns, Verified
    <2>3. QED
      BY <2>1, <2>2
  <1>6. ASSUME NEW s \in Sites, NEW k \in Keys, Verify(s, k) PROVE FALSE
    BY <1>3, <1>6 DEF Verify
  <1>7. ASSUME NEW t \in Terminals, \E c \in Command : Quiet(t, c) PROVE PollKeyState(u)
    BY <1>1, <1>7
  <1>8. ASSUME NEW t \in Terminals,
               \/ \E flag \in {"none", "force", "refresh"} : StartAuth(t, flag)
               \/ \E cmd \in KeyCommands, region \in Regions \cup {NoRegion},
                     site \in Sites \cup {None} : StartKeys(t, cmd, region, site)
               \/ Step(t) \/ Enter(t) \/ TunnelUp(t) \/ TunnelFails(t)
               \/ (\E code \in BOOLEAN : Callback(t, code)) \/ Kill(t)
        PROVE  Register(u) \/ PollKeyState(u)
    <2>2. CASE \/ \E flag \in {"none", "force", "refresh"} : StartAuth(t, flag)
               \/ \E cmd \in KeyCommands, region \in Regions \cup {NoRegion},
                     site \in Sites \cup {None} : StartKeys(t, cmd, region, site)
      BY <1>7, <2>2, QuietStart
    <2>3. CASE \/ TunnelUp(t) \/ (\E code \in BOOLEAN : Callback(t, code))
               \/ TakeCode(t) \/ TakeError(t) \/ Exchange(t)
      BY <1>7, <2>3, QuietLogin
    <2>4. CASE PollKeyState(t) \/ Enter(t)
      BY <1>7, <2>4, QuietPolls
    <2>5. CASE \/ List(t) \/ CreateKeyFails(t) \/ Announce(t) \/ TunnelFails(t)
               \/ TimeOut(t) \/ ExchangeFails(t) \/ RegisterPartner(t) \/ Shutdown(t)
               \/ Kill(t)
      BY <1>7, <2>5, QuietEnd
    <2>6. CASE \/ Refresh(t) \/ RefreshRefused(t) \/ RefreshLost(t)
               \/ Truncate(t) \/ Write(t) \/ SaveFails(t)
      BY <1>7, <2>6, QuietTokens
    <2>7. CASE ResolveKnown(t) \/ ResolveUnknown(t) \/ ResolveFails(t)
      BY <1>7, <2>7, QuietResolve
    <2>8. CASE LoadKey(t) \/ CreateKey(t) \/ WriteKey(t) \/ RegisterLost(t)
                 \/ \E k \in Keys : Remove(t, k)
      BY <1>4, <2>8
    <2>9. CASE Register(t)
      BY <1>5, <2>9
    <2>10. QED
      BY <1>8, <2>2, <2>3, <2>4, <2>5, <2>6, <2>7, <2>8, <2>9 DEF Step
  <1>9. QED
    BY <1>3, <1>6, <1>8 DEF Next, vars

(* And that answer is that it is verified.                                   *)
LEMMA AnswerVerified ==
  ASSUME Typed, NEW t \in Terminals, Register(t) \/ PollKeyState(t),
         ~At(t, "ready"), proc'[t].at = "ready"
  PROVE  /\ registry'[proc[t].site][proc[t].key] = "verified"
         /\ UNCHANGED <<keyFile, collided>>
         /\ proc'[t].key = proc[t].key
  <1>0. proc[t] \in Command
    BY DEF Typed
  <1>1. ASSUME NEW c, Becomes(t, c) PROVE proc'[t] = c
    BY <1>1 DEF Becomes, Typed
  <1>2. ~Returns(t)
    BY <1>1, ReturnsTyped DEF Away, KeyHeld
  <1>3. Verified(t) => proc'[t].key = proc[t].key
    BY <1>0, <1>1 DEF Verified, Command
  <1>4. ASSUME NEW p, NEW n, Becomes(t, [proc[t] EXCEPT !.at = p, !.left = n])
        PROVE  p = "ready"
    BY <1>0, <1>1, <1>4 DEF Command
  <1>5. ~Becomes(t, [proc[t] EXCEPT !.left = @ - 1])
    BY <1>0, <1>1 DEF Command, At
  <1>6. CASE Register(t)
    <2>1. PICK state \in KeyState(proc[t].site, proc[t].key) :
            /\ registry' = [registry EXCEPT ![proc[t].site][proc[t].key] = state]
            /\ IF state = "verified" THEN Verified(t)
               ELSE Becomes(t, [proc[t] EXCEPT !.at = "first", !.left = Polls["first"]])
            /\ proc[t].site \in account
      BY <1>2, <1>6 DEF Register
    <2>2. state = "verified" /\ Verified(t)
      BY <1>4, <2>1
    <2>3. proc[t].site \in Sites /\ proc[t].key \in Keys
      BY <1>0, <2>1 DEF Typed, Sites, Command
    <2>4. QED
      BY <1>3, <1>6, <2>1, <2>2, <2>3 DEF Register, keyVars, Typed
  <1>7. CASE PollKeyState(t)
    <2>1. PICK state \in {GetClientStateByKey(t), "none"} :
            CASE state = "verified" -> Verified(t)
              [] state # "verified" /\ MorePolls(t) ->
                   Becomes(t, [proc[t] EXCEPT !.left = @ - 1])
              [] state # "verified" /\ ~MorePolls(t) /\ At(t, "first") ->
                   Becomes(t, [proc[t] EXCEPT !.at = "prompt", !.left = 0])
              [] OTHER -> Returns(t)
      BY <1>7 DEF PollKeyState
    <2>2. state = "verified" /\ Verified(t)
      BY <1>2, <1>4, <1>5, <2>1
    <2>3. QED
      BY <1>3, <1>7, <2>1, <2>2 DEF PollKeyState, GetClientStateByKey, keyVars, fleetVars
  <1>8. QED
    BY <1>6, <1>7

(* The key announced as verified is verified, and the one in the file.       *)
THEOREM AnnouncedReady == Spec => AnnouncedKeyReady
  <1> DEFINE Ready == \A t \in Terminals :
        ~At(t, "ready") /\ proc'[t].at = "ready" =>
          /\ registry'[proc[t].site][proc[t].key] = "verified"
          /\ collided \/ keyFile["rsa"] = [state |-> "written", key |-> proc[t].key]
  <1>1. Typed /\ KeysSafe /\ [Next]_vars => (Typed /\ KeysSafe)'
    BY StepSafe
  <1>2. ASSUME Typed, KeysSafe, [Next]_vars PROVE Ready
    <2> SUFFICES ASSUME NEW t \in Terminals, ~At(t, "ready"), proc'[t].at = "ready"
                 PROVE  /\ registry'[proc[t].site][proc[t].key] = "verified"
                        /\ collided \/ keyFile["rsa"] =
                                         [state |-> "written", key |-> proc[t].key]
      OBVIOUS
    <2>1. /\ registry'[proc[t].site][proc[t].key] = "verified"
          /\ UNCHANGED <<keyFile, collided>>
          /\ proc'[t].key = proc[t].key
      BY <1>2, OnlyAnswers, AnswerVerified
    <2>2. KeysSafe'
      BY <1>2, StepSafe
    <2>3. ~collided => keyFile["rsa"] = [state |-> "written", key |-> proc[t].key]
      BY <2>1, <2>2 DEF KeysSafe, HeldKeysInFile, KeyHeld
    <2>4. QED
      BY <2>1, <2>3
  <1>3. Typed /\ KeysSafe /\ [Next]_vars => [Ready]_vars
    BY <1>2
  <1>4. AnnouncedKeyReady <=> [][Ready]_vars
    BY DEF AnnouncedKeyReady
  <1> HIDE DEF Ready
  <1>5. QED
    BY <1>1, <1>3, <1>4, StartSafe, PTL DEF Spec

-----------------------------------------------------------------------------
(* The newest tokens *)

(* Where a key is polled for. *)
Polling == {"first", "second"}

(* A command is idle without anything, polls while attempts are left, and    *)
(* has tokens no older than those it loaded, of the grants up to g.          *)
Sound(c, g) ==
  /\ c \in Command
  /\ c.at = "idle" => c = Idle
  /\ c.at \in Polling <=> c.left > 0
  /\ c.codes + c.errs <= c.callbacks
  /\ c.loaded <= c.tokens.grant /\ c.tokens.grant <= g

(* A command that has opened the token file for the newest tokens, or will,  *)
(* and loaded older ones: if it is interrupted or finds newer tokens there,  *)
(* a grant is lost.                                                          *)
Holder(c, g) ==
  /\ c.tokens.grant = g
  /\ c.at = "writing" \/ (c.at = "saving" /\ c.loaded < g)

(* NewestTokensKept is not inductive: a command about to save the newest     *)
(* tokens may be one that only saves its site, and may fail to do so.        *)
NewestHeld ==
  \/ lost \/ granted = 0
  \/ file.state = "written" /\ file.tokens.grant = granted
  \/ \E t \in Terminals : Holder(proc[t], granted)

AllSound == \A t \in Terminals : Sound(proc[t], granted)

(* The rest of the types. *)
Counted ==
  /\ expired \in 0 .. granted /\ file.tokens.grant <= granted
  /\ commands \in 0 .. MaxCommands /\ faults \in 0 .. MaxFaults
  /\ lost \in BOOLEAN /\ collided \in BOOLEAN

(* The inductive invariant of TypeCorrect and NewestTokensStay. *)
TokensInv == Typed /\ KeysSafe /\ AllSound /\ Counted /\ NewestHeld

(* Idle is sound. *)
LEMMA SoundIdle == ASSUME NEW g \in Grants PROVE Sound(Idle, g)
<1>1. Idle \in Command /\ Idle.at = "idle" BY BlankCommand
<1>2. Idle.left = 0 /\ Idle.codes = 0 /\ Idle.errs = 0 /\ Idle.callbacks = 0 /\ Idle.loaded = 0
  BY DEF Idle
<1>3. Idle.tokens.grant = 0 BY DEF Idle, Granted
<1>4. g \in Nat BY OnboardingAssumption DEF Grants
<1>. QED BY <1>1, <1>2, <1>3, <1>4 DEF Sound, Polling

(* The places where no attempts are left to poll, but for idle. *)
Plain == Places \ ({"idle"} \cup Polling)

(* Most of the places. *)
LEMMA PlainPlaces ==
  {"refresh", "resolve", "saving", "writing", "list", "key", "generate", "keywriting",
   "register", "remove", "waiting", "exchange", "partner", "shutdown", "ready", "tunnel",
   "prompt"} \subseteq Plain
  BY DEF Plain, Polling, Places, Local

(* What the types of a command say of its numbers. *)
LEMMA Numbers ==
  ASSUME NEW c \in Command
  PROVE  /\ c.left \in Nat /\ c.codes \in Nat /\ c.errs \in Nat /\ c.callbacks \in Nat
         /\ c.loaded \in Nat /\ c.tokens.grant \in Nat /\ c.tokens \in Tokens
         /\ c.loaded \in Grants /\ c.tokens.grant \in Grants
  BY OnboardingAssumption DEF Command, Tokens, Grants

(* A command where nothing is polled is sound if its numbers are. *)
LEMMA SoundPlain ==
  ASSUME NEW c \in Command, c.at \in Plain, c.left = 0, NEW g \in Grants,
         c.codes + c.errs <= c.callbacks, c.loaded <= c.tokens.grant, c.tokens.grant <= g
  PROVE  Sound(c, g)
<1>1. c.at # "idle" /\ c.at \notin Polling BY DEF Plain
<1>2. ~(c.left > 0) OBVIOUS
<1>. QED BY <1>1, <1>2 DEF Sound

(* And nothing is left to poll there. *)
LEMMA PlainPollsNothing ==
  ASSUME NEW c, NEW g, Sound(c, g), c.at \notin Polling
  PROVE  c.left = 0
<1>1. c.left \in Nat /\ ~(c.left > 0) BY Numbers DEF Sound
<1>. QED BY <1>1

(* A command that polls, or stops to, is sound. *)
LEMMA SoundRound ==
  ASSUME NEW c, NEW g \in Grants, Sound(c, g), NEW p \in Places \ {"idle"}, NEW n \in Nat,
         p \in Polling <=> n > 0
  PROVE  Sound([c EXCEPT !.at = p, !.left = n], g)
<1> DEFINE d == [c EXCEPT !.at = p, !.left = n]
<1>1. c \in Command BY DEF Sound
<1>2. /\ d \in Command /\ d.at = p /\ d.left = n /\ d.codes = c.codes /\ d.errs = c.errs
      /\ d.callbacks = c.callbacks /\ d.loaded = c.loaded /\ d.tokens = c.tokens
  BY <1>1 DEF Command
<1> HIDE DEF d
<1>3. Sound(d, g) BY <1>2 DEF Sound
<1>. QED BY <1>3 DEF d

(* So is one that has a key. *)
LEMMA SoundKeyed ==
  ASSUME NEW c, NEW g \in Grants, Sound(c, g), c.at \notin Polling, NEW p \in Plain,
         NEW k \in Keys
  PROVE  Sound([c EXCEPT !.key = k, !.at = p], g)
<1> DEFINE d == [c EXCEPT !.key = k, !.at = p]
<1>1. c \in Command /\ c.left = 0 BY PlainPollsNothing DEF Sound
<1>2. /\ d \in Command /\ d.at = p /\ d.left = 0 /\ d.codes = c.codes /\ d.errs = c.errs
      /\ d.callbacks = c.callbacks /\ d.loaded = c.loaded /\ d.tokens = c.tokens
  BY <1>1 DEF Command, Plain
<1>3. c.codes + c.errs <= c.callbacks /\ c.loaded <= c.tokens.grant /\ c.tokens.grant <= g
  BY DEF Sound
<1> HIDE DEF d
<1>4. Sound(d, g) BY <1>2, <1>3, SoundPlain
<1>. QED BY <1>4 DEF d

(* A login that goes on, or is shut down, is sound. *)
LEMMA SoundLogin ==
  ASSUME Typed, NEW t \in Terminals, Sound(proc[t], granted), NEW p \in Plain, NEW g \in Grants
  PROVE  Sound(Login(t, p), g)
<1>1. Login(t, p) \in Command /\ Login(t, p).at = p BY LoginTyped DEF Plain
<1>2. /\ Login(t, p).left = 0 /\ Login(t, p).loaded = 0 /\ Login(t, p).tokens = Granted(0)
      /\ Login(t, p).codes = proc[t].codes /\ Login(t, p).errs = proc[t].errs
      /\ Login(t, p).callbacks = proc[t].callbacks
  BY BlankCommand DEF Login, Idle
<1>3. Granted(0).grant = 0 BY DEF Granted
<1>4. g \in Nat BY OnboardingAssumption DEF Grants
<1>5. proc[t].codes + proc[t].errs <= proc[t].callbacks BY DEF Sound
<1>6. /\ Login(t, p).codes + Login(t, p).errs <= Login(t, p).callbacks
      /\ Login(t, p).tokens.grant = 0
  BY <1>2, <1>3, <1>5
<1>7. 0 <= g /\ 0 <= 0 BY <1>4
<1>. QED BY <1>1, <1>2, <1>6, <1>7, SoundPlain

(* So is a command that returns. *)
LEMMA SoundReturns ==
  ASSUME Typed, NEW t \in Terminals, Sound(proc[t], granted), Returns(t), NEW g \in Grants
  PROVE  \E c \in Command : Becomes(t, c) /\ Sound(c, g) /\ c.at \in {"idle", "shutdown"}
<1>1. "shutdown" \in Plain /\ "shutdown" \in Places BY PlainPlaces DEF Plain
<1>2. CASE Becomes(t, Idle) BY <1>2, SoundIdle, BlankCommand
<1>3. CASE Becomes(t, Login(t, "shutdown")) BY <1>1, <1>3, SoundLogin, LoginTyped
<1>. QED BY <1>2, <1>3 DEF Returns

(* And one that starts its own work. *)
LEMMA SoundActing ==
  ASSUME Typed, NEW t \in Terminals, NEW g \in Grants,
         NEW site \in Sites \cup {None}, NEW din \in Sites \cup {None}
  PROVE  Sound(Acting(t, site, din), g)
<1> DEFINE c == Acting(t, site, din)
<1>1. c \in Command /\ c.at \in {"key", "list", "remove"} BY ActingTyped
<1>2. /\ c.left = 0 /\ c.loaded = 0 /\ c.tokens = Granted(0)
      /\ c.codes = 0 /\ c.errs = 0 /\ c.callbacks = 0
  BY BlankCommand DEF Acting, Idle
<1>3. Granted(0).grant = 0 BY DEF Granted
<1>4. g \in Nat BY OnboardingAssumption DEF Grants
<1> HIDE DEF c
<1>5. c.at \in Plain BY <1>1, PlainPlaces
<1>6. /\ c.codes + c.errs <= c.callbacks /\ c.loaded <= c.tokens.grant
      /\ c.tokens.grant <= g
  BY <1>2, <1>3, <1>4
<1>7. Sound(c, g) BY <1>1, <1>2, <1>5, <1>6, SoundPlain
<1>. QED BY <1>7 DEF c

(* And one that moves on with what it has. *)
LEMMA SoundMove ==
  ASSUME NEW c, NEW g \in Grants, Sound(c, g), c.at \notin Polling, NEW p \in Plain
  PROVE  Sound([c EXCEPT !.at = p], g) /\ [c EXCEPT !.at = p].at = p
<1>1. c \in Command /\ p \in Places /\ p # "idle" /\ p \notin Polling BY DEF Sound, Plain
<1>2. [c EXCEPT !.at = p] \in Command BY <1>1, CommandGoes
<1>. QED BY <1>1, <1>2 DEF Sound, Command

(* And one that goes on after a save. *)
LEMMA SoundSaved ==
  ASSUME Typed, NEW t \in Terminals, Sound(proc[t], granted),
         proc[t].at \in {"saving", "writing"}
  PROVE  Sound(Saved(t), granted)
<1>0. granted \in Grants /\ granted \in Nat BY OnboardingAssumption DEF Typed, Grants
<1>1. /\ proc[t] \in Command
      /\ proc[t].then \in {"idle", "resolve", "act", "partner"}
      /\ proc[t].site \in Sites \cup {None} /\ proc[t].din \in Sites \cup {None}
  BY DEF Typed, Command
<1>2. CASE proc[t].then = "idle" BY <1>0, <1>2, SoundIdle DEF Saved
<1>3. CASE proc[t].then = "act" BY <1>0, <1>1, <1>3, SoundActing DEF Saved
<1>4. CASE proc[t].then = "partner"
  <2>1. "partner" \in Plain BY PlainPlaces
  <2>. QED BY <1>0, <1>4, <2>1, SoundLogin DEF Saved
<1>5. CASE proc[t].then = "resolve"
  <2>1. Saved(t) = [proc[t] EXCEPT !.at = "resolve", !.loaded = proc[t].tokens.grant]
    BY <1>5 DEF Saved
  <2>2. Saved(t) \in Command BY SavedTyped
  <2>3. proc[t].at \notin Polling BY DEF Polling
  <2>4. "resolve" \notin Polling BY DEF Polling
  <2>5. /\ Saved(t).at = "resolve" /\ Saved(t).left = proc[t].left
        /\ Saved(t).codes = proc[t].codes /\ Saved(t).errs = proc[t].errs
        /\ Saved(t).callbacks = proc[t].callbacks /\ Saved(t).tokens = proc[t].tokens
        /\ Saved(t).loaded = proc[t].tokens.grant
    BY <1>1, <2>1 DEF Command
  <2>6. proc[t].tokens.grant \in Nat BY <1>1, Numbers
  <2>. QED BY <2>2, <2>3, <2>4, <2>5, <2>6 DEF Sound
<1>. QED BY <1>1, <1>2, <1>3, <1>4, <1>5

(* And one that saves what it found out about its site. *)
LEMMA SoundPersisting ==
  ASSUME Typed, NEW t \in Terminals, Sound(proc[t], granted), At(t, "resolve"),
         NEW region \in Regions \cup {NoRegion},
         NEW site \in Sites \cup {None}, NEW din \in Sites \cup {None}
  PROVE  Sound(Persisting(t, region, site, din), granted)
<1> DEFINE c == Persisting(t, region, site, din)
<1>1. c \in Command /\ c.at = "saving" BY PersistingTyped
<1>2. proc[t] \in Command /\ proc[t].tokens \in Tokens BY DEF Typed, Command
<1>3. /\ c.left = proc[t].left /\ c.loaded = proc[t].loaded
      /\ c.codes = proc[t].codes /\ c.errs = proc[t].errs /\ c.callbacks = proc[t].callbacks
  BY <1>2 DEF Persisting, Command
<1>4. c.tokens.grant = proc[t].tokens.grant
  <2> DEFINE new == [proc[t].tokens EXCEPT !.site = site, !.din = din,
                       !.region = IF region = NoRegion THEN @ ELSE region]
  <2>1. c.tokens = new BY <1>2 DEF Persisting, Command
  <2>2. new.grant = proc[t].tokens.grant BY <1>2 DEF Tokens
  <2>. QED BY <2>1, <2>2
<1> HIDE DEF c
<1>5. c.at \in Plain BY <1>1, PlainPlaces
<1>6. proc[t].at \notin Polling BY DEF At, Polling
<1>7. c.left = 0 BY <1>3, <1>6, PlainPollsNothing
<1>8. /\ proc[t].codes + proc[t].errs <= proc[t].callbacks
      /\ proc[t].loaded <= proc[t].tokens.grant /\ proc[t].tokens.grant <= granted
  BY DEF Sound
<1>9. /\ c.codes + c.errs <= c.callbacks
      /\ c.loaded <= c.tokens.grant /\ c.tokens.grant <= granted
  BY <1>3, <1>4, <1>8
<1>10. granted \in Grants BY DEF Typed
<1>11. Sound(c, granted) BY <1>1, <1>5, <1>7, <1>9, <1>10, SoundPlain
<1>. QED BY <1>11 DEF c

-----------------------------------------------------------------------------
(* The steps that leave the token file and the grants alone *)

(* A command goes on soundly, and holds tokens that were held. *)
GoesOn(t) ==
  /\ UNCHANGED <<granted, fileVars>>
  /\ \E c \in Command : Becomes(t, c) /\ Sound(c, granted)
                        /\ (Holder(proc[t], granted) => Holder(c, granted))

(* A command that returns, when it holds nothing. *)
LEMMA ReturnGoesOn ==
  ASSUME TokensInv, NEW t \in Terminals, Returns(t), UNCHANGED <<granted, fileVars>>,
         proc[t].at \notin {"saving", "writing"}
  PROVE  GoesOn(t)
<1>1. granted \in Grants BY DEF TokensInv, Typed
<1>. QED BY <1>1, SoundReturns DEF GoesOn, Holder, TokensInv, AllSound

(* One that moves on. *)
LEMMA MoveGoesOn ==
  ASSUME TokensInv, NEW t \in Terminals, NEW p \in Plain, Goes(t, p),
         UNCHANGED <<granted, fileVars>>, proc[t].at \notin {"saving", "writing"} \cup Polling
  PROVE  GoesOn(t)
<1>1. granted \in Grants /\ Sound(proc[t], granted) BY DEF TokensInv, Typed, AllSound
<1>2. Sound([proc[t] EXCEPT !.at = p], granted) BY <1>1, SoundMove
<1>. QED BY <1>2 DEF GoesOn, Goes, Holder, Sound

(* One that goes on as given. *)
LEMMA CommandGoesOn ==
  ASSUME NEW t \in Terminals, NEW c, Becomes(t, c), Sound(c, granted),
         UNCHANGED <<granted, fileVars>>, proc[t].at \notin {"saving", "writing"}
  PROVE  GoesOn(t)
  BY DEF GoesOn, Holder, Sound

(* A command that is started. *)
LEMMA StartGoesOn ==
  ASSUME TokensInv, NEW t \in Terminals,
         \/ \E flag \in {"none", "force", "refresh"} : StartAuth(t, flag)
         \/ \E cmd \in KeyCommands, region \in Regions \cup {NoRegion},
               site \in Sites \cup {None} : StartKeys(t, cmd, region, site)
  PROVE  GoesOn(t)
<1>0. /\ file.tokens \in Tokens /\ file.tokens.grant \in Grants /\ file.tokens.grant \in Nat
      /\ granted \in Grants /\ granted \in Nat /\ file.tokens.grant <= granted
  BY OnboardingAssumption DEF TokensInv, Typed, Tokens, Counted, Grants
<1>1. ASSUME NEW flag \in {"none", "force", "refresh"}, StartAuth(t, flag)
      PROVE  GoesOn(t)
  <2>1. UNCHANGED <<granted, fileVars>> /\ proc[t].at \notin {"saving", "writing"}
    BY <1>1 DEF StartAuth, Free, At
  <2>2. \/ Becomes(t, NewLogin(flag)) \/ Becomes(t, NewRefresh(flag)) \/ Becomes(t, Idle)
    BY <1>1 DEF StartAuth
  <2>3. {"key", "refresh"} \subseteq Plain BY PlainPlaces
  <2>4. Sound(Idle, granted) BY <1>0, SoundIdle
  <2>5. Sound(NewLogin(flag), granted)
    <3>1. NewLogin(flag) = [Idle EXCEPT !.cmd = "auth", !.flag = flag, !.at = "key"]
      BY DEF NewLogin
    <3>2. NewLogin(flag) \in Command BY <2>3, <3>1, BlankCommand DEF Plain, Command
    <3>3. /\ NewLogin(flag).at = "key" /\ NewLogin(flag).left = 0
          /\ NewLogin(flag).codes = 0 /\ NewLogin(flag).errs = 0
          /\ NewLogin(flag).callbacks = 0 /\ NewLogin(flag).loaded = 0
          /\ NewLogin(flag).tokens.grant = 0
      BY <3>1 DEF Idle, Granted
    <3>. QED BY <1>0, <2>3, <3>2, <3>3, SoundPlain
  <2>6. Sound(NewRefresh(flag), granted)
    <3>1. NewRefresh(flag) = [Idle EXCEPT !.cmd = "auth", !.flag = flag, !.at = "refresh",
                                !.tokens = file.tokens, !.loaded = file.tokens.grant]
      BY DEF NewRefresh
    <3>2. NewRefresh(flag) \in Command
      BY <1>0, <2>3, <3>1, BlankCommand DEF Plain, Command
    <3>3. /\ NewRefresh(flag).at = "refresh" /\ NewRefresh(flag).left = 0
          /\ NewRefresh(flag).codes = 0 /\ NewRefresh(flag).errs = 0
          /\ NewRefresh(flag).callbacks = 0 /\ NewRefresh(flag).loaded = file.tokens.grant
          /\ NewRefresh(flag).tokens = file.tokens
      BY <3>1 DEF Idle
    <3>. QED BY <1>0, <2>3, <3>2, <3>3, SoundPlain
  <2>. QED BY <2>1, <2>2, <2>4, <2>5, <2>6, CommandGoesOn
<1>2. ASSUME NEW cmd \in KeyCommands, NEW region \in Regions \cup {NoRegion},
             NEW site \in Sites \cup {None}, StartKeys(t, cmd, region, site)
      PROVE  GoesOn(t)
  <2> DEFINE place == IF IsExpired(file.tokens) THEN "refresh" ELSE "resolve"
             c == [Idle EXCEPT !.cmd = cmd, !.region = region, !.site = site,
                     !.tokens = file.tokens, !.loaded = file.tokens.grant,
                     !.at = place, !.then = "resolve"]
  <2>1. UNCHANGED <<granted, fileVars>> /\ proc[t].at \notin {"saving", "writing"}
    BY <1>2 DEF StartKeys, Free, At
  <2>2. Becomes(t, c) BY <1>2 DEF StartKeys
  <2>3. place \in Plain BY PlainPlaces
  <2>4. Sound(Idle, granted) BY <1>0, SoundIdle
  <2> HIDE DEF place
  <2>5. Sound(c, granted)
    <3>1. c \in Command BY <1>0, <2>3, BlankCommand DEF Plain, Command
    <3>2. /\ c.at = place /\ c.left = 0 /\ c.codes = 0 /\ c.errs = 0 /\ c.callbacks = 0
          /\ c.loaded = file.tokens.grant /\ c.tokens = file.tokens
      BY DEF Idle
    <3> HIDE DEF c
    <3>. QED BY <1>0, <2>3, <3>1, <3>2, SoundPlain
  <2>. QED BY <2>1, <2>2, <2>5, CommandGoesOn
<1>. QED BY <1>1, <1>2

(* resolveClient. *)
LEMMA ResolveGoesOn ==
  ASSUME TokensInv, NEW t \in Terminals,
         ResolveKnown(t) \/ ResolveUnknown(t) \/ ResolveFails(t)
  PROVE  GoesOn(t)
<1>0. /\ proc[t].tokens.site \in Sites \cup {None} /\ proc[t].tokens.din \in Sites \cup {None}
      /\ proc[t].site \in Sites \cup {None} /\ account \subseteq Sites
      /\ Typed /\ Sound(proc[t], granted) /\ granted \in Grants
  BY DEF TokensInv, AllSound, Typed, Command, Tokens, Sites
<1>1. Site(t) \in Sites \cup {None} BY <1>0 DEF Site
<1>2. /\ UNCHANGED <<granted, fileVars>> /\ At(t, "resolve")
      /\ proc[t].at \notin {"saving", "writing"}
  BY DEF ResolveKnown, ResolveUnknown, ResolveFails, fleetVars, At
<1>3. ASSUME NEW region \in Regions \cup {NoRegion}, NEW site \in Sites \cup {None},
             NEW din \in Sites \cup {None}, Becomes(t, Persisting(t, region, site, din))
      PROVE  GoesOn(t)
  BY <1>0, <1>2, <1>3, SoundPersisting, CommandGoesOn
<1>4. ASSUME NEW site \in Sites \cup {None}, NEW din \in Sites \cup {None},
             Becomes(t, Acting(t, site, din))
      PROVE  GoesOn(t)
  BY <1>0, <1>2, <1>4, SoundActing, CommandGoesOn
<1>5. NoRegion \in Regions \cup {NoRegion} /\ "home" \in Regions \cup {NoRegion}
  BY DEF Regions
<1>6. CASE ResolveKnown(t)
  <2>1. \/ \E s \in GetEnergySites(Region(t)) : Becomes(t, Persisting(t, NoRegion, s, s))
        \/ Becomes(t, Acting(t, Site(t), proc[t].tokens.din))
    BY <1>6 DEF ResolveKnown
  <2>2. GetEnergySites(Region(t)) \subseteq Sites BY <1>0 DEF GetEnergySites
  <2>. QED BY <1>0, <1>1, <1>3, <1>4, <1>5, <2>1, <2>2
<1>7. CASE ResolveUnknown(t)
  <2>1. \/ Becomes(t, Persisting(t, "home", Site(t), proc[t].tokens.din))
        \/ \E s \in account : Becomes(t, Persisting(t, "home", s, s))
        \/ Returns(t)
    BY <1>7 DEF ResolveUnknown
  <2>. QED BY <1>0, <1>1, <1>2, <1>3, <1>5, <2>1, ReturnGoesOn
<1>8. CASE ResolveFails(t)
  <2>1. Returns(t) BY <1>8 DEF ResolveFails
  <2>. QED BY <1>2, <2>1, ReturnGoesOn
<1>. QED BY <1>6, <1>7, <1>8

(* The steps that end a command, or its login, without more. *)
LEMMA EndGoesOn ==
  ASSUME TokensInv, NEW t \in Terminals,
         \/ List(t) \/ CreateKeyFails(t) \/ Announce(t) \/ TunnelFails(t) \/ TimeOut(t)
         \/ RegisterPartner(t) \/ RegisterLost(t) \/ Shutdown(t) \/ RefreshRefused(t)
         \/ \E k \in Keys : Remove(t, k)
  PROVE  GoesOn(t)
<1>0. Typed /\ Sound(proc[t], granted) /\ granted \in Grants
  BY DEF TokensInv, AllSound, Typed
<1>1. CASE \/ List(t) \/ CreateKeyFails(t) \/ Announce(t) \/ TunnelFails(t) \/ TimeOut(t)
           \/ RegisterPartner(t) \/ RegisterLost(t) \/ \E k \in Keys : Remove(t, k)
  <2>1. /\ Returns(t) /\ UNCHANGED <<granted, fileVars>>
        /\ proc[t].at \notin {"saving", "writing"}
    BY <1>1 DEF List, CreateKeyFails, Announce, TunnelFails, TimeOut, RegisterPartner,
                RegisterLost, Remove, fleetVars, At
  <2>. QED BY <2>1, ReturnGoesOn
<1>2. CASE Shutdown(t)
  <2>1. /\ Becomes(t, Idle) /\ UNCHANGED <<granted, fileVars>>
        /\ proc[t].at \notin {"saving", "writing"}
    BY <1>2 DEF Shutdown, fleetVars, At
  <2>. QED BY <1>0, <2>1, SoundIdle, CommandGoesOn
<1>3. CASE RefreshRefused(t)
  <2>1. /\ RefreshFailed(t) /\ UNCHANGED <<granted, fileVars>>
        /\ proc[t].at \notin {"saving", "writing"}
    BY <1>3 DEF RefreshRefused, fleetVars, At
  <2>2. "key" \in Plain BY PlainPlaces
  <2>. QED BY <1>0, <2>1, <2>2, SoundLogin, CommandGoesOn, ReturnGoesOn DEF RefreshFailed
<1>. QED BY <1>1, <1>2, <1>3

(* The steps that make, use or register a key. *)
LEMMA KeyGoesOn ==
  ASSUME TokensInv, NEW t \in Terminals,
         LoadKey(t) \/ CreateKey(t) \/ WriteKey(t) \/ Register(t)
  PROVE  GoesOn(t)
<1>0. /\ Typed /\ Sound(proc[t], granted) /\ granted \in Grants /\ proc[t] \in Command
      /\ KeyPath(t) \in KeyPaths /\ keyFile[KeyPath(t)].key \in Keys
      /\ keyFile[KeyPath(t)].state \in FileStates /\ proc[t].key \in Keys
  BY DEF TokensInv, AllSound, Typed, Command, KeyPath, KeyPaths
<1>1. /\ UNCHANGED <<granted, fileVars>>
      /\ proc[t].at \notin {"saving", "writing"} \cup Polling
  BY DEF LoadKey, CreateKey, WriteKey, Register, fleetVars, At, Polling
<1>2. {"generate", "keywriting", "register", "tunnel"} \subseteq Plain BY PlainPlaces
<1>3. ASSUME NEW k \in Keys, Becomes(t, WithKey(t, k)) PROVE GoesOn(t)
  <2>1. CASE proc[t].cmd = "auth"
    <3>1. Becomes(t, Login(t, "tunnel")) BY <1>3, <2>1 DEF WithKey
    <3>. QED BY <1>0, <1>1, <1>2, <3>1, SoundLogin, CommandGoesOn
  <2>2. CASE proc[t].cmd # "auth"
    <3> DEFINE c == [proc[t] EXCEPT !.key = k, !.at = "register"]
    <3>1. Becomes(t, c) BY <1>3, <2>2 DEF WithKey
    <3>2. Sound(c, granted) BY <1>0, <1>1, <1>2, SoundKeyed
    <3>. QED BY <1>1, <3>1, <3>2, CommandGoesOn
  <2>. QED BY <2>1, <2>2
<1>4. CASE LoadKey(t)
  <2>1. \/ Goes(t, "generate") \/ Returns(t)
        \/ Becomes(t, WithKey(t, keyFile[KeyPath(t)].key))
    BY <1>0, <1>4 DEF LoadKey, FileStates
  <2>. QED BY <1>0, <1>1, <1>2, <1>3, <2>1, MoveGoesOn, ReturnGoesOn
<1>5. CASE CreateKey(t)
  <2>1. CASE KeyPath(t) = "ec"
    <3>1. Goes(t, "keywriting") BY <1>5, <2>1 DEF CreateKey
    <3>. QED BY <1>1, <1>2, <3>1, MoveGoesOn
  <2>2. CASE KeyPath(t) # "ec"
    <3> DEFINE c == [proc[t] EXCEPT !.key = generated', !.at = "keywriting"]
    <3>1. Becomes(t, [proc[t] EXCEPT !.at = "keywriting", !.key = generated'])
      BY <1>5, <2>2 DEF CreateKey
    <3>2. Becomes(t, c) BY <1>0, <3>1 DEF Command
    <3>3. generated' \in Keys
      BY <1>0, <1>5, <2>2, OnboardingAssumption DEF CreateKey, Typed, Keys
    <3>4. Sound(c, granted) BY <1>0, <1>1, <1>2, <3>3, SoundKeyed
    <3>. QED BY <1>1, <3>2, <3>4, CommandGoesOn
  <2>. QED BY <2>1, <2>2
<1>6. CASE WriteKey(t)
  BY <1>0, <1>3, <1>6 DEF WriteKey
<1>7. CASE Register(t)
  <2>1. \/ Returns(t)
        \/ Becomes(t, [proc[t] EXCEPT !.at = "ready", !.left = 0])
        \/ Becomes(t, [proc[t] EXCEPT !.at = "first", !.left = Polls["first"]])
    BY <1>7 DEF Register, Verified
  <2>2. CASE Becomes(t, [proc[t] EXCEPT !.at = "ready", !.left = 0])
    <3>1. "ready" \in Places \ {"idle"} /\ "ready" \notin Polling /\ 0 \in Nat /\ ~(0 > 0)
      BY PlainPlaces DEF Plain
    <3>2. Sound([proc[t] EXCEPT !.at = "ready", !.left = 0], granted)
      BY <1>0, <3>1, SoundRound
    <3>. QED BY <1>1, <2>2, <3>2, CommandGoesOn
  <2>3. CASE Becomes(t, [proc[t] EXCEPT !.at = "first", !.left = Polls["first"]])
    <3>1. /\ Polls["first"] \in Nat /\ Polls["first"] > 0
          /\ "first" \in Places \ {"idle"} /\ "first" \in Polling
      BY OnboardingAssumption DEF Places, Local, Polling
    <3>2. Sound([proc[t] EXCEPT !.at = "first", !.left = Polls["first"]], granted)
      BY <1>0, <3>1, SoundRound
    <3>. QED BY <1>1, <2>3, <3>2, CommandGoesOn
  <2>. QED BY <1>1, <2>1, <2>2, <2>3, ReturnGoesOn
<1>. QED BY <1>4, <1>5, <1>6, <1>7

(* The polls. *)
LEMMA PollGoesOn ==
  ASSUME TokensInv, NEW t \in Terminals, PollKeyState(t) \/ Enter(t)
  PROVE  GoesOn(t)
<1>0. /\ Sound(proc[t], granted) /\ proc[t] \in Command /\ proc[t].left \in Nat
      /\ granted \in Grants
      /\ UNCHANGED <<granted, fileVars>> /\ proc[t].at \notin {"saving", "writing"}
      /\ {"ready", "prompt"} \subseteq Plain
  BY PlainPlaces
     DEF TokensInv, AllSound, Typed, Sound, Command, PollKeyState, Enter, fleetVars, At
<1>1. ASSUME NEW p \in {"ready", "prompt"}, Becomes(t, [proc[t] EXCEPT !.at = p, !.left = 0])
      PROVE  GoesOn(t)
  <2>1. p \in Places \ {"idle"} /\ p \notin Polling /\ 0 \in Nat /\ ~(0 > 0)
    BY <1>0 DEF Plain
  <2>2. Sound([proc[t] EXCEPT !.at = p, !.left = 0], granted)
    BY <1>0, <2>1, SoundRound
  <2>. QED BY <1>0, <1>1, <2>2, CommandGoesOn
<1>2. CASE PollKeyState(t)
  <2>1. \/ Becomes(t, [proc[t] EXCEPT !.at = "ready", !.left = 0])
        \/ MorePolls(t) /\ Becomes(t, [proc[t] EXCEPT !.left = @ - 1])
        \/ Becomes(t, [proc[t] EXCEPT !.at = "prompt", !.left = 0])
        \/ Returns(t)
    BY <1>2 DEF PollKeyState, Verified
  <2>2. CASE MorePolls(t) /\ Becomes(t, [proc[t] EXCEPT !.left = @ - 1])
    <3>1. proc[t].left > 1 /\ proc[t].at \in Polling
      BY <1>2, <2>2 DEF MorePolls, PollKeyState, Polling
    <3>2. proc[t].left - 1 \in Nat /\ proc[t].left - 1 > 0 BY <1>0, <3>1
    <3>3. proc[t].at \in Places \ {"idle"} BY <1>0, <3>1 DEF Command, Polling
    <3>4. [proc[t] EXCEPT !.left = @ - 1] =
            [proc[t] EXCEPT !.at = proc[t].at, !.left = proc[t].left - 1]
      BY <1>0 DEF Command
    <3>5. Sound([proc[t] EXCEPT !.left = @ - 1], granted)
      BY <1>0, <3>1, <3>2, <3>3, <3>4, SoundRound
    <3>. QED BY <1>0, <2>2, <3>5, CommandGoesOn
  <2>. QED BY <1>0, <1>1, <2>1, <2>2, ReturnGoesOn
<1>3. CASE Enter(t)
  <2>1. /\ Polls["second"] \in Nat /\ Polls["second"] > 0
        /\ "second" \in Places \ {"idle"} /\ "second" \in Polling
    BY OnboardingAssumption DEF Places, Local, Polling
  <2>2. Sound([proc[t] EXCEPT !.at = "second", !.left = Polls["second"]], granted)
    BY <1>0, <2>1, SoundRound
  <2>. QED BY <1>0, <1>3, <2>2, CommandGoesOn DEF Enter
<1>. QED BY <1>2, <1>3

(* The login, until it has a code. *)
LEMMA LoginGoesOn ==
  ASSUME TokensInv, NEW t \in Terminals,
         TunnelUp(t) \/ TakeCode(t) \/ TakeError(t) \/ \E code \in BOOLEAN : Callback(t, code)
  PROVE  GoesOn(t)
<1>0. /\ Sound(proc[t], granted) /\ proc[t] \in Command /\ MaxCallbacks \in Nat
      /\ granted \in Grants /\ proc[t].callbacks \in 0 .. MaxCallbacks
      /\ proc[t].codes \in Nat /\ proc[t].errs \in Nat /\ proc[t].callbacks \in Nat
      /\ {"waiting", "exchange", "shutdown"} \subseteq Plain
      /\ UNCHANGED <<granted, fileVars>>
  BY PlainPlaces, Numbers, OnboardingAssumption
     DEF TokensInv, AllSound, Typed, Sound, Command, TunnelUp, TakeCode, TakeError, Callback,
         fleetVars
<1>1. CASE TunnelUp(t)
  <2>1. Goes(t, "waiting") /\ proc[t].at \notin {"saving", "writing"} \cup Polling
    BY <1>1 DEF TunnelUp, At, Polling
  <2>. QED BY <1>0, <2>1, MoveGoesOn
<1>5. ASSUME NEW c, c \in Command, c.at \in Plain, c.left = proc[t].left,
             c.tokens = proc[t].tokens, c.loaded = proc[t].loaded,
             c.callbacks = proc[t].callbacks,
             c.codes + c.errs <= proc[t].codes + proc[t].errs, c.codes \in Nat, c.errs \in Nat,
             Becomes(t, c), proc[t].at = "waiting"
      PROVE  GoesOn(t)
  <2>1. c.left = 0 BY <1>0, <1>5, PlainPollsNothing DEF Polling
  <2>2. /\ proc[t].codes + proc[t].errs <= proc[t].callbacks
        /\ proc[t].loaded <= proc[t].tokens.grant /\ proc[t].tokens.grant <= granted
    BY <1>0 DEF Sound
  <2>3. c.codes + c.errs <= c.callbacks BY <1>0, <1>5, <2>2
  <2>4. Sound(c, granted) BY <1>0, <1>5, <2>1, <2>2, <2>3, SoundPlain
  <2>. QED BY <1>0, <1>5, <2>4, CommandGoesOn
<1>2. CASE TakeCode(t)
  <2> DEFINE c == [proc[t] EXCEPT !.codes = @ - 1, !.at = "exchange"]
  <2>1. proc[t].codes > 0 /\ proc[t].at = "waiting" /\ Becomes(t, c)
    BY <1>2 DEF TakeCode, At
  <2>2. proc[t].codes - 1 \in Nat BY <1>0, <2>1
  <2>3. /\ c \in Command /\ c.at \in Plain /\ c.left = proc[t].left
        /\ c.tokens = proc[t].tokens /\ c.loaded = proc[t].loaded
        /\ c.callbacks = proc[t].callbacks /\ c.codes = proc[t].codes - 1
        /\ c.errs = proc[t].errs
    BY <1>0, <2>2 DEF Command, Plain
  <2> HIDE DEF c
  <2>4. c.codes + c.errs <= proc[t].codes + proc[t].errs BY <1>0, <2>3
  <2>. QED BY <1>0, <1>5, <2>1, <2>2, <2>3, <2>4
<1>3. CASE TakeError(t)
  <2> DEFINE c == [proc[t] EXCEPT !.errs = @ - 1, !.at = "shutdown"]
  <2>1. proc[t].errs > 0 /\ proc[t].at = "waiting" /\ Becomes(t, c)
    BY <1>3 DEF TakeError, At
  <2>2. proc[t].errs - 1 \in Nat BY <1>0, <2>1
  <2>3. /\ c \in Command /\ c.at \in Plain /\ c.left = proc[t].left
        /\ c.tokens = proc[t].tokens /\ c.loaded = proc[t].loaded
        /\ c.callbacks = proc[t].callbacks /\ c.codes = proc[t].codes
        /\ c.errs = proc[t].errs - 1
    BY <1>0, <2>2 DEF Command, Plain
  <2> HIDE DEF c
  <2>4. c.codes + c.errs <= proc[t].codes + proc[t].errs BY <1>0, <2>3
  <2>. QED BY <1>0, <1>5, <2>1, <2>2, <2>3, <2>4
<1>4. ASSUME NEW code \in BOOLEAN, Callback(t, code) PROVE GoesOn(t)
  <2> DEFINE codes == IF code THEN proc[t].codes + 1 ELSE proc[t].codes
             errs == IF code THEN proc[t].errs ELSE proc[t].errs + 1
             c == [proc[t] EXCEPT !.callbacks = @ + 1, !.codes = codes, !.errs = errs]
  <2>1. /\ Becomes(t, c) /\ proc[t].callbacks < MaxCallbacks /\ proc[t].at # "idle"
        /\ proc[t].at \notin Polling
    BY <1>4 DEF Callback, Serving, Polling
  <2>2. /\ codes \in Nat /\ errs \in Nat /\ codes + errs = proc[t].codes + proc[t].errs + 1
        /\ proc[t].callbacks + 1 \in 0 .. MaxCallbacks
    BY <1>0, <2>1
  <2> HIDE DEF codes, errs
  <2>3. /\ c \in Command /\ c.at = proc[t].at /\ c.tokens = proc[t].tokens
        /\ c.loaded = proc[t].loaded /\ c.codes = codes /\ c.errs = errs
        /\ c.callbacks = proc[t].callbacks + 1 /\ c.left = proc[t].left
    BY <1>0, <2>2 DEF Command
  <2> HIDE DEF c
  <2>4. proc[t].codes + proc[t].errs <= proc[t].callbacks BY <1>0 DEF Sound
  <2>5. c.codes + c.errs <= c.callbacks BY <1>0, <2>2, <2>3, <2>4
  <2>6. Sound(c, granted) BY <1>0, <2>1, <2>3, <2>5 DEF Sound
  <2>7. Holder(proc[t], granted) => Holder(c, granted) BY <2>3 DEF Holder
  <2>. QED BY <1>0, <2>1, <2>3, <2>6, <2>7 DEF GoesOn
<1>. QED BY <1>1, <1>2, <1>3, <1>4

(* Such a step keeps the commands sound, and the newest tokens with them. *)
LEMMA GoingOnKeeps ==
  ASSUME TokensInv, NEW t \in Terminals, GoesOn(t)
  PROVE  AllSound' /\ NewestHeld'
<1>1. PICK c \in Command : /\ Becomes(t, c) /\ Sound(c, granted)
                           /\ Holder(proc[t], granted) => Holder(c, granted)
  BY DEF GoesOn
<1>2. /\ granted' = granted /\ file' = file /\ lost' = lost
      /\ Typed /\ AllSound /\ NewestHeld
  BY DEF GoesOn, fileVars, TokensInv
<1>3. proc'[t] = c /\ \A u \in Terminals \ {t} : proc'[u] = proc[u]
  BY <1>1, <1>2, Change
<1>4. AllSound' BY <1>1, <1>2, <1>3 DEF AllSound
<1>5. \A u \in Terminals : Holder(proc[u], granted) => Holder(proc'[u], granted')
  BY <1>1, <1>2, <1>3
<1>6. NewestHeld' BY <1>2, <1>5 DEF NewestHeld
<1>. QED BY <1>4, <1>6

-----------------------------------------------------------------------------
(* The steps of the token file and the grants *)

(* One command changes, and all are sound with the grants there are now. *)
LEMMA SoundStep ==
  ASSUME TokensInv, NEW t \in Terminals, NEW c \in Command, Becomes(t, c),
         granted' \in Grants, granted <= granted', Sound(c, granted')
  PROVE  /\ AllSound'
         /\ proc'[t] = c /\ \A u \in Terminals \ {t} : proc'[u] = proc[u]
<1>1. proc'[t] = c /\ \A u \in Terminals \ {t} : proc'[u] = proc[u]
  BY Change DEF TokensInv
<1>2. \A u \in Terminals : Sound(proc[u], granted) => Sound(proc[u], granted')
  <2>. SUFFICES ASSUME NEW u \in Terminals, Sound(proc[u], granted)
                PROVE  Sound(proc[u], granted')
    OBVIOUS
  <2>1. proc[u].tokens.grant \in Nat BY Numbers DEF Sound
  <2>2. granted \in Nat /\ granted' \in Nat
    BY OnboardingAssumption DEF TokensInv, Typed, Grants
  <2>. QED BY <2>1, <2>2 DEF Sound
<1>. QED BY <1>1, <1>2 DEF AllSound, TokensInv

(* A new grant: it is about to be saved, or lost. *)
LEMMA GrantKeeps ==
  ASSUME TokensInv, NEW t \in Terminals,
         Refresh(t) \/ Exchange(t) \/ RefreshLost(t) \/ ExchangeFails(t)
  PROVE  AllSound' /\ NewestHeld' /\ granted' \in Grants /\ granted <= granted'
<1>0. /\ Typed /\ Sound(proc[t], granted) /\ proc[t] \in Command
      /\ granted \in Grants /\ granted \in Nat /\ MaxGrants \in Nat
      /\ granted < MaxGrants => granted + 1 \in Grants
      /\ proc[t].loaded \in Grants /\ proc[t].loaded \in Nat /\ proc[t].tokens.grant \in Nat
      /\ {"saving", "key"} \subseteq Plain
  BY PlainPlaces, Numbers, OnboardingAssumption
     DEF TokensInv, AllSound, Typed, Grants, Sound
<1>1. ASSUME granted' = granted + 1, granted < MaxGrants, NEW loaded \in Grants,
             loaded <= granted, proc[t].at \notin Polling,
             NEW then \in {"idle", "resolve", "act", "partner"},
             Becomes(t, [proc[t] EXCEPT !.tokens = Granted(granted'), !.loaded = loaded,
                                        !.at = "saving", !.then = then])
      PROVE  AllSound' /\ NewestHeld' /\ granted' \in Grants /\ granted <= granted'
  <2> DEFINE c == [proc[t] EXCEPT !.tokens = Granted(granted'), !.loaded = loaded,
                                  !.at = "saving", !.then = then]
  <2>1. granted' \in Grants /\ granted <= granted' BY <1>0, <1>1
  <2>2. Granted(granted') \in Tokens /\ Granted(granted').grant = granted'
    BY <2>1, BlankTokens
  <2>3. loaded < granted' /\ loaded <= granted'
    BY <1>0, <1>1, OnboardingAssumption DEF Grants
  <2>4. /\ c \in Command /\ c.at = "saving" /\ c.tokens = Granted(granted')
        /\ c.loaded = loaded /\ c.left = proc[t].left /\ c.codes = proc[t].codes
        /\ c.errs = proc[t].errs /\ c.callbacks = proc[t].callbacks
    BY <1>0, <2>2 DEF Command, Plain
  <2>5. Becomes(t, c) BY <1>1
  <2> HIDE DEF c
  <2>6. "saving" \notin Polling BY DEF Polling
  <2>7. Sound(c, granted')
    <3>1. c.tokens.grant <= granted' BY <1>0, <2>1, <2>2, <2>4, OnboardingAssumption DEF Grants
    <3>. QED BY <1>0, <1>1, <2>2, <2>3, <2>4, <2>6, <3>1 DEF Sound
  <2>8. Holder(c, granted') BY <2>2, <2>3, <2>4 DEF Holder
  <2>9. AllSound' /\ proc'[t] = c BY <2>1, <2>4, <2>5, <2>7, SoundStep
  <2>. QED BY <2>1, <2>8, <2>9 DEF NewestHeld
<1>2. CASE Refresh(t)
  <2>1. /\ granted' = granted + 1 /\ granted < MaxGrants /\ proc[t].at \notin Polling
        /\ Becomes(t, [proc[t] EXCEPT !.tokens = Granted(granted'), !.at = "saving"])
    BY <1>2 DEF Refresh, At, Polling
  <2>2. [proc[t] EXCEPT !.tokens = Granted(granted'), !.at = "saving"] =
          [proc[t] EXCEPT !.tokens = Granted(granted'), !.loaded = proc[t].loaded,
                          !.at = "saving", !.then = proc[t].then]
    BY <1>0 DEF Command
  <2>3. proc[t].loaded <= granted /\ proc[t].then \in {"idle", "resolve", "act", "partner"}
    BY <1>0 DEF Sound, Command
  <2>. QED BY <1>0, <1>1, <2>1, <2>2, <2>3
<1>3. CASE Exchange(t)
  <2>1. /\ granted' = granted + 1 /\ granted < MaxGrants /\ proc[t].at \notin Polling
        /\ granted <= granted
    BY <1>0, <1>3 DEF Exchange, At, Polling
  <2>. QED BY <1>0, <1>1, <1>3, <2>1 DEF Exchange
<1>4. ASSUME NEW c \in Command, Becomes(t, c), c.at \notin {"saving", "writing"},
             \A g \in Grants : Sound(c, g), proc[t].at \notin {"saving", "writing"},
             file' = file,
             \/ UNCHANGED <<granted, lost>>
             \/ granted < MaxGrants /\ granted' = granted + 1 /\ lost' = TRUE
      PROVE  AllSound' /\ NewestHeld' /\ granted' \in Grants /\ granted <= granted'
  <2>1. granted' \in Grants /\ granted <= granted' BY <1>0, <1>4
  <2>2. AllSound' /\ \A u \in Terminals \ {t} : proc'[u] = proc[u]
    BY <1>4, <2>1, SoundStep
  <2>3. CASE lost' = TRUE BY <2>1, <2>2, <2>3 DEF NewestHeld
  <2>4. CASE UNCHANGED <<granted, lost>>
    BY <1>4, <2>1, <2>2, <2>4 DEF NewestHeld, Holder, TokensInv
  <2>. QED BY <1>4, <2>3, <2>4
<1>5. ASSUME Returns(t), proc[t].at \notin {"saving", "writing"}, file' = file,
             \/ UNCHANGED <<granted, lost>>
             \/ granted < MaxGrants /\ granted' = granted + 1 /\ lost' = TRUE
      PROVE  AllSound' /\ NewestHeld' /\ granted' \in Grants /\ granted <= granted'
  <2>1. CASE Becomes(t, Idle)
    <3>1. \A g \in Grants : Sound(Idle, g) BY SoundIdle
    <3>2. Idle \in Command /\ Idle.at = "idle" BY BlankCommand
    <3>. QED BY <1>4, <1>5, <2>1, <3>1, <3>2
  <2>2. CASE Becomes(t, Login(t, "shutdown"))
    <3>1. "shutdown" \in Plain /\ "shutdown" \in Places BY PlainPlaces DEF Plain
    <3>2. \A g \in Grants : Sound(Login(t, "shutdown"), g) BY <1>0, <3>1, SoundLogin
    <3>3. Login(t, "shutdown") \in Command /\ Login(t, "shutdown").at = "shutdown"
      BY <1>0, <3>1, LoginTyped
    <3>. QED BY <1>4, <1>5, <2>2, <3>2, <3>3
  <2>. QED BY <1>5, <2>1, <2>2 DEF Returns
<1>6. CASE RefreshLost(t)
  <2>1. /\ RefreshFailed(t) /\ proc[t].at \notin {"saving", "writing"} /\ file' = file
        /\ \/ UNCHANGED <<granted, lost>>
           \/ granted < MaxGrants /\ granted' = granted + 1 /\ lost' = TRUE
    BY <1>6 DEF RefreshLost, At
  <2>2. CASE Becomes(t, Login(t, "key"))
    <3>1. "key" \in Places BY <1>0 DEF Plain
    <3>2. \A g \in Grants : Sound(Login(t, "key"), g) BY <1>0, SoundLogin
    <3>3. Login(t, "key") \in Command /\ Login(t, "key").at = "key"
      BY <1>0, <3>1, LoginTyped
    <3>. QED BY <1>4, <2>1, <2>2, <3>2, <3>3
  <2>. QED BY <1>5, <2>1, <2>2 DEF RefreshFailed
<1>7. CASE ExchangeFails(t)
  BY <1>5, <1>7 DEF ExchangeFails, At
<1>. QED BY <1>2, <1>3, <1>6, <1>7

(* The file is opened for a save: what it held was older than the tokens to  *)
(* be saved, or is lost.                                                     *)
LEMMA TruncateKeeps ==
  ASSUME TokensInv, NEW t \in Terminals, Truncate(t)
  PROVE  AllSound' /\ NewestHeld'
<1>0. /\ Sound(proc[t], granted) /\ proc[t] \in Command /\ "writing" \in Plain
      /\ granted \in Grants /\ granted \in Nat /\ proc[t].at = "saving" /\ granted' = granted
      /\ proc[t].loaded \in Nat /\ proc[t].tokens.grant \in Nat /\ file.tokens.grant \in Nat
  BY PlainPlaces, Numbers, OnboardingAssumption
     DEF TokensInv, AllSound, Typed, Grants, Sound, Truncate, At, fleetVars, Tokens
<1> DEFINE c == [proc[t] EXCEPT !.at = "writing"]
<1>1. Sound(c, granted) /\ c.at = "writing" BY <1>0, SoundMove DEF Polling
<1>2. c.tokens = proc[t].tokens /\ c.loaded = proc[t].loaded BY <1>0 DEF Command
<1>3. Becomes(t, c) BY DEF Truncate, Goes
<1> HIDE DEF c
<1>4. AllSound' /\ proc'[t] = c /\ \A u \in Terminals \ {t} : proc'[u] = proc[u]
  BY <1>0, <1>1, <1>3, SoundStep DEF Sound
<1>5. lost' = (lost \/ file.state = Garbled
                    \/ (file.state = "written" /\ file.tokens.grant > proc[t].loaded))
  BY DEF Truncate
<1>6. CASE lost \/ granted = 0 BY <1>0, <1>4, <1>5, <1>6 DEF NewestHeld
<1>7. CASE file.state = "written" /\ file.tokens.grant = granted
  <2>1. CASE proc[t].loaded < granted BY <1>0, <1>4, <1>5, <1>7, <2>1 DEF NewestHeld
  <2>2. CASE ~(proc[t].loaded < granted)
    <3>1. proc[t].tokens.grant = granted BY <1>0, <2>2 DEF Sound
    <3>2. Holder(proc'[t], granted') BY <1>0, <1>1, <1>2, <1>4, <3>1 DEF Holder
    <3>. QED BY <1>4, <3>2 DEF NewestHeld
  <2>. QED BY <2>1, <2>2
<1>8. ASSUME NEW u \in Terminals, Holder(proc[u], granted) PROVE NewestHeld'
  <2>1. Holder(proc'[u], granted') BY <1>0, <1>1, <1>2, <1>4, <1>8 DEF Holder
  <2>. QED BY <2>1 DEF NewestHeld
<1>. QED BY <1>4, <1>6, <1>7, <1>8 DEF TokensInv, NewestHeld

(* The save is written, into the empty file or over what another wrote. *)
LEMMA WriteKeeps ==
  ASSUME TokensInv, NEW t \in Terminals, Write(t)
  PROVE  AllSound' /\ NewestHeld'
<1>0. /\ Typed /\ Sound(proc[t], granted) /\ proc[t] \in Command
      /\ granted \in Grants /\ granted \in Nat /\ proc[t].at = "writing" /\ granted' = granted
  BY OnboardingAssumption DEF TokensInv, AllSound, Typed, Grants, Write, At, fleetVars
<1>1. Saved(t) \in Command /\ Sound(Saved(t), granted') BY <1>0, SavedTyped, SoundSaved
<1>2. /\ AllSound' /\ proc'[t] = Saved(t)
      /\ \A u \in Terminals \ {t} : proc'[u] = proc[u]
  BY <1>0, <1>1, SoundStep DEF Write
<1>3. CASE lost' BY <1>2, <1>3 DEF NewestHeld
<1>4. CASE ~lost'
  <2>1. /\ file' = [state |-> "written", tokens |-> proc[t].tokens]
        /\ ~lost /\ file.state = Garbled
    BY <1>4 DEF Write
  <2>2. CASE granted = 0
    <3>1. granted' = 0 BY <1>0, <2>2
    <3>. QED BY <1>2, <3>1 DEF NewestHeld
  <2>3. ASSUME NEW u \in Terminals, Holder(proc[u], granted) PROVE NewestHeld'
    <3>1. CASE u = t
      <4>1. proc[t].tokens.grant = granted BY <2>3, <3>1 DEF Holder
      <4>2. file'.state = "written" /\ file'.tokens.grant = granted' BY <1>0, <2>1, <4>1
      <4>. QED BY <4>2 DEF NewestHeld
    <3>2. CASE u # t
      BY <1>0, <1>2, <2>3, <3>2 DEF NewestHeld
    <3>. QED BY <3>1, <3>2
  <2>. QED BY <1>2, <2>1, <2>2, <2>3 DEF TokensInv, NewestHeld, Garbled
<1>. QED BY <1>2, <1>3, <1>4

(* A save that fails, or is interrupted: its tokens are lost if they were    *)
(* not in the file before.                                                   *)
LEMMA EndedSaveKeeps ==
  ASSUME TokensInv, NEW t \in Terminals, SaveFails(t) \/ Kill(t)
  PROVE  AllSound' /\ NewestHeld'
<1>0. /\ Typed /\ Sound(proc[t], granted) /\ proc[t] \in Command /\ NewestHeld
      /\ granted \in Grants /\ granted \in Nat /\ granted' = granted /\ file' = file
  <2>1. Typed /\ AllSound /\ NewestHeld BY DEF TokensInv
  <2>2. Sound(proc[t], granted) /\ proc[t] \in Command BY <2>1 DEF AllSound, Sound
  <2>3. granted \in Grants BY <2>1 DEF Typed
  <2>4. granted \in Nat BY <2>3, OnboardingAssumption DEF Grants
  <2>5. granted' = granted /\ file' = file BY DEF SaveFails, Kill, fleetVars
  <2>. QED BY <2>1, <2>2, <2>3, <2>4, <2>5
<1>6. lost => lost' BY ZenonT(30) DEF SaveFails, Kill
<1>1. \E c \in Command : Becomes(t, c) /\ Sound(c, granted')
  <2>1. CASE SaveFails(t)
    <3>1. proc[t].at = "saving" BY <2>1 DEF SaveFails, At
    <3>. QED BY <1>0, <2>1, <3>1, SavedTyped, SoundSaved DEF SaveFails
  <2>2. CASE Kill(t)
    BY <1>0, <2>2, BlankCommand, SoundIdle DEF Kill
  <2>. QED BY <2>1, <2>2
<1>2. AllSound' /\ \A u \in Terminals \ {t} : proc'[u] = proc[u]
  BY <1>0, <1>1, SoundStep
<1>3. Holder(proc[t], granted) => lost'
  <2>. SUFFICES ASSUME Holder(proc[t], granted) PROVE lost' OBVIOUS
  <2>1. ASSUME At(t, "saving") PROVE Unsaved(t)
    <3>1. proc[t].tokens.grant = granted /\ proc[t].loaded < granted
      BY <2>1 DEF Holder, At
    <3>2. proc[t].loaded \in Nat BY <1>0, Numbers
    <3>. QED BY <1>0, <3>1, <3>2 DEF Unsaved
  <2>2. At(t, "saving") \/ At(t, "writing") BY DEF Holder, At
  <2>3. SaveFails(t) => At(t, "saving") /\ lost' = (lost \/ Unsaved(t))
    BY Zenon DEF SaveFails
  <2>4. Kill(t) => lost' = (lost \/ At(t, "writing") \/ (At(t, "saving") /\ Unsaved(t)))
    BY Zenon DEF Kill
  <2>. QED BY <2>1, <2>2, <2>3, <2>4, Zenon
<1>4. \A u \in Terminals \ {t} : Holder(proc[u], granted) => Holder(proc'[u], granted')
  BY <1>0, <1>2
<1>5. NewestHeld' BY <1>0, <1>3, <1>4, <1>6 DEF NewestHeld
<1>. QED BY <1>2, <1>5

-----------------------------------------------------------------------------
(* The theorems *)

(* Every step keeps commands sound and the newest tokens held. *)
LEMMA TokensStep ==
  ASSUME TokensInv, [Next]_vars
  PROVE  AllSound' /\ NewestHeld' /\ granted' \in Grants /\ granted <= granted'
<1>0. granted \in Grants /\ granted \in Nat
  BY OnboardingAssumption DEF TokensInv, Typed, Grants
<1>1. ASSUME UNCHANGED <<proc, granted, file, lost>>
      PROVE  AllSound' /\ NewestHeld' /\ granted' \in Grants /\ granted <= granted'
  BY <1>0, <1>1 DEF TokensInv, AllSound, NewestHeld
<1>2. ASSUME NEW t \in Terminals, GoesOn(t)
      PROVE  AllSound' /\ NewestHeld' /\ granted' \in Grants /\ granted <= granted'
  BY <1>0, <1>2, GoingOnKeeps DEF GoesOn
<1>3. CASE UNCHANGED vars
  BY <1>1, <1>3 DEF vars, fleetVars, fileVars
<1>4. ASSUME NEW s \in Sites, NEW k \in Keys, Verify(s, k)
      PROVE  AllSound' /\ NewestHeld' /\ granted' \in Grants /\ granted <= granted'
  BY <1>1, <1>4 DEF Verify, fileVars
<1>5. ASSUME NEW t \in Terminals,
             Truncate(t) \/ Write(t) \/ SaveFails(t) \/ Kill(t)
      PROVE  AllSound' /\ NewestHeld' /\ granted' \in Grants /\ granted <= granted'
  <2>1. granted' = granted BY <1>5 DEF Truncate, Write, SaveFails, Kill, fleetVars
  <2>. QED BY <1>0, <1>5, <2>1, TruncateKeeps, WriteKeeps, EndedSaveKeeps
<1>6. ASSUME NEW t \in Terminals, Step(t)
      PROVE  AllSound' /\ NewestHeld' /\ granted' \in Grants /\ granted <= granted'
  <2>1. \/ Refresh(t) \/ Exchange(t) \/ RefreshLost(t) \/ ExchangeFails(t)
        \/ Truncate(t) \/ Write(t) \/ SaveFails(t)
        \/ ResolveKnown(t) \/ ResolveUnknown(t) \/ ResolveFails(t)
        \/ LoadKey(t) \/ CreateKey(t) \/ WriteKey(t) \/ Register(t)
        \/ PollKeyState(t) \/ TakeCode(t) \/ TakeError(t)
        \/ List(t) \/ CreateKeyFails(t) \/ Announce(t) \/ TimeOut(t)
        \/ RegisterPartner(t) \/ RegisterLost(t) \/ Shutdown(t) \/ RefreshRefused(t)
        \/ \E k \in Keys : Remove(t, k)
    BY <1>6 DEF Step
  <2>. QED BY <1>2, <1>5, <2>1, GrantKeeps, ResolveGoesOn, KeyGoesOn, PollGoesOn, LoginGoesOn,
              EndGoesOn
<1>7. ASSUME NEW t \in Terminals,
             \/ \E flag \in {"none", "force", "refresh"} : StartAuth(t, flag)
             \/ \E cmd \in KeyCommands, region \in Regions \cup {NoRegion},
                   site \in Sites \cup {None} : StartKeys(t, cmd, region, site)
             \/ Enter(t) \/ TunnelUp(t) \/ TunnelFails(t)
             \/ \E code \in BOOLEAN : Callback(t, code)
      PROVE  AllSound' /\ NewestHeld' /\ granted' \in Grants /\ granted <= granted'
  BY <1>2, <1>7, StartGoesOn, PollGoesOn, LoginGoesOn, EndGoesOn
<1>. QED BY <1>3, <1>4, <1>5, <1>6, <1>7 DEF Next

(* What a step makes of the token file and the counters. *)
Tallied ==
  /\ file' = file \/ \E t \in Terminals : Truncate(t) \/ Write(t)
  /\ expired' = expired \/ (expired' \in expired .. granted /\ granted' = granted)
  /\ commands' = commands \/ (commands < MaxCommands /\ commands' = commands + 1)
  /\ faults' = faults \/ (faults < MaxFaults /\ faults' = faults + 1)
  /\ lost' \in BOOLEAN /\ collided' \in BOOLEAN

(* Each action in turn. *)
LEMMA TallyStep ==
  ASSUME [Next]_vars, lost \in BOOLEAN, collided \in BOOLEAN
  PROVE  Tallied
<1>1. CASE UNCHANGED vars
  BY <1>1 DEF Tallied, vars, fleetVars, keyVars, fileVars
<1>2. ASSUME NEW t \in Terminals, NEW flag, StartAuth(t, flag) PROVE Tallied
  BY <1>2 DEF Tallied, StartAuth, TimePasses, keyVars, fileVars
<1>3. ASSUME NEW t \in Terminals, NEW cmd, NEW region, NEW site, StartKeys(t, cmd, region, site)
      PROVE  Tallied
  BY <1>3 DEF Tallied, StartKeys, TimePasses, keyVars, fileVars
<1>4. ASSUME NEW t \in Terminals, Truncate(t) PROVE Tallied
  BY <1>4 DEF Tallied, Truncate, fleetVars, keyVars
<1>5. ASSUME NEW t \in Terminals, Write(t) PROVE Tallied
  <2>1. lost' \in BOOLEAN BY <1>5 DEF Write
  <2>. QED BY <1>5, <2>1 DEF Tallied, Write, fleetVars, keyVars
<1>6. ASSUME NEW t \in Terminals,
             Refresh(t) \/ RefreshRefused(t) \/ RefreshLost(t) \/ SaveFails(t)
      PROVE  Tallied
  BY <1>6 DEF Tallied, Refresh, RefreshRefused, RefreshLost, SaveFails, Fault, fleetVars,
              keyVars, fileVars
<1>7. ASSUME NEW t \in Terminals,
             \/ ResolveKnown(t) \/ ResolveUnknown(t) \/ ResolveFails(t) \/ List(t) \/ LoadKey(t)
      PROVE  Tallied
  BY <1>7 DEF Tallied, ResolveKnown, ResolveUnknown, ResolveFails, List, LoadKey, Fault,
              fleetVars, keyVars, fileVars
<1>8. ASSUME NEW t \in Terminals,
             CreateKey(t) \/ WriteKey(t) \/ CreateKeyFails(t) \/ Register(t) \/ RegisterLost(t)
      PROVE  Tallied
  BY <1>8 DEF Tallied, CreateKey, WriteKey, CreateKeyFails, Register, RegisterLost, Fault,
              fleetVars, keyVars, fileVars
<1>9. ASSUME NEW t \in Terminals, PollKeyState(t) PROVE Tallied
  <2>1. faults' = faults \/ Fault BY <1>9 DEF PollKeyState
  <2>2. UNCHANGED <<fleetVars, keyVars, fileVars, commands>> BY <1>9 DEF PollKeyState
  <2>. QED BY <2>1, <2>2 DEF Tallied, Fault, fleetVars, keyVars, fileVars
<1>10. ASSUME NEW t \in Terminals,
              \/ Announce(t) \/ TakeCode(t) \/ TakeError(t) \/ TimeOut(t)
              \/ \E k \in Keys : Remove(t, k)
       PROVE  Tallied
  BY <1>10 DEF Tallied, Announce, TakeCode, TakeError, TimeOut, Remove, fleetVars, keyVars,
               fileVars
<1>11. ASSUME NEW t \in Terminals,
              \/ Exchange(t) \/ ExchangeFails(t) \/ RegisterPartner(t) \/ Shutdown(t)
              \/ Enter(t) \/ TunnelUp(t) \/ TunnelFails(t)
       PROVE  Tallied
  BY <1>11 DEF Tallied, Exchange, ExchangeFails, RegisterPartner, Shutdown, Enter, TunnelUp,
               TunnelFails, Fault, fleetVars, keyVars, fileVars
<1>12. ASSUME NEW t \in Terminals, Kill(t) \/ \E code \in BOOLEAN : Callback(t, code)
       PROVE  Tallied
  BY <1>12 DEF Tallied, Kill, Callback, fleetVars, keyVars, fileVars
<1>13. ASSUME NEW s, NEW k, Verify(s, k) PROVE Tallied
  BY <1>13 DEF Tallied, Verify, keyVars, fileVars
<1>14. ASSUME NEW t \in Terminals, Step(t) PROVE Tallied
  BY <1>14, <1>4, <1>5, <1>6, <1>7, <1>8, <1>9, <1>10, <1>11 DEF Step
<1>. QED BY <1>1, <1>2, <1>3, <1>11, <1>12, <1>13, <1>14 DEF Next

(* And the counters in their bounds. *)
LEMMA CountersStep ==
  ASSUME TokensInv, [Next]_vars
  PROVE  Counted'
<1>0. /\ Typed /\ Counted /\ granted \in Nat /\ granted' \in Nat /\ granted <= granted'
      /\ MaxCommands \in Nat /\ MaxFaults \in Nat
  <2>1. Typed /\ Counted BY DEF TokensInv
  <2>2. granted \in Grants BY <2>1 DEF Typed
  <2>3. granted' \in Grants /\ granted <= granted' BY TokensStep
  <2>4. Grants \subseteq Nat /\ MaxCommands \in Nat /\ MaxFaults \in Nat
    BY OnboardingAssumption DEF Grants
  <2>. QED BY <2>1, <2>2, <2>3, <2>4
<1>7. Tallied BY <1>0, TallyStep DEF Counted
<1>1. file'.tokens.grant <= granted'
  <2>1. file.tokens.grant \in Nat BY <1>0, OnboardingAssumption DEF Typed, Tokens, Grants
  <2>2. CASE file'.tokens = file.tokens BY <1>0, <2>1, <2>2 DEF Counted
  <2>3. ASSUME NEW t \in Terminals, Write(t), file'.tokens = proc[t].tokens
        PROVE  file'.tokens.grant <= granted'
    <3>1. Sound(proc[t], granted) BY DEF TokensInv, AllSound
    <3>2. granted' = granted BY <2>3 DEF Write, fleetVars
    <3>. QED BY <2>3, <3>1, <3>2 DEF Sound
  <2>4. \/ file'.tokens = file.tokens
        \/ \E t \in Terminals : Write(t) /\ file'.tokens = proc[t].tokens
    <3>1. file \in [state : FileStates, tokens : Tokens] BY <1>0 DEF Typed
    <3>2. \A t \in Terminals : Truncate(t) => file'.tokens = file.tokens
      BY <3>1 DEF Truncate
    <3>3. \A t \in Terminals :
            Write(t) => file'.tokens = file.tokens \/ file'.tokens = proc[t].tokens
      BY <3>1 DEF Write
    <3>4. file' = file \/ \E t \in Terminals : Truncate(t) \/ Write(t) BY <1>7 DEF Tallied
    <3>. QED BY <3>2, <3>3, <3>4
  <2>. QED BY <2>2, <2>3, <2>4
<1>2. expired' \in 0 .. granted'
  <2>1. expired' = expired \/ (expired' \in expired .. granted /\ granted' = granted)
    BY <1>7 DEF Tallied
  <2>2. expired \in 0 .. granted BY <1>0 DEF Counted
  <2>. QED BY <1>0, <2>1, <2>2
<1>3. commands' \in 0 .. MaxCommands
  <2>1. commands' = commands \/ (commands < MaxCommands /\ commands' = commands + 1)
    BY <1>7 DEF Tallied
  <2>2. commands \in 0 .. MaxCommands BY <1>0 DEF Counted
  <2>. QED BY <1>0, <2>1, <2>2
<1>4. faults' \in 0 .. MaxFaults
  <2>1. faults' = faults \/ (faults < MaxFaults /\ faults' = faults + 1) BY <1>7 DEF Tallied
  <2>2. faults \in 0 .. MaxFaults BY <1>0 DEF Counted
  <2>. QED BY <1>0, <2>1, <2>2
<1>5. lost' \in BOOLEAN BY <1>0, <1>7 DEF Counted, Tallied
<1>6. collided' \in BOOLEAN BY <1>0, <1>7 DEF Counted, Tallied
<1>. QED BY <1>1, <1>2, <1>3, <1>4, <1>5, <1>6 DEF Counted

(* A directory without tokens, or with those of an earlier login. *)
LEMMA TokensStart == Init => TokensInv
<1>. SUFFICES ASSUME Init PROVE TokensInv OBVIOUS
<1>1. Typed /\ KeysSafe BY StartSafe
<1>2. /\ granted \in 0 .. 1 /\ granted \in Grants /\ granted \in Nat
      /\ file = [state |-> IF granted = 0 THEN "absent" ELSE "written",
                 tokens |-> Granted(granted)]
  BY <1>1, OnboardingAssumption DEF Init, Typed, Grants
<1>3. Granted(granted).grant = granted BY DEF Granted
<1>4. AllSound BY <1>2, SoundIdle DEF AllSound, Init
<1>5. Counted
  <2>1. /\ expired = 0 /\ commands = 0 /\ faults = 0 /\ lost = FALSE /\ collided = FALSE
    BY DEF Init
  <2>2. file.tokens.grant = granted BY <1>2, <1>3
  <2>3. MaxCommands \in Nat /\ MaxFaults \in Nat BY OnboardingAssumption
  <2>4. granted \in Nat BY <1>2
  <2>5. expired \in 0 .. granted /\ file.tokens.grant <= granted BY <2>1, <2>2, <2>4
  <2>6. commands \in 0 .. MaxCommands /\ faults \in 0 .. MaxFaults BY <2>1, <2>3
  <2>7. lost \in BOOLEAN /\ collided \in BOOLEAN BY <2>1
  <2>. QED BY <2>5, <2>6, <2>7 DEF Counted
<1>6. NewestHeld BY <1>2, <1>3 DEF NewestHeld
<1>. QED BY <1>1, <1>4, <1>5, <1>6 DEF TokensInv

(* The invariant. *)
LEMMA TokensInvariant == Spec => []TokensInv
<1>1. TokensInv /\ [Next]_vars => TokensInv'
  BY StepSafe, TokensStep, CountersStep DEF TokensInv
<1>. QED BY <1>1, TokensStart, PTL DEF Spec

(* Every variable of the commands keeps its type, however they are           *)
(* interleaved, fail and are interrupted.                                    *)
THEOREM TypeCorrect == Spec => []TypeOK
<1>1. TokensInv => TypeOK
  BY DEF TokensInv, Typed, AllSound, Counted, Sound, Polling, TypeOK, At
<1>. QED BY <1>1, TokensInvariant, PTL

(* While no grant was lost on its way to the file the newest tokens are in   *)
(* it, or a command is about to put them there.                              *)
THEOREM NewestTokensStay == Spec => []NewestTokensKept
<1>1. TokensInv => NewestTokensKept
  BY DEF TokensInv, NewestHeld, Holder, NewestTokensKept
<1>. QED BY <1>1, TokensInvariant, PTL
=============================================================================
