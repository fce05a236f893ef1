----------------------------- MODULE Onboarding -----------------------------
(***************************************************************************)
(* The commands that connect an installation to Tesla's fleet API:         *)
(* "connect auth" and "connect keys list, add, remove"                     *)
(* (internal/cli/connect, internal/fleet), each run in a terminal and      *)
(* interrupted at will, over the token file and the key files they share;  *)
(* and, external, the fleet API with the keys each site's gateway knows,   *)
(* the tunnel and the browser of the OAuth login.                          *)
(*                                                                         *)
(* A token pair is the number of the grant it came from; a site's DIN is   *)
(* the site.  Of the regions, "home" is the one of the account.            *)
(***************************************************************************)
EXTENDS Naturals, FiniteSets

CONSTANTS
  Terminals,      \* where commands are run
  Accounts,       \* the sets of energy sites an account can have
  Polls,          \* attempts of each of the two rounds of pollKeyState
  MaxCommands,    \* bound: commands run
  MaxGrants,      \* bound: token pairs granted
  MaxKeys,        \* bound: RSA keys generated
  MaxFaults,      \* bound: requests and saves that fail
  MaxCallbacks    \* bound: callbacks of one login

None == 0
Sites == UNION Accounts
ASSUME OnboardingAssumption ==
  /\ None \notin Sites /\ {} \notin Accounts /\ Terminals \subseteq Nat
  /\ Polls \in [{"first", "second"} -> Nat \ {0}]
  /\ {MaxCommands, MaxKeys, MaxFaults, MaxCallbacks} \subseteq Nat
  /\ MaxGrants \in Nat \ {0}

VARIABLES
  account,     \* the sites of the account
  granted,     \* the newest grant: its refresh token is the one still good
  expired,     \* the access tokens of the grants up to this are past IsExpired
  registry,    \* each site's authorized clients: "none", "pending", "verified"
  file,        \* the token file
  keyFile,     \* the key files
  generated,   \* RSA keys generated so far
  proc,        \* the command of each terminal
  commands, faults,
  lost,        \* history: a grant that never reached the file, or was
               \* overwritten by a command that had loaded an earlier one
  collided     \* history: two commands generated a key for one file at once

fleetVars == <<account, granted, expired, registry>>
keyVars == <<keyFile, generated, collided>>
fileVars == <<file, lost>>
vars == <<fleetVars, keyVars, fileVars, proc, commands, faults>>

Grants == 0 .. MaxGrants
Keys == 0 .. MaxKeys
Foreign == 0                  \* a key of another installation
KeyPaths == {"rsa", "ec"}
Garbled == "garbled"          \* created or truncated, and not written
FileStates == {"absent", Garbled, "written"}
Regions == {"home", "away"}
NoRegion == "unknown"

Tokens == [grant : Grants, region : Regions \cup {NoRegion},
           site : Sites \cup {None}, din : Sites \cup {None}]
Granted(g) == [grant |-> g, region |-> NoRegion, site |-> None, din |-> None]

KeyCommands == {"list", "add", "remove"}
Local == {"refresh", "resolve", "saving", "writing", "list", "key", "generate",
          "keywriting", "register", "first", "second", "remove", "waiting",
          "exchange", "partner", "shutdown", "ready"}
Places == Local \cup {"idle", "tunnel", "prompt"}

(* The command of a terminal: its flags, and its locals.  then is where it   *)
(* goes on after a save, loaded the grant of the token file when it was      *)
(* read, left the attempts left to poll, codes and errs the sends to codeCh  *)
(* and errCh not yet received.                                               *)
Command ==
  [cmd : KeyCommands \cup {"none", "auth"}, at : Places,
   flag : {"none", "force", "refresh"}, region : Regions \cup {NoRegion},
   site : Sites \cup {None}, din : Sites \cup {None}, tokens : Tokens,
   loaded : Grants, then : {"idle", "resolve", "act", "partner"}, key : Keys,
   left : Nat, codes : Nat, errs : Nat, callbacks : 0 .. MaxCallbacks]

Idle == [cmd |-> "none", at |-> "idle", flag |-> "none", region |-> NoRegion,
         site |-> None, din |-> None, tokens |-> Granted(0), loaded |-> 0,
         then |-> "idle", key |-> Foreign, left |-> 0, codes |-> 0, errs |-> 0,
         callbacks |-> 0]

(* A directory without tokens, or with those of an earlier login. *)
Init ==
  /\ account \in Accounts
  /\ granted \in 0 .. 1 /\ expired = 0
  /\ registry = [s \in Sites |-> [k \in Keys |-> IF k = Foreign THEN "verified"
                                                               ELSE "none"]]
  /\ file = [state |-> IF granted = 0 THEN "absent" ELSE "written",
             tokens |-> Granted(granted)]
  /\ keyFile = [p \in KeyPaths |->
       [state |-> IF granted = 1 /\ p = "ec" THEN "written" ELSE "absent", key |-> Foreign]]
  /\ generated = 0
  /\ proc = [t \in Terminals |-> Idle]
  /\ commands = 0 /\ faults = 0 /\ lost = FALSE /\ collided = FALSE

Fault == faults < MaxFaults /\ faults' = faults + 1
At(t, place) == proc[t].at = place
Becomes(t, command) == proc' = [proc EXCEPT ![t] = command]
Goes(t, place) == Becomes(t, [proc[t] EXCEPT !.at = place])

(* All that a login still has from here on. *)
Login(t, place) ==
  [Idle EXCEPT !.cmd = "auth", !.at = place, !.codes = proc[t].codes,
               !.errs = proc[t].errs, !.callbacks = proc[t].callbacks]

(* A command returns; the deferred Shutdown of a login waits for handlers.   *)
Returns(t) ==
  IF proc[t].at \in {"tunnel", "waiting", "exchange", "partner"}
    THEN Becomes(t, Login(t, "shutdown")) ELSE Becomes(t, Idle)

-----------------------------------------------------------------------------
(* Starting a command: LoadTokens and what is made of them.  The terminals   *)
(* are alike: a command is run in the first free one.                        *)

Free(t) == At(t, "idle") /\ \A u \in Terminals : At(u, "idle") => t <= u

(* Only here does it matter how much time has passed. *)
TimePasses == expired' \in expired .. granted

IsExpired(tokens) == tokens.grant <= expired'

NewLogin(flag) == [Idle EXCEPT !.cmd = "auth", !.flag = flag, !.at = "key"]
NewRefresh(flag) ==
  [Idle EXCEPT !.cmd = "auth", !.flag = flag, !.at = "refresh", !.tokens = file.tokens,
               !.loaded = file.tokens.grant]

(* A token file that cannot be read is none. *)
StartAuth(t, flag) ==
  /\ Free(t) /\ commands < MaxCommands /\ commands' = commands + 1
  /\ TimePasses
  /\ CASE file.state # "written" \/ flag = "force" -> Becomes(t, NewLogin(flag))
       [] /\ file.state = "written" /\ flag # "force"
          /\ IsExpired(file.tokens) \/ flag = "refresh" -> Becomes(t, NewRefresh(flag))
       [] OTHER -> Becomes(t, Idle)                   \* "Tokens valid"
  /\ UNCHANGED <<account, granted, registry, keyVars, fileVars, faults>>

(* loadTokens; the flags go to resolveClient. *)
StartKeys(t, cmd, region, site) ==
  /\ Free(t) /\ commands < MaxCommands /\ commands' = commands + 1
  /\ TimePasses
  /\ file.state = "written"                       \* otherwise it ends at once
  /\ site \in account \cup {None}
  /\ region = NoRegion \/ site = None             \* bound: one flag at a time
  /\ Becomes(t, [Idle EXCEPT !.cmd = cmd, !.region = region, !.site = site,
                    !.tokens = file.tokens, !.loaded = file.tokens.grant,
                    !.at = IF IsExpired(file.tokens) THEN "refresh" ELSE "resolve",
                    !.then = "resolve"])
  /\ UNCHANGED <<account, granted, registry, keyVars, fileVars, faults>>

-----------------------------------------------------------------------------
(* Tokens *)

(* What follows a failed refresh: "auth" falls back to a login. *)
RefreshFailed(t) ==
  IF proc[t].cmd = "auth" /\ proc[t].flag # "refresh"
    THEN Becomes(t, Login(t, "key")) ELSE Returns(t)

RefreshUnsaved(t) ==
  /\ At(t, "refresh")
  /\ proc[t].tokens.grant = granted /\ granted < MaxGrants
  /\ granted' = granted + 1
  /\ Becomes(t, [proc[t] EXCEPT !.tokens = Granted(granted'), !.at = proc[t].then])
  /\ UNCHANGED <<account, expired, registry, keyVars, fileVars, commands, faults>>

(* RefreshTokens, answered: the new pair takes nothing along from the old    *)
(* one but the client's credentials.                                         *)
Refresh(t) ==
  /\ At(t, "refresh")
  /\ proc[t].tokens.grant = granted /\ granted < MaxGrants
  /\ granted' = granted + 1
  /\ Becomes(t, [proc[t] EXCEPT !.tokens = Granted(granted'), !.at = "saving"])
  /\ UNCHANGED <<account, expired, registry, keyVars, fileVars, commands, faults>>

(* An older refresh token is refused. *)
RefreshRefused(t) ==
  /\ At(t, "refresh")
  /\ proc[t].tokens.grant # granted \/ granted = MaxGrants
  /\ RefreshFailed(t)
  /\ UNCHANGED <<fleetVars, keyVars, fileVars, commands, faults>>

(* The request is lost, or the answer after the tokens were replaced. *)
RefreshLost(t) ==
  /\ At(t, "refresh") /\ Fault
  /\ RefreshFailed(t)
  /\ \/ UNCHANGED <<granted, lost>>
     \/ /\ proc[t].tokens.grant = granted /\ granted < MaxGrants
        /\ granted' = granted + 1 /\ lost' = TRUE
  /\ UNCHANGED <<account, expired, registry, keyVars, file, commands>>

(* The command's own work, for which it needs no more than this. *)
Acting(t, site, din) ==
  [Idle EXCEPT !.cmd = proc[t].cmd, !.site = site, !.din = din,
               !.at = CASE proc[t].cmd = "add" -> "key"
                        [] proc[t].cmd = "remove" -> "remove" [] OTHER -> "list"]

(* Where a command goes on after a save. *)
Saved(t) ==
  CASE proc[t].then = "idle" -> Idle
    [] proc[t].then = "act" -> Acting(t, proc[t].site, proc[t].din)
    [] proc[t].then = "partner" -> Login(t, "partner")
    [] proc[t].then = "resolve" ->
         [proc[t] EXCEPT !.at = "resolve", !.loaded = proc[t].tokens.grant]

(* SaveTokens: os.WriteFile truncates, then writes. *)
Truncate(t) ==
  /\ At(t, "saving")
  /\ file' = [file EXCEPT !.state = Garbled]
  /\ lost' = (lost \/ file.state = Garbled
                   \/ (file.state = "written" /\ file.tokens.grant > proc[t].loaded))
  /\ Goes(t, "writing")
  /\ UNCHANGED <<fleetVars, keyVars, commands, faults>>

Write(t) ==
  /\ At(t, "writing")
  /\ \/ /\ file' = [state |-> "written", tokens |-> proc[t].tokens]
        /\ lost' = (lost \/ file.state # Garbled)
     \/ /\ file.state = "written"           \* over the longer text of another
        /\ file' = [file EXCEPT !.state = Garbled] /\ lost' = TRUE
  /\ Becomes(t, Saved(t))
  /\ UNCHANGED <<fleetVars, keyVars, commands, faults>>

Unsaved(t) == proc[t].tokens.grant # proc[t].loaded

(* The file cannot be opened: a warning. *)
SaveFails(t) ==
  /\ At(t, "saving") /\ Fault
  /\ lost' = (lost \/ Unsaved(t))
  /\ Becomes(t, Saved(t))
  /\ UNCHANGED <<fleetVars, keyVars, file, commands>>

-----------------------------------------------------------------------------
(* resolveClient *)

Region(t) == IF proc[t].region # NoRegion THEN proc[t].region
                                          ELSE proc[t].tokens.region
Site(t) == IF proc[t].site # None THEN proc[t].site ELSE proc[t].tokens.site
GetEnergySites(region) == IF region = "home" THEN account ELSE {}

(* persistSiteInfo, on the way to the command's own work. *)
Persisting(t, region, site, din) ==
  LET tokens == [proc[t].tokens EXCEPT !.site = site, !.din = din,
                   !.region = IF region = NoRegion THEN @ ELSE region]
  IN  [proc[t] EXCEPT !.site = site, !.din = din, !.tokens = tokens,
                      !.at = "saving", !.then = "act"]

(* The region is known: the sites are only asked for when something is       *)
(* missing, and only taken from the answer when there is one.                *)
ResolveKnown(t) ==
  /\ At(t, "resolve") /\ Region(t) # NoRegion
  /\ LET site == Site(t)
         din == proc[t].tokens.din
         sites == GetEnergySites(Region(t))
     IN  IF None \in {site, din} /\ Cardinality(sites) = 1
           THEN \E s \in sites :
                  Becomes(t, Persisting(t, NoRegion, s, s))
           ELSE Becomes(t, Acting(t, site, din))
  /\ UNCHANGED <<fleetVars, keyVars, fileVars, commands, faults>>

(* The region is looked for: the first with sites. *)
ResolveUnknown(t) ==
  /\ At(t, "resolve") /\ Region(t) = NoRegion
  /\ IF Site(t) # None
       THEN Becomes(t, Persisting(t, "home", Site(t), proc[t].tokens.din))
       ELSE IF Cardinality(account) = 1
              THEN \E s \in account : Becomes(t, Persisting(t, "home", s, s))
              ELSE Returns(t)                 \* "multiple sites found"
  /\ UNCHANGED <<fleetVars, keyVars, fileVars, commands, faults>>

ResolveFails(t) ==
  /\ At(t, "resolve")
  /\ Region(t) = NoRegion \/ None \in {Site(t), proc[t].tokens.din}
  /\ Fault /\ Returns(t)
  /\ UNCHANGED <<fleetVars, keyVars, fileVars, commands>>

-----------------------------------------------------------------------------
(* keys list, add and remove *)

(* showKeys; the fleet may fail, and the command ends either way. *)
List(t) ==
  /\ At(t, "list") /\ Returns(t)
  /\ UNCHANGED <<fleetVars, keyVars, fileVars, commands, faults>>

KeyPath(t) == IF proc[t].cmd = "auth" THEN "ec" ELSE "rsa"

(* What a command does once it has its key; a login starts its server, and   *)
(* then the tunnel.                                                          *)
WithKey(t, k) ==
  IF proc[t].cmd = "auth" THEN Login(t, "tunnel")
                          ELSE [proc[t] EXCEPT !.key = k, !.at = "register"]

Generating(t, path) == proc[t].at \in {"generate", "keywriting"} /\ KeyPath(t) = path

LoadKeyNever(t) ==
  LET path == KeyPath(t) IN
  /\ At(t, "key") /\ Goes(t, "generate")
  /\ collided' = (collided \/ \E u \in Terminals \ {t} : Generating(u, path))
  /\ UNCHANGED <<fleetVars, keyFile, generated, fileVars, commands, faults>>

(* GenerateRSAKey and GenerateECKey: a key that is there is used. *)
LoadKey(t) ==
  LET path == KeyPath(t) IN
  /\ At(t, "key")
  /\ CASE keyFile[path].state = "absent" -> Goes(t, "generate")
       [] keyFile[path].state = Garbled -> Returns(t)
       [] keyFile[path].state = "written" ->
            Becomes(t, WithKey(t, keyFile[path].key))
  /\ collided' = (collided \/ (/\ keyFile[path].state = "absent"
                              /\ \E u \in Terminals \ {t} : Generating(u, path)))
  /\ UNCHANGED <<fleetVars, keyFile, generated, fileVars, commands, faults>>

(* The key is made, and its file opened for it. *)
CreateKey(t) ==
  /\ At(t, "generate")
  /\ IF KeyPath(t) = "ec" THEN /\ UNCHANGED generated
                                /\ Goes(t, "keywriting")
     ELSE /\ generated < MaxKeys /\ generated' = generated + 1
          /\ Becomes(t, [proc[t] EXCEPT !.at = "keywriting", !.key = generated'])
  /\ keyFile' = [keyFile EXCEPT ![KeyPath(t)].state = Garbled]
  /\ UNCHANGED <<fleetVars, fileVars, collided, commands, faults>>

WriteKey(t) ==
  /\ At(t, "keywriting")
  /\ keyFile' = [keyFile EXCEPT ![KeyPath(t)] = [state |-> "written", key |-> proc[t].key]]
  /\ Becomes(t, WithKey(t, proc[t].key))
  /\ UNCHANGED <<fleetVars, generated, fileVars, collided, commands, faults>>

(* The file cannot be opened. *)
CreateKeyFails(t) ==
  /\ At(t, "generate")
  /\ Fault \/ (generated = MaxKeys /\ UNCHANGED faults)
  /\ Returns(t)
  /\ UNCHANGED <<fleetVars, keyVars, fileVars, commands>>

Verified(t) == Becomes(t, [proc[t] EXCEPT !.at = "ready", !.left = 0])

(* The states an answer to a registration can carry: some keys are verified  *)
(* at once.                                                                  *)
KeyState(site, key) ==
  IF registry[site][key] = "none" THEN {"pending", "verified"} ELSE {registry[site][key]}

(* RegisterKey: the state in the answer decides whether to poll. *)
Register(t) ==
  LET site == proc[t].site
      key == proc[t].key
  IN
  /\ At(t, "register")
  /\ IF site \notin account THEN Returns(t) /\ UNCHANGED registry
     ELSE \E state \in KeyState(site, key) :
            /\ registry' = [registry EXCEPT ![site][key] = state]
            /\ IF state = "verified" THEN Verified(t)
               ELSE Becomes(t, [proc[t] EXCEPT !.at = "first", !.left = Polls["first"]])
  /\ UNCHANGED <<account, granted, expired, keyVars, fileVars, commands, faults>>

RegisterLost(t) ==
  /\ At(t, "register") /\ Fault /\ Returns(t)
  /\ \/ UNCHANGED registry
     \/ /\ proc[t].site \in account /\ registry[proc[t].site][proc[t].key] = "none"
        /\ registry' = [registry EXCEPT ![proc[t].site][proc[t].key] = "pending"]
  /\ UNCHANGED <<account, granted, expired, keyVars, fileVars, commands>>

ListAuthorizedClients(t) == registry[proc[t].site][Foreign]    \* the first's
GetClientStateByKey(t) == registry[proc[t].site][proc[t].key]

OneMorePoll(t) == proc[t].left > 0
MorePolls(t) == proc[t].left > 1

(* pollKeyState: a failed poll counts as a key that is not listed.  After    *)
(* the first round the user is asked to toggle a breaker.                    *)
PollKeyState(t) ==
  /\ proc[t].at \in {"first", "second"}
  /\ \E state \in {GetClientStateByKey(t), "none"} :
       /\ IF state = GetClientStateByKey(t) THEN UNCHANGED faults ELSE Fault
       /\ CASE state = "verified" -> Verified(t)
            [] state # "verified" /\ MorePolls(t) ->
                 Becomes(t, [proc[t] EXCEPT !.left = @ - 1])
            [] state # "verified" /\ ~MorePolls(t) /\ At(t, "first") ->
                 Becomes(t, [proc[t] EXCEPT !.at = "prompt", !.left = 0])
            [] OTHER -> Returns(t)                      \* "Registration incomplete"
  /\ UNCHANGED <<fleetVars, keyVars, fileVars, commands>>

(* "Press Enter after toggling the breaker". *)
Enter(t) ==
  /\ At(t, "prompt")
  /\ Becomes(t, [proc[t] EXCEPT !.at = "second", !.left = Polls["second"]])
  /\ UNCHANGED <<fleetVars, keyVars, fileVars, commands, faults>>

(* "Registration complete", with the configuration to add. *)
Announce(t) ==
  /\ At(t, "ready") /\ Returns(t)
  /\ UNCHANGED <<fleetVars, keyVars, fileVars, commands, faults>>

(* keys remove: signed with the key of the file for the DIN; the gateway     *)
(* takes it from a verified key only.                                        *)
Remove(t, target) ==
  LET site == proc[t].site
      signer == keyFile["rsa"]
  IN
  /\ At(t, "remove") /\ Returns(t)
  /\ IF /\ proc[t].din # None /\ signer.state = "written"
        /\ site \in account /\ proc[t].din = site
        /\ registry[site][signer.key] = "verified"
       THEN registry' = [registry EXCEPT ![site][target] = "none"]
       ELSE UNCHANGED registry
  /\ UNCHANGED <<account, granted, expired, keyVars, fileVars, commands, faults>>

-----------------------------------------------------------------------------
(* The OAuth login *)

(* The tunnel and the user's entries before the browser is opened. *)
TunnelUp(t) ==
  /\ At(t, "tunnel") /\ Goes(t, "waiting")
  /\ UNCHANGED <<fleetVars, keyVars, fileVars, commands, faults>>

TunnelFails(t) ==
  /\ At(t, "tunnel") /\ Returns(t)
  /\ UNCHANGED <<fleetVars, keyVars, fileVars, commands, faults>>

Serving(t) ==
  \/ proc[t].at \in {"waiting", "exchange", "partner"}
  \/ proc[t].at \in {"saving", "writing"} /\ proc[t].then = "partner"

(* The browser reaches /callback, with a code or without. *)
Callback(t, code) ==
  /\ Serving(t) /\ proc[t].callbacks < MaxCallbacks
  /\ Becomes(t, [proc[t] EXCEPT !.callbacks = @ + 1,
                                !.codes = IF code THEN @ + 1 ELSE @,
                                !.errs = IF code THEN @ ELSE @ + 1])
  /\ UNCHANGED <<fleetVars, keyVars, fileVars, commands, faults>>

(* The select: of what is ready, any. *)
TakeCode(t) ==
  /\ At(t, "waiting") /\ proc[t].codes > 0
  /\ Becomes(t, [proc[t] EXCEPT !.codes = @ - 1, !.at = "exchange"])
  /\ UNCHANGED <<fleetVars, keyVars, fileVars, commands, faults>>

TakeError(t) ==
  /\ At(t, "waiting") /\ proc[t].errs > 0
  /\ Becomes(t, [proc[t] EXCEPT !.errs = @ - 1, !.at = "shutdown"])
  /\ UNCHANGED <<fleetVars, keyVars, fileVars, commands, faults>>

TimeOut(t) ==
  /\ At(t, "waiting") /\ Returns(t)
  /\ UNCHANGED <<fleetVars, keyVars, fileVars, commands, faults>>

(* ExchangeCode. *)
Exchange(t) ==
  /\ At(t, "exchange") /\ granted < MaxGrants
  /\ granted' = granted + 1
  /\ Becomes(t, [proc[t] EXCEPT !.tokens = Granted(granted'), !.loaded = granted,
                                !.at = "saving", !.then = "partner"])
  /\ UNCHANGED <<account, expired, registry, keyVars, fileVars, commands, faults>>

ExchangeFails(t) ==
  /\ At(t, "exchange") /\ Returns(t)
  /\ \/ Fault /\ UNCHANGED <<granted, lost>>
     \/ Fault /\ granted < MaxGrants /\ granted' = granted + 1 /\ lost' = TRUE
     \/ granted = MaxGrants /\ UNCHANGED <<granted, lost, faults>>
  /\ UNCHANGED <<account, expired, registry, keyVars, file, commands>>

(* PartnerToken and RegisterPartner; the command ends with or without them. *)
RegisterPartner(t) ==
  /\ At(t, "partner") /\ Returns(t)
  /\ UNCHANGED <<fleetVars, keyVars, fileVars, commands, faults>>

(* srv.Shutdown(context.Background()): a handler that cannot send keeps it   *)
(* waiting.                                                                  *)
Unbuffered == 0
Capacity == 1
Shutdown(t) ==
  /\ At(t, "shutdown") /\ proc[t].codes <= Capacity /\ proc[t].errs <= Capacity
  /\ Becomes(t, Idle)
  /\ UNCHANGED <<fleetVars, keyVars, fileVars, commands, faults>>

-----------------------------------------------------------------------------
(* The user and the world *)

(* Control-C, or the process dies. *)
Kill(t) ==
  /\ ~At(t, "idle")
  /\ Becomes(t, Idle)
  /\ lost' = (lost \/ At(t, "writing") \/ (At(t, "saving") /\ Unsaved(t)))
  /\ UNCHANGED <<fleetVars, keyVars, file, commands, faults>>

(* The breaker is toggled, or the cloud verifies the key. *)
Verify(site, key) ==
  /\ registry[site][key] = "pending"
  /\ registry' = [registry EXCEPT ![site][key] = "verified"]
  /\ UNCHANGED <<account, granted, expired, keyVars, fileVars, proc, commands, faults>>

(* What a command does without its user: the fleet client has a timeout, and *)
(* so has the select.                                                        *)
Step(t) ==
  \/ Refresh(t) \/ RefreshRefused(t) \/ RefreshLost(t)
  \/ Truncate(t) \/ Write(t) \/ SaveFails(t)
  \/ ResolveKnown(t) \/ ResolveUnknown(t) \/ ResolveFails(t)
  \/ List(t) \/ LoadKey(t) \/ CreateKey(t) \/ WriteKey(t) \/ CreateKeyFails(t)
  \/ Register(t) \/ RegisterLost(t) \/ PollKeyState(t) \/ Announce(t)
  \/ \E k \in Keys : Remove(t, k)
  \/ TakeCode(t) \/ TakeError(t) \/ TimeOut(t) \/ Exchange(t) \/ ExchangeFails(t)
  \/ RegisterPartner(t) \/ Shutdown(t)

Next ==
  \/ \E t \in Terminals :
       \/ \E flag \in {"none", "force", "refresh"} : StartAuth(t, flag)
       \/ \E cmd \in KeyCommands, region \in Regions \cup {NoRegion},
             site \in Sites \cup {None} : StartKeys(t, cmd, region, site)
       \/ Step(t)
       \/ Enter(t) \/ TunnelUp(t) \/ TunnelFails(t)
       \/ \E code \in BOOLEAN : Callback(t, code)
       \/ Kill(t)
  \/ \E s \in Sites, k \in Keys : Verify(s, k)

Spec == Init /\ [][Next]_vars
FairSpec == Spec /\ \A t \in Terminals : WF_vars(Step(t))

-----------------------------------------------------------------------------
(* Types; a command that is not running keeps nothing, and only polls that   *)
(* are left are counted.                                                     *)
TypeOK ==
  /\ account \in Accounts /\ granted \in Grants /\ expired \in 0 .. granted
  /\ registry \in [Sites -> [Keys -> {"none", "pending", "verified"}]]
  /\ file \in [state : FileStates, tokens : Tokens]
  /\ file.tokens.grant <= granted
  /\ keyFile \in [KeyPaths -> [state : FileStates, key : Keys]]
  /\ generated \in 0 .. MaxKeys
  /\ proc \in [Terminals -> Command]
  /\ \A t \in Terminals :
       /\ proc[t].tokens.grant <= granted
       /\ At(t, "idle") => proc[t] = Idle
       /\ proc[t].at \in {"first", "second"} <=> proc[t].left > 0
       /\ proc[t].codes + proc[t].errs <= proc[t].callbacks
  /\ commands \in 0 .. MaxCommands /\ faults \in 0 .. MaxFaults
  /\ {lost, collided} \subseteq BOOLEAN

(* Whenever no save is under way, the token file holds the newest refresh    *)
(* token, without which nothing works until the next login - through         *)
(* refreshes and the saves of persistSiteInfo, in any order of commands.     *)
(* What can come between: an answer or a save that is lost, an interruption  *)
(* before the save, and a command that loaded its tokens before another's    *)
(* save and then saves its own.                                              *)
NewestTokensKept ==
  \/ lost \/ granted = 0
  \/ file.state = "written" /\ file.tokens.grant = granted
  \/ \E t \in Terminals : proc[t].at \in {"saving", "writing"}
                           /\ proc[t].tokens.grant = granted

(* No key is registered with a gateway whose private half is lost, wherever  *)
(* the command was interrupted: GenerateRSAKey writes it first, and uses     *)
(* what it finds.  Two commands that generate the file at once do lose one.  *)
RegisteredKeyKept ==
  collided \/ \A s \in Sites, k \in Keys \ {Foreign} :
    registry[s][k] # "none" => keyFile["rsa"] = [state |-> "written", key |-> k]

(* "Key is VERIFIED and ready" is said of a key that is verified for the     *)
(* site and is the one in the file the printed configuration names, however  *)
(* many other keys the site has.                                             *)
AnnouncedKeyReady ==
  [][\A t \in Terminals :
       ~At(t, "ready") /\ proc'[t].at = "ready" =>
         /\ registry'[proc[t].site][proc[t].key] = "verified"
         /\ collided \/ keyFile["rsa"] = [state |-> "written", key |-> proc[t].key]]_vars

(* A command ends, unless it waits for its user or the tunnel - or for a     *)
(* callback handler, which takes a second callback: the channels have room   *)
(* for one that comes when nobody listens any more.                          *)
CommandsEnd ==
  \A t \in Terminals :
    \/ []<>At(t, "idle")
    \/ <>[](proc[t].at \in {"tunnel", "prompt"})
    \/ <>[](At(t, "shutdown") /\ proc[t].callbacks >= 2)
=============================================================================
