--------------------------- MODULE SessionTokens ---------------------------
(***************************************************************************)
(* The signed-in session of one desktop (apps/desktop/src-tauri/src/       *)
(* sync.rs) and the refresh tokens the relay keeps for it (auth.rs).       *)
(*                                                                         *)
(* The session is one record, kept twice: `store` on disk (sealed file and *)
(* keychain entry, written under session_store_lock) and `cache` in the    *)
(* process.  The drain thread rotates the refresh token in it; the user's  *)
(* commands read it, talk to the relay and write it back.  Two ways of     *)
(* writing exist: store_session writes the whole record somebody loaded    *)
(* earlier, update_session re-reads the store under the lock and merges    *)
(* its own fields.  Both publish to the cache afterwards, in a step of its *)
(* own.                                                                    *)
(***************************************************************************)
EXTENDS Naturals, Sequences

CONSTANTS
    Commands,       \* the commands the user may issue, a subset of AllCommands
    MaxCalls,       \* bound: how many commands are issued
    MaxTokens,      \* bound: refresh tokens the relay issues
    MaxRoster,      \* bound: roster counter on the relay
    MaxLosses,      \* bound: refresh requests or answers that are lost
    MaxCrashes      \* bound: restarts of the app

AllCommands == {"approve", "disable", "enable", "password", "signin", "signout"}

ASSUME CommandsAssumption == Commands \subseteq AllCommands
ASSUME BoundsAssumption ==
    /\ MaxCalls \in Nat /\ MaxTokens \in Nat \ {0} /\ MaxRoster \in Nat \ {0}
    /\ MaxLosses \in Nat /\ MaxCrashes \in Nat

Actors == {"drain"} \cup Commands

Tokens == [family : Nat, state : {"live", "spent", "revoked"}]

(* refresh = 0: no refresh token.                                          *)
Sessions == [signedIn : BOOLEAN, refresh : Nat, roster : Nat, enabled : BOOLEAN]
SignedOut == [signedIn |-> FALSE, refresh |-> 0, roster |-> 0, enabled |-> FALSE]

Places == {"off", "run", "ask", "rejected", "join", "spawn", "fetch", "put", "merge",
           "write", "publish", "clear", "forget", "reply"}

VARIABLES
    tokens,     \* relay: refresh_tokens, in the order they were issued
    roster,     \* relay: counter of the signed roster
    store,      \* desktop: the session on disk
    cache,      \* desktop: the session in the credential cache
    pc,         \* where each actor is
    mem,        \* the session each actor holds
    goto,       \* where each actor goes once it has published
    handle,     \* the runtime state holds the drain's handle
    stopping,   \* the drain's shutdown flag
    calls, losses, crashes

relayVars == <<tokens, roster>>
counters == <<calls, losses, crashes>>
vars == <<tokens, roster, store, cache, pc, mem, goto, handle, stopping, calls, losses,
          crashes>>

TypeOK ==
    /\ tokens \in Seq(Tokens) /\ Len(tokens) <= MaxTokens
    /\ roster \in 1 .. MaxRoster
    /\ store \in Sessions /\ cache \in Sessions
    /\ pc \in [Actors -> Places]
    /\ mem \in [Actors -> Sessions]
    /\ goto \in [Actors -> Places]
    /\ handle \in BOOLEAN /\ stopping \in BOOLEAN
    /\ calls \in 0 .. MaxCalls /\ losses \in 0 .. MaxLosses /\ crashes \in 0 .. MaxCrashes
    /\ \A s \in {store, cache} \cup {mem[a] : a \in Actors} : s.refresh \in 0 .. Len(tokens)

(* A signed-in desktop just after its start: the drain runs iff sync is on.*)
Init ==
    /\ tokens = <<[family |-> 1, state |-> "live"]>>
    /\ roster = 1
    /\ \E on \in BOOLEAN :
          /\ store = [signedIn |-> TRUE, refresh |-> 1, roster |-> 1, enabled |-> on]
          /\ cache = store
          /\ handle = on
          /\ pc = [a \in Actors |-> IF a = "drain" /\ on THEN "run" ELSE "off"]
    /\ mem = [a \in Actors |-> SignedOut]
    /\ goto = [a \in Actors |-> "off"]
    /\ stopping = FALSE
    /\ calls = 0 /\ losses = 0 /\ crashes = 0

-----------------------------------------------------------------------------
(* Moves of one actor.                                                     *)
At(a, place) == pc[a] = place
Go(a, place) == pc' = [pc EXCEPT ![a] = place]
Hold(a, s) == mem' = [mem EXCEPT ![a] = s]

(* store_session: the whole record the actor holds, first to disk, ...     *)
WriteStore(a) ==
    /\ At(a, "write")
    /\ store' = mem[a]
    /\ Go(a, "publish")
    /\ UNCHANGED <<relayVars, cache, mem, goto, handle, stopping, counters>>

(* ... then to the cache.                                                  *)
Publish(a) ==
    /\ At(a, "publish")
    /\ cache' = mem[a]
    /\ Go(a, goto[a])
    /\ UNCHANGED <<relayVars, store, mem, goto, handle, stopping, counters>>

(* Mutant: the record loaded at the command's entry is written back.       *)
MergedFromEntry(a) == IF a = "disable" THEN [store EXCEPT !.enabled = FALSE] ELSE mem[a]

(* update_session: under the lock, the fields the command owns are merged  *)
(* into the record now on disk; without one the command fails.             *)
Merged(a) == IF a = "disable" THEN [store EXCEPT !.enabled = FALSE]
                              ELSE [store EXCEPT !.roster = mem[a].roster]

UpdateStore(a) ==
    /\ At(a, "merge")
    /\ \/ /\ store.signedIn
          /\ store' = Merged(a)
          /\ Hold(a, Merged(a))
          /\ Go(a, "publish")
       \/ /\ ~ store.signedIn
          /\ Go(a, "off")
          /\ UNCHANGED <<store, mem>>
    /\ UNCHANGED <<relayVars, cache, goto, handle, stopping, counters>>

-----------------------------------------------------------------------------
(* refresh_access_token, called by the drain and by the password command.  *)
Refreshers == {"drain", "password"} \cap Actors

(* Where a refresh that failed for now leaves its caller.                  *)
Later(a) == IF a = "drain" THEN "run" ELSE "off"

(* The access token is stale or was refused.                               *)
RefreshLoad(a) ==
    /\ At(a, IF a = "drain" THEN "run" ELSE "reply")
    /\ Len(tokens) < MaxTokens
    /\ Hold(a, cache)
    /\ Go(a, IF cache.signedIn /\ cache.refresh # 0 THEN "ask" ELSE "rejected")
    /\ UNCHANGED <<relayVars, store, cache, goto, handle, stopping, counters>>

Issue(family, ts) == Append(ts, [family |-> family, state |-> "live"])

(* Mutant: the presented token stays live.                                 *)
RotatedTwice(t) ==
    IF tokens[t].state = "live" THEN Issue(tokens[t].family, tokens) ELSE tokens

(* POST /auth/refresh for token t, one transaction under the token's row   *)
(* lock: a live token is rotated, anything else revokes its family.        *)
Rotated(t) ==
    IF tokens[t].state = "live"
    THEN Issue(tokens[t].family, [tokens EXCEPT ![t].state = "spent"])
    ELSE [i \in DOMAIN tokens |-> IF tokens[i].family = tokens[t].family
                                  THEN [tokens[i] EXCEPT !.state = "revoked"]
                                  ELSE tokens[i]]

Accepted(t) == tokens[t].state = "live"

RelayRefresh(a) ==
    /\ At(a, "ask")
    /\ Len(Rotated(mem[a].refresh)) <= MaxTokens
    /\ tokens' = Rotated(mem[a].refresh)
    /\ IF Accepted(mem[a].refresh)
       THEN /\ Hold(a, [mem[a] EXCEPT !.refresh = Len(tokens')])
            /\ Go(a, "write")
            /\ goto' = [goto EXCEPT ![a] = Later(a)]
       ELSE /\ Go(a, "rejected")
            /\ UNCHANGED <<mem, goto>>
    /\ UNCHANGED <<roster, store, cache, handle, stopping, counters>>

(* The request does not arrive, its answer does not, or the new pair can   *)
(* not be stored: the relay may have rotated the token.  Classified        *)
(* Network or Transient and tried again later.                             *)
RefreshLost(a) ==
    /\ At(a, "ask")
    /\ losses < MaxLosses
    /\ losses' = losses + 1
    /\ tokens' \in {ts \in {tokens, Rotated(mem[a].refresh)} : Len(ts) <= MaxTokens}
    /\ Go(a, Later(a))
    /\ UNCHANGED <<roster, store, cache, mem, goto, handle, stopping, calls, crashes>>

(* expire_session_terminally: the drain strips the tokens and ends.        *)
Expire ==
    /\ At("drain", "rejected")
    /\ Hold("drain", [cache EXCEPT !.refresh = 0])
    /\ Go("drain", IF cache.signedIn THEN "write" ELSE "off")
    /\ goto' = [goto EXCEPT !["drain"] = "off"]
    /\ UNCHANGED <<relayVars, store, cache, handle, stopping, counters>>

(* Mutant: only a drain whose handle is still registered looks at the flag.*)
DrainStopsIfOwned ==
    /\ At("drain", "run") /\ stopping /\ handle
    /\ Go("drain", "off")
    /\ UNCHANGED <<relayVars, store, cache, mem, goto, handle, stopping, counters>>

(* The drain sees its shutdown flag at the head of its loop.               *)
DrainStops ==
    /\ At("drain", "run") /\ stopping
    /\ Go("drain", "off")
    /\ UNCHANGED <<relayVars, store, cache, mem, goto, handle, stopping, counters>>

-----------------------------------------------------------------------------
(* The commands.                                                           *)
Call(c) ==
    /\ c \in Commands
    /\ At(c, "off")
    /\ calls < MaxCalls
    /\ calls' = calls + 1

(* sync_disable, sync_sign_out: take the handle, stop the drain, join it;  *)
(* without a handle there is nothing to wait for.                          *)
Stopped(c) == IF c = "disable" THEN "merge" ELSE "clear"

Stop(c) ==
    /\ c \in {"disable", "signout"}
    /\ Call(c)
    /\ handle' = FALSE
    /\ stopping' = (stopping \/ handle)
    /\ Go(c, IF handle THEN "join" ELSE Stopped(c))
    /\ goto' = [goto EXCEPT ![c] = "off"]
    /\ UNCHANGED <<relayVars, store, cache, mem, losses, crashes>>

(* Mutant: the drain is told to stop and not waited for.                   *)
JoinedNoWait == TRUE

(* The thread has ended.                                                   *)
Joined == At("drain", "off")

Join(c) ==
    /\ At(c, "join")
    /\ Joined
    /\ stopping' = FALSE
    /\ Go(c, Stopped(c))
    /\ UNCHANGED <<relayVars, store, cache, mem, goto, handle, counters>>

(* clear_session: the store, then the cache.                               *)
ClearStore ==
    /\ "signout" \in Commands /\ At("signout", "clear")
    /\ store' = SignedOut
    /\ Go("signout", "forget")
    /\ UNCHANGED <<relayVars, cache, mem, goto, handle, stopping, counters>>

ClearCache ==
    /\ "signout" \in Commands /\ At("signout", "forget")
    /\ cache' = SignedOut
    /\ Go("signout", "off")
    /\ UNCHANGED <<relayVars, store, mem, goto, handle, stopping, counters>>

(* A sign-in (login, recovery), which the app offers over no session or an *)
(* expired one: a new token family, sync off until the user turns it on.   *)
SignIn ==
    /\ Call("signin")
    /\ At("drain", "off") /\ ~ stopping
    /\ ~ cache.signedIn \/ cache.refresh = 0
    /\ Len(tokens) < MaxTokens
    /\ tokens' = Issue(Len(tokens) + 1, tokens)
    /\ Hold("signin", [signedIn |-> TRUE, refresh |-> Len(tokens'), roster |-> roster,
                       enabled |-> FALSE])
    /\ Go("signin", "write")
    /\ goto' = [goto EXCEPT !["signin"] = "off"]
    /\ UNCHANGED <<roster, store, cache, handle, stopping, losses, crashes>>

(* sync_enable, offered while sync is off: load the session, check the     *)
(* device, cut over, ...                                                   *)
Enable ==
    /\ Call("enable")
    /\ cache.signedIn /\ ~ cache.enabled
    /\ Hold("enable", cache)
    /\ Go("enable", "spawn")
    /\ UNCHANGED <<relayVars, store, cache, goto, handle, stopping, losses, crashes>>

(* ... start the drain, then store the record loaded at entry.  One drain  *)
(* is modelled: enabling beside one that still runs, which the code then   *)
(* stops, is out of bounds.                                                *)
Spawn ==
    /\ "enable" \in Commands /\ At("enable", "spawn")
    /\ At("drain", "off") /\ ~ stopping
    /\ pc' = [pc EXCEPT !["drain"] = "run", !["enable"] = "write"]
    /\ Hold("enable", [mem["enable"] EXCEPT !.enabled = TRUE])
    /\ goto' = [goto EXCEPT !["enable"] = "off"]
    /\ handle' = TRUE
    /\ UNCHANGED <<relayVars, store, cache, stopping, counters>>

(* sync_approve_device: re-anchor on the relay's roster and persist its    *)
(* counter, put the next one, persist that.  One retry of a lost race.     *)
Approve ==
    /\ Call("approve")
    /\ cache.signedIn
    /\ Hold("approve", cache)
    /\ Go("approve", "fetch")
    /\ UNCHANGED <<relayVars, store, cache, goto, handle, stopping, losses, crashes>>

Reanchor ==
    /\ "approve" \in Commands /\ At("approve", "fetch")
    /\ Hold("approve", [mem["approve"] EXCEPT !.roster = roster])
    /\ Go("approve", IF roster >= mem["approve"].roster THEN "merge" ELSE "off")
    /\ goto' = [goto EXCEPT !["approve"] = "put"]
    /\ UNCHANGED <<relayVars, store, cache, handle, stopping, counters>>

PutRoster ==
    /\ "approve" \in Commands /\ At("approve", "put")
    /\ \/ /\ roster = mem["approve"].roster /\ roster < MaxRoster
          /\ roster' = roster + 1
          /\ Hold("approve", [mem["approve"] EXCEPT !.roster = roster'])
          /\ Go("approve", "merge")
          /\ goto' = [goto EXCEPT !["approve"] = "off"]
       \/ /\ roster # mem["approve"].roster
          /\ \E next \in {"fetch", "off"} : Go("approve", next)
          /\ UNCHANGED <<roster, mem, goto>>
    /\ UNCHANGED <<tokens, store, cache, handle, stopping, counters>>

(* A request of the approval fails, perhaps after the relay took the new   *)
(* roster, or the device to approve is gone.                               *)
ApproveFails ==
    /\ "approve" \in Commands
    /\ \/ At("approve", "fetch") /\ UNCHANGED roster
       \/ At("approve", "put") /\ roster' \in {roster} \cup
             (IF roster = mem["approve"].roster /\ roster < MaxRoster THEN {roster + 1} ELSE {})
    /\ Go("approve", "off")
    /\ UNCHANGED <<tokens, store, cache, mem, goto, handle, stopping, counters>>

(* Another device's approval.                                              *)
OtherApproves ==
    /\ roster < MaxRoster
    /\ roster' = roster + 1
    /\ UNCHANGED <<tokens, store, cache, pc, mem, goto, handle, stopping, counters>>

(* sync_change_password: accepted, or refused for a stale access token; a  *)
(* refresh that is rejected or fails ends the command.                     *)
ChangePassword ==
    /\ Call("password")
    /\ cache.signedIn
    /\ Go("password", "reply")
    /\ UNCHANGED <<relayVars, store, cache, mem, goto, handle, stopping, losses, crashes>>

PasswordEnds ==
    /\ "password" \in Commands
    /\ At("password", "reply") \/ At("password", "rejected")
    /\ Go("password", "off")
    /\ UNCHANGED <<relayVars, store, cache, mem, goto, handle, stopping, counters>>

(* The app dies and starts again: the cache is read from disk and an       *)
(* enabled session gets its drain.                                         *)
Restart ==
    /\ crashes < MaxCrashes
    /\ crashes' = crashes + 1
    /\ cache' = store
    /\ pc' = [a \in Actors |->
                 IF a = "drain" /\ store.signedIn /\ store.enabled THEN "run" ELSE "off"]
    /\ mem' = [a \in Actors |-> SignedOut]
    /\ goto' = [a \in Actors |-> "off"]
    /\ handle' = (store.signedIn /\ store.enabled)
    /\ stopping' = FALSE
    /\ UNCHANGED <<relayVars, store, calls, losses>>

-----------------------------------------------------------------------------
Session ==
    \/ \E a \in Actors : WriteStore(a) \/ Publish(a) \/ UpdateStore(a)
    \/ \E a \in Refreshers : RelayRefresh(a)
    \/ Expire \/ DrainStops
    \/ \E c \in {"disable", "signout"} \cap Commands : Join(c)
    \/ ClearStore \/ ClearCache \/ Spawn \/ Reanchor \/ PutRoster \/ PasswordEnds

User ==
    \/ \E c \in Commands : Stop(c)
    \/ SignIn \/ Enable \/ Approve \/ ChangePassword

Next ==
    \/ Session \/ User
    \/ \E a \in Refreshers : RefreshLoad(a) \/ RefreshLost(a)
    \/ ApproveFails \/ OtherApproves \/ Restart

Spec == Init /\ [][Next]_vars

(* Threads and commands that have begun run on.                            *)
FairSpec == Spec /\ WF_vars(Session) /\ SF_vars(DrainStops)

-----------------------------------------------------------------------------
(* A token family has one live token at most, and none once one of its     *)
(* tokens was presented again: a rotation leaves a single way to go on.    *)
OneLivePerFamily ==
    \A i, j \in DOMAIN tokens :
        tokens[i].family = tokens[j].family /\ tokens[i].state = "live" /\ i # j
            => tokens[j].state = "spent"

(* The token on disk can be used: it is live on the relay, or its owner is *)
(* about to replace it with the one that is.                               *)
Refreshable ==
    store.signedIn /\ store.refresh # 0 =>
        \/ Accepted(store.refresh)
        \/ \E a \in Refreshers : At(a, "write") /\ mem[a].refresh > store.refresh

(* The disk never goes back to an older refresh token: what was rotated    *)
(* and persisted by one actor is not overwritten by another.               *)
TokenForward == store.refresh # 0 /\ store'.refresh # 0 => store'.refresh >= store.refresh
TokenNeverBack == [][TokenForward]_vars

(* The persisted roster counter only advances while the session lives.     *)
RosterNeverBack ==
    [][store.signedIn /\ store'.signedIn /\ ~ ("signin" \in Commands /\ At("signin", "write"))
         => store'.roster >= store.roster]_vars

(* Only a sign-in puts a session on disk: a refresh that was under way     *)
(* when the user signed out must not bring the session back.               *)
SignedInBySignIn ==
    ~ store.signedIn /\ store'.signedIn => "signin" \in Commands /\ At("signin", "write")
SignOutSticks == [][SignedInBySignIn]_vars

(* Sync that was turned on stays on: the flag falls only when the user     *)
(* disables sync, signs out or signs in again.                             *)
EnableSticks ==
    [][store.enabled /\ ~ store'.enabled
         => \E c \in {"disable", "signout", "signin"} \cap Commands :
               At(c, "merge") \/ At(c, "clear") \/ At(c, "write")]_vars

(* A sign-out or a disable ends: the drain it joins does stop.             *)
StopEnds ==
    \A c \in {"disable", "signout"} \cap Commands : At(c, "join") ~> At(c, "off")

(* The relay's token table and the desktop's record stay well formed, and  *)
(* a family never forks.                                                   *)
TokensSound == TypeOK /\ OneLivePerFamily
=============================================================================
