----------------------------- MODULE DeviceRoster -----------------------------
(***************************************************************************)
(* Who belongs to an account: the relay's device rows and the signed       *)
(* roster (server devices.rs, auth.rs), written by the desktop commands    *)
(* that sign in, recover, approve, remove and change the password          *)
(* (desktop sync.rs).  A command is a sequence of requests, and commands   *)
(* of different devices interleave at every request; the commands of one   *)
(* device follow each other.  A relay transaction is one step, except      *)
(* where it reads without a lock or waits for the roster row.              *)
(***************************************************************************)
EXTENDS Integers, FiniteSets

CONSTANTS Devices, First,      \* First signed up
          NoDevice,
          MaxCommands,         \* commands the users start
          MaxLost,             \* answers the network loses
          MaxAttempts          \* attempts of an approval or a removal (2)
ASSUME RosterAssumption ==
  /\ First \in Devices /\ NoDevice \notin Devices
  /\ {MaxCommands, MaxLost} \subseteq Nat /\ MaxAttempts \in Nat \ {0}

VARIABLES roster,      \* device_roster: the signed members and the counter
          rosterRow,   \* who holds device_roster FOR UPDATE
          row,         \* devices: status, recovery_grant_at and recovered_at still fresh,
                       \*          a live refresh family
          password,    \* users.verifier, as a version
          call,        \* the command each device runs
          anchor,      \* the counter each device last verified, -1 before
          signedIn,    \* it holds a session whose access token still works
          removed,     \* removed by another device and not approved since
          keyless,     \* how the last password change without a key found its device
          rosterUsed   \* what the bounds have counted
rosterVars == <<roster, rosterRow, row, password, call, anchor, signedIn, removed, keyless, rosterUsed>>
relayRows  == <<roster, rosterRow, row, password, removed, keyless>>

NoCall == [at |-> "idle", kind |-> "none", target |-> NoDevice, key |-> 0, tries |-> 0, nonce |-> FALSE,
           seen |-> [counter |-> 0, members |-> {}]]
NoRow  == [status |-> "none", grant |-> FALSE, waiver |-> FALSE, family |-> FALSE]

(* sync_signup: the device that opened the account holds its first anchor. *)
SignedUp ==
  /\ anchor = [d \in Devices |-> IF d = First THEN 0 ELSE -1]
  /\ signedIn = [d \in Devices |-> d = First]

(* signup: the first roster is counter 0 and names its author. *)
RosterInit ==
  /\ roster = [counter |-> 0, members |-> {First}] /\ rosterRow = NoDevice
  /\ row = [d \in Devices |-> IF d = First THEN [NoRow EXCEPT !.status = "active", !.family = TRUE]
                              ELSE NoRow]
  /\ password = 0 /\ call = [d \in Devices |-> NoCall] /\ SignedUp
  /\ removed = {} /\ keyless = "never" /\ rosterUsed = [command |-> 0, lost |-> 0]

------------------------------------------------------------------------------
(* The commands.                                                           *)

Goes(d, to)  == call' = [call EXCEPT ![d].at = to]
Ends(d)      == call' = [call EXCEPT ![d] = NoCall]
AnswerLost   == rosterUsed.lost < MaxLost /\ rosterUsed' = [rosterUsed EXCEPT !.lost = @ + 1]
AnswerComes  == UNCHANGED rosterUsed

(* A command is given: sync_login_begin, sync_recover, or one that needs a   *)
(* session.  Keys are computed from the password of that moment.             *)
Begin(d) ==
  /\ call[d].at = "idle" /\ rosterUsed.command < MaxCommands
  /\ rosterUsed' = [rosterUsed EXCEPT !.command = @ + 1]
  /\ \E kind \in {"login", "recover", "approve", "remove", "change", "reset"}, t \in Devices \ {d} :
       /\ kind \notin {"login", "recover"} => signedIn[d]
       /\ kind \notin {"approve", "remove"} => t = CHOOSE x \in Devices \ {d} : TRUE
       /\ call' = [call EXCEPT ![d] = [NoCall EXCEPT
            !.at = CASE kind = "login" -> "ask" [] kind = "recover" -> "enrol"
                     [] kind \in {"approve", "remove"} -> "anchor" [] OTHER -> "gate",
            !.kind = kind, !.target = t, !.key = password]]
  /\ UNCHANGED <<relayRows, anchor, signedIn>>

(* login_begin: a nonce for this address, kept for five minutes. *)
LoginBegin(d) ==
  /\ call[d].at = "ask"
  /\ call' = [call EXCEPT ![d].at = "verify", ![d].nonce = TRUE]
  /\ UNCHANGED <<relayRows, anchor, signedIn, rosterUsed>>

(* A sign-in the relay refuses is tried once more, with a fresh nonce. *)
LoginRefused(d) ==
  IF call[d].tries = 0 THEN call' = [call EXCEPT ![d].at = "ask", ![d].tries = 1, ![d].nonce = FALSE]
                       ELSE Ends(d)

(* login_finish reads the verifier on the pool, before its transaction. *)
LoginVerify(d) ==
  /\ call[d].at = "verify"
  /\ IF call[d].key = password THEN Goes(d, "enrol") ELSE LoginRefused(d)
  /\ UNCHANGED <<relayRows, anchor, signedIn, rosterUsed>>

(* The device row a login leaves: a revoked row comes back pending, any     *)
(* other status is kept.                                                    *)
EnrolledByLogin(d) ==
  [row[d] EXCEPT !.status = IF @ \in {"none", "revoked"} THEN "pending" ELSE @, !.family = TRUE]
(* A recovery arms the row too, but gives a revoked one no grant.           *)
EnrolledByRecovery(d) ==
  [EnrolledByLogin(d) EXCEPT !.grant = row[d].status # "revoked", !.waiver = TRUE]

(* verify_login_pop: the nonce is taken on the pool, beside the transaction  *)
(* that has read the roster, so it is spent whatever becomes of the rest.    *)
LoginPop(d) ==
  /\ call[d].at = "enrol" /\ call[d].kind = "login"
  /\ IF call[d].nonce
       THEN call' = [call EXCEPT ![d].at = "finish", ![d].nonce = FALSE, ![d].seen = roster]
       ELSE LoginRefused(d)
  /\ UNCHANGED <<relayRows, anchor, signedIn, rosterUsed>>

(* verify_roster_signed: a roster older than the anchor is refused. *)
Verified(d, r) == r.counter >= anchor[d]
(* The session and the anchor a verified answer leaves. *)
Keeps(d, r) == /\ signedIn' = [signedIn EXCEPT ![d] = TRUE]
               /\ anchor' = [anchor EXCEPT ![d] = r.counter]
(* An answer that is lost, or whose roster is refused, ends the command. *)
Unanswered(d, r) == /\ AnswerLost \/ (AnswerComes /\ ~Verified(d, r))
                    /\ Ends(d) /\ UNCHANGED <<signedIn, anchor>>

(* The rest of the enrolling transaction and what the client makes of the    *)
(* answer, which carries the roster as it was read.                          *)
LoginFinish(d) ==
  /\ call[d].at = "finish"
  /\ row' = [row EXCEPT ![d] = EnrolledByLogin(d)]
  /\ \/ AnswerComes /\ Verified(d, call[d].seen) /\ Keeps(d, call[d].seen) /\ Ends(d)
     \/ Unanswered(d, call[d].seen)
  /\ UNCHANGED <<roster, rosterRow, password, removed, keyless>>

(* A recovered device outside the roster goes on to admit itself. *)
Recover(d) ==
  /\ call[d].at = "enrol" /\ call[d].kind = "recover"
  /\ row' = [row EXCEPT ![d] = EnrolledByRecovery(d)]
  /\ \/ /\ AnswerComes /\ Verified(d, roster) /\ Keeps(d, roster)
        /\ IF d \in roster.members THEN Ends(d)
           ELSE call' = [call EXCEPT ![d].at = "put", ![d].seen = roster]
     \/ Unanswered(d, roster)
  /\ UNCHANGED <<roster, rosterRow, password, removed, keyless>>

(* reanchor_roster: GET the roster, verify it, ratchet the anchor. *)
(* Mutant: the counter about to be signed is recorded before the relay took it. *)
ReanchorEarly(d) ==
  /\ call[d].at = "anchor" /\ signedIn[d] /\ Verified(d, roster)
  /\ anchor' = [anchor EXCEPT ![d] = roster.counter + 1]
  /\ call' = [call EXCEPT ![d].seen = roster, ![d].at = IF call[d].kind = "approve" THEN "devices" ELSE "put"]
  /\ UNCHANGED <<relayRows, signedIn, rosterUsed>>
Reanchor(d) ==
  /\ call[d].at = "anchor"
  /\ IF signedIn[d] /\ Verified(d, roster) /\ (call[d].kind = "remove" => call[d].target \in roster.members)
       THEN /\ anchor' = [anchor EXCEPT ![d] = roster.counter]
            /\ call' = [call EXCEPT ![d].seen = roster,
                                    ![d].at = IF call[d].kind = "approve" THEN "devices" ELSE "put"]
       ELSE Ends(d) /\ UNCHANGED anchor
  /\ UNCHANGED <<relayRows, signedIn, rosterUsed>>

(* sync_approve_device takes its target from the relay's pending rows. *)
PickPending(d) ==
  /\ call[d].at = "devices"
  /\ IF signedIn[d] /\ row[call[d].target].status = "pending" THEN Goes(d, "put") ELSE Ends(d)
  /\ UNCHANGED <<relayRows, anchor, signedIn, rosterUsed>>

(* The members a command signs, from the list it verified: an approval     *)
(* adds its target, a removal drops it, a recovery adds the device itself.  *)
Membership(d)    == call[d].seen.members \cup {call[d].target}
WithoutTarget(d) == call[d].seen.members \ {call[d].target}
WithSelf(d)      == call[d].seen.members \cup {d}
Signed(d) == CASE call[d].kind = "approve" -> Membership(d)
               [] call[d].kind = "remove"  -> WithoutTarget(d)
               [] OTHER                    -> WithSelf(d)
Revokes(d) == IF call[d].kind = "remove" THEN {call[d].target} ELSE {}

------------------------------------------------------------------------------
(* put_roster.                                                             *)
Bootstraps(d) == row[d].status # "active" /\ row[d].grant

(* The caller, the key of a removal and the rules of a recovery upload.    *)
Authorised(d) ==
  /\ signedIn[d]
  /\ row[d].status = "active" \/ row[d].grant
  /\ Revokes(d) # {} => ~Bootstraps(d) /\ d \notin Revokes(d) /\ call[d].key = password
  /\ Bootstraps(d) => /\ d \in Signed(d)
                      /\ \A x \in Signed(d) \ {d} : row[x].status = "active"

(* The anti-rollback compare; a recovery must be exactly the next counter. *)
Newer(d) == /\ call[d].seen.counter + 1 > roster.counter
            /\ Bootstraps(d) => call[d].seen.counter = roster.counter

(* SELECT ... FOR UPDATE, then every check under the lock. *)
(* Mutant: the roster is read without its lock. *)
PutChecksUnlocked(d) ==
  /\ call[d].at = "put" /\ Authorised(d) /\ Newer(d)
  /\ rosterRow' = d /\ Goes(d, "commit")
  /\ UNCHANGED <<roster, row, password, removed, keyless, anchor, signedIn, rosterUsed>>
PutChecks(d) ==
  /\ call[d].at = "put" /\ rosterRow = NoDevice
  /\ \/ Authorised(d) /\ Newer(d) /\ rosterRow' = d /\ Goes(d, "commit")
     \/ /\ Authorised(d) /\ ~Newer(d) /\ UNCHANGED rosterRow
        /\ IF call[d].kind # "recover" /\ call[d].tries + 1 < MaxAttempts
             THEN call' = [call EXCEPT ![d].at = "anchor", ![d].tries = @ + 1]
             ELSE Ends(d)
     \/ ~Authorised(d) /\ Ends(d) /\ UNCHANGED rosterRow
  /\ UNCHANGED <<roster, row, password, removed, keyless, anchor, signedIn, rosterUsed>>

(* What the upload makes of each device row. *)
(* Mutant: a revocation leaves the recovery stamps of the row. *)
IndexedStamped(d, x) ==
  LET r == row[x] IN
  CASE x \in Revokes(d) -> [r EXCEPT !.status = "revoked", !.family = FALSE]
    [] x \in Signed(d)  -> IF r.status = "none" THEN r ELSE [r EXCEPT !.status = "active", !.grant = FALSE]
    [] OTHER -> IF x = d THEN [r EXCEPT !.grant = FALSE] ELSE r
Indexed(d, x) ==
  LET r == row[x] IN
  CASE x \in Revokes(d) -> [r EXCEPT !.status = "revoked", !.grant = FALSE, !.waiver = FALSE, !.family = FALSE]
    [] x \in Signed(d)  -> IF r.status = "none" THEN r ELSE [r EXCEPT !.status = "active", !.grant = FALSE]
    [] OTHER -> IF x = d THEN [r EXCEPT !.grant = FALSE] ELSE r

(* What the client records of an upload that was answered. *)
Anchored(d) == \/ AnswerComes /\ anchor' = [anchor EXCEPT ![d] = call[d].seen.counter + 1]
               \/ AnswerLost /\ UNCHANGED anchor

(* The writes and the commit; the client records the new anchor unless the *)
(* answer is lost.                                                          *)
PutCommits(d) ==
  /\ call[d].at = "commit" /\ rosterRow' = NoDevice
  /\ roster' = [counter |-> call[d].seen.counter + 1, members |-> Signed(d)]
  /\ row' = [x \in Devices |-> Indexed(d, x)]
  /\ removed' = (removed \cup Revokes(d)) \ (IF call[d].kind = "approve" THEN {call[d].target} ELSE {})
  /\ Ends(d)
  /\ Anchored(d)
  /\ UNCHANGED <<password, keyless, signedIn>>

------------------------------------------------------------------------------
(* change_password: the caller's status is read without a lock, then the    *)
(* users row is held.                                                       *)
PasswordGate(d) ==
  /\ call[d].at = "gate"
  /\ IF signedIn[d] /\ row[d].status = "active" THEN Goes(d, "change") ELSE Ends(d)
  /\ UNCHANGED <<relayRows, anchor, signedIn, rosterUsed>>

(* The current key, or a recovery stamp that the statement itself consumes; *)
(* every other device's refresh families end.                               *)
PasswordChanges(d) ==
  /\ call[d].at = "change" /\ Ends(d)
  /\ IF IF call[d].kind = "reset" THEN row[d].waiver ELSE call[d].key = password
       THEN /\ password' = password + 1
            /\ row' = [x \in Devices |-> IF x = d THEN [row[x] EXCEPT !.waiver = FALSE]
                                                  ELSE [row[x] EXCEPT !.family = FALSE]]
            /\ keyless' = IF call[d].kind = "reset" THEN row[d].status ELSE keyless
       ELSE UNCHANGED <<password, row, keyless>>
  /\ UNCHANGED <<roster, rosterRow, anchor, signedIn, removed, rosterUsed>>

------------------------------------------------------------------------------
(* Fifteen minutes pass.                                                   *)
StampsExpire(d) ==
  /\ row[d].grant \/ row[d].waiver
  /\ row' = [row EXCEPT ![d].grant = FALSE, ![d].waiver = FALSE]
  /\ UNCHANGED <<roster, rosterRow, password, call, anchor, signedIn, removed, keyless, rosterUsed>>
(* Five minutes pass. *)
NonceExpires(d) ==
  /\ call[d].nonce /\ call' = [call EXCEPT ![d].nonce = FALSE]
  /\ UNCHANGED <<relayRows, anchor, signedIn, rosterUsed>>
(* An access token runs out and no refresh family is left; or sign-out.    *)
SessionEnds(d) ==
  /\ signedIn[d] /\ signedIn' = [signedIn EXCEPT ![d] = FALSE]
  /\ ~row[d].family \/ call[d].at = "idle"
  /\ UNCHANGED <<relayRows, call, anchor, rosterUsed>>

RosterNext == \E d \in Devices :
  \/ Begin(d) \/ LoginBegin(d) \/ NonceExpires(d) \/ LoginVerify(d) \/ LoginPop(d) \/ LoginFinish(d)
  \/ Recover(d) \/ Reanchor(d) \/ PickPending(d) \/ PutChecks(d) \/ PutCommits(d)
  \/ PasswordGate(d) \/ PasswordChanges(d) \/ StampsExpire(d) \/ SessionEnds(d)
RosterSpec == RosterInit /\ [][RosterNext]_rosterVars

------------------------------------------------------------------------------
RosterTypeOK ==
  /\ roster.counter \in Nat /\ roster.members \subseteq Devices
  /\ rosterRow \in Devices \cup {NoDevice} /\ removed \subseteq Devices
  /\ \A d \in Devices : row[d].status \in {"none", "pending", "active", "revoked"}
  /\ \A d \in Devices : anchor[d] >= -1

(* Whatever approvals, removals and recoveries interleave, the devices the  *)
(* relay lets write are exactly the members of the signed roster it serves: *)
(* put_roster's lock and counter let no writer sign over another's list.    *)
ActiveIsListed == {d \in Devices : row[d].status = "active"} = roster.members

(* No device ever records a roster counter the relay does not have: it      *)
(* would refuse every later answer as a rollback and lock itself out.       *)
AnchorBehind == \A d \in Devices : anchor[d] <= roster.counter

(* A password is changed without the current key only by a member: a device *)
(* removed between the unlocked status read of change_password and its      *)
(* write finds its recovery stamp gone.                                     *)
KeylessByMember == keyless \in {"never", "active"}

(* What recover says of a removed device: it "is re-enrolled PENDING but    *)
(* gets NO grant ... re-admission goes through approval".                   *)
RevokedNeedsApproval == \A d \in removed : row[d].status # "active"

(* The list of devices: who may write is who is on the signed list, no       *)
(* client trusts a counter the relay has not reached, and a password is      *)
(* changed without the current key by members only.                          *)
RosterSound == RosterTypeOK /\ ActiveIsListed /\ AnchorBehind /\ KeylessByMember
==============================================================================
