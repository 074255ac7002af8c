-------------------------- MODULE MC_SessionTokens --------------------------
(* Two sets of commands in one run: three calls of the account commands    *)
(* (approve, sign in, sign out), and two calls of any.                     *)
EXTENDS SessionTokens

VARIABLE account   \* only account commands are offered

Settings == {"disable", "enable", "password"}

OfferedInit == Init /\ account \in BOOLEAN

OfferedNext ==
    /\ Next /\ UNCHANGED account
    /\ account => \A c \in Settings : At(c, "off") /\ pc'[c] = "off"
    /\ ~ account => calls' <= 2 /\ roster' <= 2

OfferedSpec ==
    OfferedInit /\ [][OfferedNext]_<<vars, account>> /\ WF_vars(Session) /\ SF_vars(DrainStops)

(* While sync is neither enabled, disabled nor given a new password, the   *)
(* session on disk never goes back: no command puts an older refresh token *)
(* over the drain's, and no refresh that was under way when the user       *)
(* signed out brings the session back.                                     *)
SessionNeverBack == [][account => TokenForward /\ SignedInBySignIn]_vars
=============================================================================
