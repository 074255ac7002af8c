------------------------ MODULE SessionTokens_proofs ------------------------
(***************************************************************************)
(* Proofs about SessionTokens, for any set of commands and any number of   *)
(* calls, losses and restarts.                                             *)
(*                                                                         *)
(* The relay's half is a fact about the token table alone: TokensOK is     *)
(* kept by a rotation and by a sign-in.  The desktop's half needs to know  *)
(* who can hold what while the drain runs: see AccountInv.                 *)
(***************************************************************************)
EXTENDS MC_SessionTokens, SequenceTheorems, TLAPS

(* A token table: families are numbered by tokens that exist, and a live   *)
(* token is the only one of its family that is not spent.                  *)
TokensOK(ts) ==
    /\ ts \in Seq(Tokens)
    /\ \A i \in 1 .. Len(ts) : ts[i].family \in 1 .. Len(ts)
    /\ \A i, j \in 1 .. Len(ts) :
          ts[i].family = ts[j].family /\ ts[i].state = "live" /\ i # j => ts[j].state = "spent"

(* A record names a token that exists.                                     *)
Known(s, ts) == s \in Sessions /\ s.refresh \in 0 .. Len(ts)

Inv ==
    /\ TokensOK(tokens) /\ Len(tokens) <= MaxTokens
    /\ roster \in 1 .. MaxRoster
    /\ Known(store, tokens) /\ Known(cache, tokens)
    /\ pc \in [Actors -> Places]
    /\ mem \in [Actors -> Sessions]
    /\ goto \in [Actors -> {"off", "run", "put"}]
    /\ handle \in BOOLEAN /\ stopping \in BOOLEAN
    /\ calls \in 0 .. MaxCalls /\ losses \in 0 .. MaxLosses /\ crashes \in 0 .. MaxCrashes
    /\ \A a \in Actors : Known(mem[a], tokens)
    /\ \A a \in Actors : pc[a] = "ask" => mem[a].refresh # 0

-----------------------------------------------------------------------------
(* A new live token at the end of a table in which its family has no live  *)
(* one.                                                                    *)
LEMMA IssueKeeps ==
    ASSUME NEW ts \in Seq(Tokens), NEW f \in Nat, NEW us, us = Issue(f, ts),
           f \in 1 .. (Len(ts) + 1),
           \A i \in 1 .. Len(ts) : ts[i].family \in 1 .. Len(ts),
           \A i, j \in 1 .. Len(ts) :
              ts[i].family = ts[j].family /\ ts[i].state = "live" /\ i # j => ts[j].state = "spent",
           \A i \in 1 .. Len(ts) : ts[i].family = f => ts[i].state = "spent"
    PROVE  TokensOK(us) /\ Len(us) = Len(ts) + 1
<1> DEFINE new == [family |-> f, state |-> "live"]
<1>1. new \in Tokens /\ new.family = f /\ new.state = "live"
  BY DEF Tokens
<1>2. us = Append(ts, new)
  BY DEF Issue
<1> HIDE DEF new
<1>3. /\ us \in Seq(Tokens) /\ Len(us) = Len(ts) + 1
      /\ \A i \in 1 .. Len(ts) : us[i] = ts[i]
      /\ us[Len(ts) + 1] = new
  BY <1>1, <1>2, AppendProperties
<1>4. Len(ts) \in Nat
  BY LenProperties
<1>5. \A i \in 1 .. Len(us) : us[i].family \in 1 .. Len(us)
  <2> SUFFICES ASSUME NEW i \in 1 .. Len(us) PROVE us[i].family \in 1 .. Len(us)
    OBVIOUS
  <2>1. CASE i \in 1 .. Len(ts)
    BY <1>3, <1>4, <2>1
  <2>2. CASE i = Len(ts) + 1
    BY <1>1, <1>3, <2>2
  <2> QED
    BY <1>3, <1>4, <2>1, <2>2
<1>6. ASSUME NEW i \in 1 .. Len(us), NEW j \in 1 .. Len(us),
             us[i].family = us[j].family, us[i].state = "live", i # j
      PROVE  us[j].state = "spent"
  <2>1. CASE i \in 1 .. Len(ts) /\ j \in 1 .. Len(ts)
    BY <1>3, <1>6, <2>1
  <2>2. CASE i = Len(ts) + 1 /\ j \in 1 .. Len(ts)
    BY <1>1, <1>3, <1>6, <2>2
  <2>3. CASE j = Len(ts) + 1 /\ i \in 1 .. Len(ts)
    BY <1>1, <1>3, <1>6, <2>3
  <2> QED
    BY <1>3, <1>4, <1>6, <2>1, <2>2, <2>3
<1> QED
  BY <1>3, <1>5, <1>6 DEF TokensOK

(* auth.rs, login: a token of a family of its own.                         *)
LEMMA NewFamily ==
    ASSUME NEW ts, TokensOK(ts), NEW us, us = Issue(Len(ts) + 1, ts)
    PROVE  TokensOK(us) /\ Len(us) = Len(ts) + 1
<1>1. ts \in Seq(Tokens) /\ Len(ts) \in Nat
  BY LenProperties DEF TokensOK
<1>2. Len(ts) + 1 \in Nat /\ Len(ts) + 1 \in 1 .. (Len(ts) + 1)
  BY <1>1
<1>3. \A i \in 1 .. Len(ts) : ts[i].family \in 1 .. Len(ts)
  BY DEF TokensOK
<1>4. \A i, j \in 1 .. Len(ts) :
         ts[i].family = ts[j].family /\ ts[i].state = "live" /\ i # j => ts[j].state = "spent"
  BY DEF TokensOK
<1>5. \A i \in 1 .. Len(ts) : ts[i].family = Len(ts) + 1 => ts[i].state = "spent"
  BY <1>1, <1>3
<1> QED
  BY <1>1, <1>2, <1>3, <1>4, <1>5, IssueKeeps, Zenon

(* auth.rs, refresh: a rotation, or the revocation of the whole family.    *)
LEMMA RotateKeeps ==
    ASSUME TokensOK(tokens), NEW t \in 1 .. Len(tokens)
    PROVE  /\ TokensOK(Rotated(t))
           /\ Len(tokens) <= Len(Rotated(t))
           /\ Accepted(t) => Len(Rotated(t)) = Len(tokens) + 1
<1>0. tokens \in Seq(Tokens) /\ Len(tokens) \in Nat /\ DOMAIN tokens = 1 .. Len(tokens)
      /\ tokens \in [1 .. Len(tokens) -> Tokens]
  BY LenProperties DEF TokensOK
<1>1. CASE tokens[t].state = "live"
  <2> DEFINE spent == [tokens[t] EXCEPT !.state = "spent"]
             us == [tokens EXCEPT ![t].state = "spent"]
  <2>1. /\ spent \in Tokens /\ spent.family = tokens[t].family /\ spent.state = "spent"
    BY <1>0 DEF Tokens
  <2>2. us = [tokens EXCEPT ![t] = spent]
    BY <1>0 DEF Tokens
  <2>3. Rotated(t) = Issue(tokens[t].family, us)
    BY <1>1 DEF Rotated
  <2> HIDE DEF spent, us
  <2>4. /\ us \in Seq(Tokens) /\ Len(us) = Len(tokens)
        /\ us[t] = spent
        /\ \A i \in 1 .. Len(tokens) : i # t => us[i] = tokens[i]
    BY <1>0, <2>1, <2>2, ExceptSeq
  <2>5. \A i \in 1 .. Len(us) : us[i].family = tokens[i].family
    BY <2>1, <2>4
  <2>6. \A i \in 1 .. Len(us) : us[i].family = tokens[t].family => us[i].state = "spent"
    BY <1>1, <2>1, <2>4, <2>5 DEF TokensOK
  <2>7. \A i, j \in 1 .. Len(us) :
           us[i].family = us[j].family /\ us[i].state = "live" /\ i # j => us[j].state = "spent"
    <3> SUFFICES ASSUME NEW i \in 1 .. Len(us), NEW j \in 1 .. Len(us),
                        us[i].family = us[j].family, us[i].state = "live", i # j
                 PROVE  us[j].state = "spent"
      OBVIOUS
    <3>1. i # t
      BY <2>1, <2>4
    <3>2. CASE j = t
      BY <2>1, <2>4, <3>2
    <3>3. CASE j # t
      BY <2>4, <2>5, <3>1, <3>3 DEF TokensOK
    <3> QED
      BY <3>2, <3>3
  <2>8. tokens[t].family \in 1 .. Len(us) /\ \A i \in 1 .. Len(us) : us[i].family \in 1 .. Len(us)
    BY <2>4, <2>5 DEF TokensOK
  <2>9. tokens[t].family \in Nat /\ tokens[t].family \in 1 .. (Len(us) + 1)
    BY <1>0, <2>4, <2>8
  <2>10. TokensOK(Rotated(t)) /\ Len(Rotated(t)) = Len(us) + 1
    BY <2>3, <2>4, <2>6, <2>7, <2>8, <2>9, IssueKeeps
  <2> QED
    BY <1>0, <2>4, <2>10
<1>2. CASE tokens[t].state # "live"
  <2> DEFINE rev(i) == IF tokens[i].family = tokens[t].family
                       THEN [tokens[i] EXCEPT !.state = "revoked"] ELSE tokens[i]
             us == [i \in 1 .. Len(tokens) |-> rev(i)]
  <2>1. \A i \in 1 .. Len(tokens) :
           /\ rev(i) \in Tokens /\ rev(i).family = tokens[i].family
           /\ rev(i).state # "revoked" => rev(i) = tokens[i] /\ tokens[i].family # tokens[t].family
    BY <1>0 DEF Tokens
  <2>2. Rotated(t) = us
    BY <1>0, <1>2 DEF Rotated
  <2> HIDE DEF rev
  <2>3. us \in Seq(Tokens) /\ Len(us) = Len(tokens) /\ \A i \in 1 .. Len(tokens) : us[i] = rev(i)
    <3>1. us \in [1 .. Len(tokens) -> Tokens] /\ \A i \in 1 .. Len(tokens) : us[i] = rev(i)
      BY <2>1
    <3> HIDE DEF us
    <3> QED
      BY <1>0, <3>1
  <2> HIDE DEF us
  <2>4. \A i \in 1 .. Len(us) : us[i].family \in 1 .. Len(us)
    BY <2>1, <2>3 DEF TokensOK
  <2>5. ASSUME NEW i \in 1 .. Len(us), NEW j \in 1 .. Len(us),
               us[i].family = us[j].family, us[i].state = "live", i # j
        PROVE  us[j].state = "spent"
    <3>1. us[i] = tokens[i] /\ tokens[i].family # tokens[t].family
      BY <2>1, <2>3, <2>5
    <3>2. tokens[i].family = tokens[j].family
      BY <2>1, <2>3, <2>5
    <3>3. tokens[j].state = "spent"
      BY <2>3, <2>5, <3>1, <3>2 DEF TokensOK
    <3>4. us[j] = tokens[j]
      BY <2>3, <3>1, <3>2 DEF rev
    <3> QED
      BY <3>3, <3>4
  <2>6. TokensOK(us)
    BY <2>3, <2>4, <2>5 DEF TokensOK
  <2>7. ~Accepted(t)
    BY <1>2 DEF Accepted
  <2>8. TokensOK(Rotated(t)) /\ Len(Rotated(t)) = Len(tokens)
    BY <2>2, <2>3, <2>6, Zenon
  <2>9. Len(tokens) <= Len(tokens)
    BY <1>0
  <2> QED
    BY <2>7, <2>8, <2>9, Zenon
<1> QED
  BY <1>1, <1>2

-----------------------------------------------------------------------------
(* Records keep naming tokens that exist while the table grows.            *)
LEMMA KnownKeeps ==
    ASSUME NEW s, NEW ts \in Seq(Tokens), NEW us \in Seq(Tokens), Len(ts) <= Len(us), Known(s, ts)
    PROVE  Known(s, us)
BY LenProperties DEF Known

(* The fields a command may set.                                           *)
LEMMA SessionFields ==
    ASSUME NEW s \in Sessions
    PROVE  /\ \A n \in Nat : [s EXCEPT !.refresh = n] \in Sessions
                             /\ [s EXCEPT !.refresh = n].refresh = n
                             /\ [s EXCEPT !.refresh = n].signedIn = s.signedIn
           /\ \A n \in Nat : [s EXCEPT !.roster = n] \in Sessions
                             /\ [s EXCEPT !.roster = n].refresh = s.refresh
                             /\ [s EXCEPT !.roster = n].signedIn = s.signedIn
           /\ \A b \in BOOLEAN : [s EXCEPT !.enabled = b] \in Sessions
                                 /\ [s EXCEPT !.enabled = b].refresh = s.refresh
                                 /\ [s EXCEPT !.enabled = b].signedIn = s.signedIn
BY DEF Sessions

LEMMA SignedOutKnown ==
    ASSUME NEW ts \in Seq(Tokens)
    PROVE  Known(SignedOut, ts)
BY LenProperties DEF Known, SignedOut, Sessions

LEMMA DrainIsActor == "drain" \in Actors /\ Commands \subseteq Actors
BY DEF Actors

(* A record written under the session lock.                                *)
LEMMA MergedKnown ==
    ASSUME Inv, NEW a \in Actors
    PROVE  /\ Known(Merged(a), tokens)
           /\ Merged(a).refresh = store.refresh /\ Merged(a).signedIn = store.signedIn
<1>1. store \in Sessions /\ mem[a].roster \in Nat
  BY DEF Inv, Known, Sessions
<1>2. CASE a = "disable"
  BY <1>1, <1>2, SessionFields DEF Merged, Inv, Known
<1>3. CASE a # "disable"
  BY <1>1, <1>3, SessionFields DEF Merged, Inv, Known
<1> QED
  BY <1>2, <1>3

(* The common step: one actor moves, holding a record that exists.         *)
LEMMA MoveKeeps ==
    ASSUME Inv, NEW a \in Actors, NEW place \in Places, NEW s,
           UNCHANGED tokens, roster' \in 1 .. MaxRoster,
           Known(store', tokens), Known(cache', tokens),
           Go(a, place), Hold(a, s), Known(s, tokens), place = "ask" => s.refresh # 0,
           goto' \in [Actors -> {"off", "run", "put"}],
           handle' \in BOOLEAN, stopping' \in BOOLEAN,
           calls' \in 0 .. MaxCalls, losses' \in 0 .. MaxLosses, crashes' \in 0 .. MaxCrashes
    PROVE  Inv'
<1>1. pc' \in [Actors -> Places] /\ mem' \in [Actors -> Sessions]
  BY DEF Inv, Go, Hold, Known
<1>2. ASSUME NEW b \in Actors
      PROVE  Known(mem'[b], tokens) /\ (pc'[b] = "ask" => mem'[b].refresh # 0)
  BY DEF Inv, Go, Hold
<1> QED
  BY <1>1, <1>2 DEF Inv

(* The same when it holds what it held.                                    *)
LEMMA StayKeeps ==
    ASSUME Inv, NEW a \in Actors, NEW place \in Places, place # "ask",
           UNCHANGED <<tokens, mem>>, roster' \in 1 .. MaxRoster,
           Known(store', tokens), Known(cache', tokens), Go(a, place),
           goto' \in [Actors -> {"off", "run", "put"}],
           handle' \in BOOLEAN, stopping' \in BOOLEAN,
           calls' \in 0 .. MaxCalls, losses' \in 0 .. MaxLosses, crashes' \in 0 .. MaxCrashes
    PROVE  Inv'
<1>1. Hold(a, mem[a]) /\ Known(mem[a], tokens)
  BY DEF Inv, Hold
<1> QED
  BY <1>1, MoveKeeps

-----------------------------------------------------------------------------
(* What most steps leave alone.                                            *)
LEMMA InvFacts ==
    ASSUME Inv
    PROVE  /\ roster \in 1 .. MaxRoster /\ roster \in Nat
           /\ Known(store, tokens) /\ Known(cache, tokens)
           /\ tokens \in Seq(Tokens) /\ Len(tokens) \in Nat /\ Len(tokens) <= MaxTokens
           /\ goto \in [Actors -> {"off", "run", "put"}]
           /\ handle \in BOOLEAN /\ stopping \in BOOLEAN
           /\ calls \in 0 .. MaxCalls /\ losses \in 0 .. MaxLosses /\ crashes \in 0 .. MaxCrashes
           /\ \A a \in Actors : Known(mem[a], tokens) /\ mem[a] \in Sessions
           /\ pc \in [Actors -> Places] /\ mem \in [Actors -> Sessions]
BY LenProperties, BoundsAssumption DEF Inv, TokensOK, Known

LEMMA StoreStepsKeep ==
    ASSUME Inv, NEW a \in Actors, WriteStore(a) \/ Publish(a) \/ UpdateStore(a)
    PROVE  Inv'
<1> USE DEF counters, relayVars
<1>1. CASE WriteStore(a)
  <2>1. "publish" \in Places /\ Go(a, "publish") /\ Known(store', tokens)
    BY <1>1, InvFacts DEF WriteStore, Places
  <2> QED
    BY <1>1, <2>1, InvFacts, StayKeeps DEF WriteStore
<1>2. CASE Publish(a)
  <2>1. goto[a] \in Places /\ goto[a] # "ask" /\ Go(a, goto[a]) /\ Known(cache', tokens)
    BY <1>2, InvFacts DEF Publish, Places
  <2> QED
    BY <1>2, <2>1, InvFacts, StayKeeps DEF Publish
<1>3. CASE UpdateStore(a)
  <2>1. CASE store.signedIn
    <3>1. "publish" \in Places /\ Go(a, "publish") /\ Hold(a, Merged(a)) /\ store' = Merged(a)
      BY <1>3, <2>1 DEF UpdateStore, Places
    <3>2. Known(store', tokens) /\ Known(Merged(a), tokens)
      BY <3>1, MergedKnown
    <3> QED
      BY <1>3, <3>1, <3>2, InvFacts, MoveKeeps DEF UpdateStore
  <2>2. CASE ~store.signedIn
    <3>1. "off" \in Places /\ Go(a, "off") /\ UNCHANGED <<store, mem>>
      BY <1>3, <2>2 DEF UpdateStore, Places
    <3> QED
      BY <1>3, <3>1, InvFacts, StayKeeps DEF UpdateStore
  <2> QED
    BY <2>1, <2>2
<1> QED
  BY <1>1, <1>2, <1>3

LEMMA LoadKeeps ==
    ASSUME Inv, NEW a \in Refreshers, RefreshLoad(a)
    PROVE  Inv'
<1> DEFINE place == IF cache.signedIn /\ cache.refresh # 0 THEN "ask" ELSE "rejected"
<1>1. a \in Actors /\ place \in Places /\ Go(a, place) /\ Hold(a, cache)
      /\ (place = "ask" => cache.refresh # 0)
  BY DEF RefreshLoad, Refreshers, Places
<1> HIDE DEF place
<1> QED
  BY <1>1, InvFacts, MoveKeeps DEF RefreshLoad, relayVars, counters

(* A table that grew under records that did not change.                    *)
LEMMA GrowKeeps ==
    ASSUME Inv, NEW a \in Actors, NEW place \in Places, place # "ask", NEW s,
           TokensOK(tokens'), Len(tokens) <= Len(tokens'), Len(tokens') <= MaxTokens,
           Go(a, place), Hold(a, s), Known(s, tokens'),
           UNCHANGED <<roster, store, cache, handle, stopping>>,
           goto' \in [Actors -> {"off", "run", "put"}],
           calls' \in 0 .. MaxCalls, losses' \in 0 .. MaxLosses, UNCHANGED crashes
    PROVE  Inv'
<1>1. tokens' \in Seq(Tokens) /\ tokens \in Seq(Tokens)
  BY DEF TokensOK, Inv
<1>2. Known(store', tokens') /\ Known(cache', tokens')
  BY <1>1, InvFacts, KnownKeeps
<1>3. pc' \in [Actors -> Places] /\ mem' \in [Actors -> Sessions]
  BY InvFacts DEF Go, Hold, Known
<1>4. ASSUME NEW b \in Actors
      PROVE  Known(mem'[b], tokens') /\ (pc'[b] = "ask" => mem'[b].refresh # 0)
  <2>1. CASE b = a
    BY <2>1, InvFacts DEF Go, Hold
  <2>2. CASE b # a
    <3>1. mem'[b] = mem[b] /\ pc'[b] = pc[b]
      BY <2>2, InvFacts DEF Go, Hold
    <3>2. Known(mem[b], tokens')
      BY <1>1, InvFacts, KnownKeeps
    <3> QED
      BY <3>1, <3>2 DEF Inv
  <2> QED
    BY <2>1, <2>2
<1> QED
  BY <1>2, <1>3, <1>4 DEF Inv

(* The token an asking actor presents is in the table.                     *)
LEMMA Asked ==
    ASSUME Inv, NEW a \in Actors, pc[a] = "ask"
    PROVE  /\ mem[a].refresh \in 1 .. Len(tokens)
           /\ TokensOK(Rotated(mem[a].refresh))
           /\ Len(tokens) <= Len(Rotated(mem[a].refresh))
           /\ Accepted(mem[a].refresh) => Len(Rotated(mem[a].refresh)) = Len(tokens) + 1
<1>1. mem[a].refresh \in 0 .. Len(tokens) /\ mem[a].refresh # 0 /\ Len(tokens) \in Nat
  BY InvFacts DEF Inv, Known
<1>2. mem[a].refresh \in 1 .. Len(tokens)
  BY <1>1
<1> QED
  BY <1>2, RotateKeeps DEF Inv

LEMMA RelayRefreshKeeps ==
    ASSUME Inv, NEW a \in Refreshers, RelayRefresh(a)
    PROVE  Inv'
<1> DEFINE t == mem[a].refresh
<1>0. a \in Actors /\ Later(a) \in {"off", "run", "put"}
  BY DEF Refreshers, Later
<1>1. /\ pc[a] = "ask" /\ tokens' = Rotated(t) /\ Len(tokens') <= MaxTokens
      /\ UNCHANGED <<roster, store, cache, handle, stopping, calls, losses, crashes>>
  BY DEF RelayRefresh, At, counters
<1>2. TokensOK(tokens') /\ Len(tokens) <= Len(tokens')
  BY <1>0, <1>1, Asked
<1>3. CASE Accepted(t)
  <2> DEFINE s == [mem[a] EXCEPT !.refresh = Len(tokens')]
  <2>1. Hold(a, s) /\ Go(a, "write") /\ goto' = [goto EXCEPT ![a] = Later(a)]
    BY <1>3 DEF RelayRefresh
  <2>2. Len(tokens') \in Nat /\ tokens' \in Seq(Tokens)
    BY <1>2, LenProperties DEF TokensOK
  <2>3. s \in Sessions /\ s.refresh = Len(tokens')
    BY <1>0, <2>2, InvFacts, SessionFields
  <2> HIDE DEF s
  <2>4. Known(s, tokens')
    BY <2>2, <2>3 DEF Known
  <2>5. goto' \in [Actors -> {"off", "run", "put"}] /\ "write" \in Places
    BY <1>0, <2>1, InvFacts DEF Places
  <2> QED
    BY <1>0, <1>1, <1>2, <2>1, <2>4, <2>5, InvFacts, GrowKeeps
<1>4. CASE ~Accepted(t)
  <2>1. Go(a, "rejected") /\ UNCHANGED <<mem, goto>>
    BY <1>4 DEF RelayRefresh
  <2>2. Hold(a, mem[a]) /\ "rejected" \in Places
    BY <2>1, InvFacts DEF Hold, Places
  <2>3. Known(mem[a], tokens')
    BY <1>0, <1>2, InvFacts, KnownKeeps DEF TokensOK
  <2>4. goto' \in [Actors -> {"off", "run", "put"}]
    BY <2>1, InvFacts
  <2> QED
    BY <1>0, <1>1, <1>2, <2>1, <2>2, <2>3, <2>4, InvFacts, GrowKeeps
<1> QED
  BY <1>3, <1>4

LEMMA RefreshLostKeeps ==
    ASSUME Inv, NEW a \in Refreshers, RefreshLost(a)
    PROVE  Inv'
<1>0. a \in Actors /\ Later(a) \in Places /\ Later(a) # "ask"
  BY DEF Refreshers, Later, Places
<1>1. /\ pc[a] = "ask" /\ tokens' \in {tokens, Rotated(mem[a].refresh)} /\ Len(tokens') <= MaxTokens
      /\ Go(a, Later(a)) /\ losses < MaxLosses /\ losses' = losses + 1
      /\ UNCHANGED <<roster, store, cache, mem, goto, handle, stopping, calls, crashes>>
  BY DEF RefreshLost, At
<1>2. TokensOK(tokens') /\ Len(tokens) <= Len(tokens')
  BY <1>0, <1>1, Asked, InvFacts DEF Inv
<1>3. Hold(a, mem[a])
  BY <1>1, InvFacts DEF Hold
<1>4. Known(mem[a], tokens')
  BY <1>0, <1>2, InvFacts, KnownKeeps DEF TokensOK
<1>5. losses' \in 0 .. MaxLosses
  BY <1>1, InvFacts, BoundsAssumption
<1> QED
  BY <1>0, <1>1, <1>2, <1>3, <1>4, <1>5, InvFacts, GrowKeeps

LEMMA SignInKeeps ==
    ASSUME Inv, SignIn
    PROVE  Inv'
<1> DEFINE s == [signedIn |-> TRUE, refresh |-> Len(tokens'), roster |-> roster, enabled |-> FALSE]
<1>1. /\ "signin" \in Commands /\ calls < MaxCalls /\ calls' = calls + 1
      /\ Len(tokens) < MaxTokens /\ tokens' = Issue(Len(tokens) + 1, tokens)
      /\ Hold("signin", s) /\ Go("signin", "write")
      /\ goto' = [goto EXCEPT !["signin"] = "off"]
      /\ UNCHANGED <<roster, store, cache, handle, stopping, losses, crashes>>
  BY DEF SignIn, Call
<1>2. "signin" \in Actors /\ "write" \in Places
  BY <1>1, DrainIsActor DEF Places
<1>3. TokensOK(tokens') /\ Len(tokens') = Len(tokens) + 1
  BY <1>1, NewFamily DEF Inv
<1>4. s \in Sessions /\ s.refresh = Len(tokens')
  BY <1>3, InvFacts DEF Sessions
<1> HIDE DEF s
<1>5. Len(tokens) <= Len(tokens') /\ Len(tokens') <= MaxTokens /\ Len(tokens') \in Nat
  BY <1>1, <1>3, InvFacts, BoundsAssumption
<1>7. Known(s, tokens')
  BY <1>4, <1>5 DEF Known
<1>6. goto' \in [Actors -> {"off", "run", "put"}] /\ calls' \in 0 .. MaxCalls
  <2>1. goto \in [Actors -> {"off", "run", "put"}] /\ goto' = [goto EXCEPT !["signin"] = "off"]
    BY <1>1, InvFacts
  <2>2. calls \in 0 .. MaxCalls /\ calls < MaxCalls /\ calls' = calls + 1
    BY <1>1, InvFacts
  <2>3. calls' \in 0 .. MaxCalls
    BY <2>2, BoundsAssumption
  <2> QED
    BY <2>1, <2>3
<1> QED
  BY <1>1, <1>2, <1>3, <1>5, <1>6, <1>7, InvFacts, GrowKeeps

(* The steps of the drain and of the commands that only move.              *)
LEMMA MovesKeep ==
    ASSUME Inv, NEW a \in Actors, NEW place \in Places \ {"ask"}, Go(a, place),
           UNCHANGED <<tokens, mem>>, roster' \in 1 .. MaxRoster,
           store' \in {store, SignedOut}, cache' \in {cache, SignedOut},
           goto' = goto \/ goto' = [goto EXCEPT ![a] = "off"],
           handle' \in BOOLEAN, stopping' \in BOOLEAN,
           calls' \in 0 .. MaxCalls, losses' \in 0 .. MaxLosses, crashes' \in 0 .. MaxCrashes
    PROVE  Inv'
<1>1. Known(store', tokens) /\ Known(cache', tokens)
  BY InvFacts, SignedOutKnown
<1>2. goto' \in [Actors -> {"off", "run", "put"}]
  BY InvFacts
<1> QED
  BY <1>1, <1>2, StayKeeps

(* Every step that only moves one actor.                                   *)
LEMMA DrainMovesKeep ==
    ASSUME Inv, DrainStops \/ PasswordEnds \/ ClearStore \/ ClearCache \/ ChangePassword
    PROVE  Inv'
<1> USE DEF counters, relayVars, Places
<1>1. CASE DrainStops
  BY <1>1, InvFacts, DrainIsActor, MovesKeep DEF DrainStops
<1>2. CASE PasswordEnds
  BY <1>2, InvFacts, DrainIsActor, MovesKeep DEF PasswordEnds
<1>3. CASE ClearStore
  BY <1>3, InvFacts, DrainIsActor, MovesKeep DEF ClearStore
<1>4. CASE ClearCache
  BY <1>4, InvFacts, DrainIsActor, MovesKeep DEF ClearCache
<1>5. CASE ChangePassword
  <2>1. "password" \in Actors /\ calls' \in 0 .. MaxCalls
    BY <1>5, InvFacts, DrainIsActor, BoundsAssumption DEF ChangePassword, Call
  <2> QED
    BY <1>5, <2>1, InvFacts, MovesKeep DEF ChangePassword
<1> QED
  BY <1>1, <1>2, <1>3, <1>4, <1>5

LEMMA StopKeeps ==
    ASSUME Inv, NEW c \in Commands, Stop(c)
    PROVE  Inv'
<1> DEFINE place == IF handle THEN "join" ELSE Stopped(c)
<1>1. place \in Places \ {"ask"} /\ Go(c, place)
  BY InvFacts DEF Stop, Stopped, Places
<1> HIDE DEF place
<1>2. c \in Actors /\ calls' \in 0 .. MaxCalls
  BY InvFacts, DrainIsActor, BoundsAssumption DEF Stop, Call
<1>3. handle' \in BOOLEAN /\ stopping' \in BOOLEAN
  BY InvFacts DEF Stop
<1>4. UNCHANGED <<tokens, roster, store, cache, mem, losses, crashes>>
      /\ goto' = [goto EXCEPT ![c] = "off"]
  BY DEF Stop, relayVars
<1> QED
  BY <1>1, <1>2, <1>3, <1>4, InvFacts, MovesKeep

LEMMA JoinKeeps ==
    ASSUME Inv, NEW c \in Commands, Join(c)
    PROVE  Inv'
<1>1. Stopped(c) \in Places \ {"ask"} /\ c \in Actors
  BY DrainIsActor DEF Stopped, Places
<1>2. /\ UNCHANGED <<tokens, roster, store, cache, mem, goto, handle, calls, losses, crashes>>
      /\ stopping' \in BOOLEAN /\ Go(c, Stopped(c))
  BY DEF Join, relayVars, counters
<1> QED
  BY <1>1, <1>2, InvFacts, MovesKeep

LEMMA ExpireKeeps ==
    ASSUME Inv, Expire
    PROVE  Inv'
<1> DEFINE s == [cache EXCEPT !.refresh = 0]
           place == IF cache.signedIn THEN "write" ELSE "off"
<1>1. s \in Sessions /\ s.refresh = 0
  BY InvFacts, SessionFields DEF Known
<1>2. place \in Places /\ place # "ask"
  BY DEF Places
<1>3. /\ Go("drain", place) /\ Hold("drain", s)
      /\ goto' = [goto EXCEPT !["drain"] = "off"]
      /\ UNCHANGED <<tokens, roster, store, cache, handle, stopping, calls, losses, crashes>>
  BY DEF Expire, relayVars, counters
<1> HIDE DEF s, place
<1>4. Known(s, tokens)
  BY <1>1, InvFacts DEF Known
<1>5. goto' \in [Actors -> {"off", "run", "put"}]
  BY <1>3, InvFacts
<1> QED
  BY <1>2, <1>3, <1>4, <1>5, InvFacts, DrainIsActor, MoveKeeps

LEMMA EntryKeeps ==
    ASSUME Inv, Enable \/ Approve
    PROVE  Inv'
<1>1. calls' \in 0 .. MaxCalls
  BY InvFacts, BoundsAssumption DEF Enable, Approve, Call
<1>2. CASE Enable
  <2>1. /\ "enable" \in Actors /\ Go("enable", "spawn") /\ Hold("enable", cache)
        /\ UNCHANGED <<tokens, roster, store, cache, goto, handle, stopping, losses, crashes>>
    BY <1>2, DrainIsActor DEF Enable, Call, relayVars
  <2> QED
    BY <1>1, <2>1, InvFacts, MoveKeeps DEF Places
<1>3. CASE Approve
  <2>1. /\ "approve" \in Actors /\ Go("approve", "fetch") /\ Hold("approve", cache)
        /\ UNCHANGED <<tokens, roster, store, cache, goto, handle, stopping, losses, crashes>>
    BY <1>3, DrainIsActor DEF Approve, Call, relayVars
  <2> QED
    BY <1>1, <2>1, InvFacts, MoveKeeps DEF Places
<1> QED
  BY <1>2, <1>3

(* The roster counter a command holds is a number, whatever it was.        *)
LEMMA RosterKnown ==
    ASSUME Inv, NEW a \in Actors, NEW n \in Nat
    PROVE  Known([mem[a] EXCEPT !.roster = n], tokens)
<1>1. mem[a] \in Sessions /\ Known(mem[a], tokens)
  BY InvFacts
<1> QED
  BY <1>1, SessionFields DEF Known

LEMMA RosterStepsKeep ==
    ASSUME Inv, Reanchor \/ PutRoster \/ ApproveFails
    PROVE  Inv'
<1>0. "approve" \in Actors /\ "approve" \in Commands
  BY DrainIsActor DEF Reanchor, PutRoster, ApproveFails
<1>1. CASE Reanchor
  <2> DEFINE s == [mem["approve"] EXCEPT !.roster = roster]
             place == IF roster >= mem["approve"].roster THEN "merge" ELSE "off"
  <2>1. Known(s, tokens) /\ place \in Places /\ place # "ask"
    BY <1>0, InvFacts, RosterKnown DEF Places
  <2>2. /\ Go("approve", place) /\ Hold("approve", s)
        /\ goto' = [goto EXCEPT !["approve"] = "put"]
        /\ UNCHANGED <<tokens, roster, store, cache, handle, stopping, calls, losses, crashes>>
    BY <1>1 DEF Reanchor, relayVars, counters
  <2> HIDE DEF s, place
  <2>3. goto' \in [Actors -> {"off", "run", "put"}]
    BY <2>2, InvFacts
  <2> QED
    BY <1>0, <2>1, <2>2, <2>3, InvFacts, MoveKeeps
<1>2. CASE PutRoster
  <2>0. UNCHANGED <<tokens, store, cache, handle, stopping, calls, losses, crashes>>
    BY <1>2 DEF PutRoster, counters
  <2>1. CASE roster = mem["approve"].roster
    <3> DEFINE s == [mem["approve"] EXCEPT !.roster = roster']
    <3>1. /\ roster < MaxRoster /\ roster' = roster + 1
          /\ Go("approve", "merge") /\ Hold("approve", s)
          /\ goto' = [goto EXCEPT !["approve"] = "off"]
      BY <1>2, <2>1 DEF PutRoster
    <3>2. roster' \in 1 .. MaxRoster /\ roster' \in Nat
      BY <3>1, InvFacts, BoundsAssumption
    <3>3. Known(s, tokens)
      BY <1>0, <3>2, RosterKnown
    <3> HIDE DEF s
    <3>4. goto' \in [Actors -> {"off", "run", "put"}] /\ "merge" \in Places
      BY <3>1, InvFacts DEF Places
    <3> QED
      BY <1>0, <2>0, <3>1, <3>2, <3>3, <3>4, InvFacts, MoveKeeps
  <2>2. CASE roster # mem["approve"].roster
    <3>1. PICK next \in {"fetch", "off"} : Go("approve", next) /\ UNCHANGED <<roster, mem, goto>>
      BY <1>2, <2>2 DEF PutRoster
    <3>2. next \in Places \ {"ask"}
      BY DEF Places
    <3> QED
      BY <1>0, <2>0, <3>1, <3>2, InvFacts, MovesKeep
  <2> QED
    BY <2>1, <2>2
<1>3. CASE ApproveFails
  <2>1. /\ UNCHANGED <<tokens, store, cache, mem, goto, handle, stopping, calls, losses, crashes>>
        /\ Go("approve", "off") /\ "off" \in Places \ {"ask"}
    BY <1>3 DEF ApproveFails, counters, Places
  <2>2. roster' = roster \/ (roster' = roster + 1 /\ roster < MaxRoster)
    BY <1>3 DEF ApproveFails
  <2>3. roster' \in 1 .. MaxRoster
    BY <2>2, InvFacts, BoundsAssumption
  <2> QED
    BY <1>0, <2>1, <2>3, InvFacts, MovesKeep
<1> QED
  BY <1>1, <1>2, <1>3

LEMMA OtherApprovesKeeps ==
    ASSUME Inv, OtherApproves
    PROVE  Inv'
<1>1. roster' \in 1 .. MaxRoster
  BY InvFacts, BoundsAssumption DEF OtherApproves
<1> QED
  BY <1>1 DEF Inv, OtherApproves, counters

(* The drain's thread and the command move at once.                        *)
LEMMA SpawnKeeps ==
    ASSUME Inv, Spawn
    PROVE  Inv'
<1> DEFINE s == [mem["enable"] EXCEPT !.enabled = TRUE]
<1>0. "enable" \in Actors /\ "drain" \in Actors
  BY DrainIsActor DEF Spawn
<1>1. /\ pc' = [pc EXCEPT !["drain"] = "run", !["enable"] = "write"] /\ Hold("enable", s)
      /\ goto' = [goto EXCEPT !["enable"] = "off"] /\ handle' = TRUE
      /\ UNCHANGED <<tokens, roster, store, cache, stopping, calls, losses, crashes>>
  BY DEF Spawn, relayVars, counters
<1>2. mem["enable"] \in Sessions /\ Known(mem["enable"], tokens)
  BY <1>0, InvFacts
<1>3. Known(s, tokens)
  BY <1>2, SessionFields DEF Known
<1> HIDE DEF s
<1>4. /\ pc' \in [Actors -> Places] /\ mem' \in [Actors -> Sessions]
      /\ goto' \in [Actors -> {"off", "run", "put"}]
  BY <1>0, <1>1, <1>3, InvFacts DEF Hold, Known, Places
<1>5. ASSUME NEW b \in Actors
      PROVE  Known(mem'[b], tokens) /\ (pc'[b] = "ask" => mem'[b].refresh # 0)
  <2>1. Known(mem'[b], tokens)
    BY <1>1, <1>3, InvFacts DEF Hold
  <2>2. CASE b \in {"drain", "enable"}
    BY <1>0, <1>1, <2>1, <2>2, InvFacts
  <2>3. CASE b \notin {"drain", "enable"}
    BY <1>1, <2>1, <2>3, InvFacts DEF Hold, Inv
  <2> QED
    BY <2>2, <2>3
<1> QED
  BY <1>1, <1>4, <1>5 DEF Inv

LEMMA RestartKeeps ==
    ASSUME Inv, Restart
    PROVE  Inv'
<1>0. crashes' \in 0 .. MaxCrashes
  <2>1. crashes \in 0 .. MaxCrashes /\ crashes < MaxCrashes /\ crashes' = crashes + 1
    BY InvFacts DEF Restart
  <2> QED
    BY <2>1, BoundsAssumption
<1>1. /\ cache' = store /\ stopping' \in BOOLEAN
      /\ UNCHANGED <<tokens, roster, store, calls, losses>>
      /\ goto' \in [Actors -> {"off", "run", "put"}]
  BY DEF Restart, relayVars
<1>2. pc' \in [Actors -> Places] /\ \A b \in Actors : pc'[b] # "ask"
  BY DEF Restart, Places
<1>3. mem' = [a \in Actors |-> SignedOut]
  BY DEF Restart
<1>4. Known(SignedOut, tokens) /\ SignedOut \in Sessions
  BY InvFacts, SignedOutKnown DEF Known
<1>5. mem' \in [Actors -> Sessions] /\ \A b \in Actors : Known(mem'[b], tokens)
  BY <1>3, <1>4
<1>6. handle' \in BOOLEAN
  BY InvFacts DEF Restart, Known, Sessions
<1> QED
  BY <1>0, <1>1, <1>2, <1>5, <1>6 DEF Inv

-----------------------------------------------------------------------------
LEMMA InitInv == Init => Inv
<1> SUFFICES ASSUME Init PROVE Inv
  OBVIOUS
<1> DEFINE one == [family |-> 1, state |-> "live"]
<1>1. one \in Tokens /\ one.family = 1
  BY DEF Tokens
<1>2. tokens = <<one>>
  BY DEF Init
<1> HIDE DEF one
<1>3. tokens \in Seq(Tokens) /\ Len(tokens) = 1 /\ tokens[1] = one
  BY <1>1, <1>2
<1>4. TokensOK(tokens) /\ Len(tokens) <= MaxTokens
  BY <1>1, <1>3, BoundsAssumption DEF TokensOK
<1>5. PICK on \in BOOLEAN :
         /\ store = [signedIn |-> TRUE, refresh |-> 1, roster |-> 1, enabled |-> on]
         /\ cache = store /\ handle = on
         /\ pc = [a \in Actors |-> IF a = "drain" /\ on THEN "run" ELSE "off"]
  BY DEF Init
<1>6. store \in Sessions /\ store.refresh = 1
  BY <1>5 DEF Sessions
<1>7. Known(store, tokens) /\ Known(cache, tokens)
  BY <1>3, <1>5, <1>6 DEF Known
<1>8. pc \in [Actors -> Places] /\ \A b \in Actors : pc[b] # "ask"
  BY <1>5 DEF Places
<1>9. Known(SignedOut, tokens) /\ SignedOut \in Sessions
  BY <1>3, SignedOutKnown DEF Known
<1>10. /\ mem \in [Actors -> Sessions] /\ \A b \in Actors : Known(mem[b], tokens)
       /\ goto \in [Actors -> {"off", "run", "put"}]
  BY <1>9 DEF Init
<1>11. /\ roster \in 1 .. MaxRoster /\ stopping \in BOOLEAN /\ calls \in 0 .. MaxCalls
       /\ losses \in 0 .. MaxLosses /\ crashes \in 0 .. MaxCrashes
  <2>1. roster = 1 /\ calls = 0 /\ losses = 0 /\ crashes = 0
    BY DEF Init
  <2>2. stopping \in BOOLEAN
    BY Zenon DEF Init
  <2> QED
    BY <2>1, <2>2, BoundsAssumption
<1>12. handle \in BOOLEAN
  BY <1>5
<1> QED
  BY <1>4, <1>7, <1>8, <1>10, <1>11, <1>12 DEF Inv

LEMMA NextInv == Inv /\ [Next]_vars => Inv'
<1> SUFFICES ASSUME Inv, [Next]_vars PROVE Inv'
  OBVIOUS
<1>1. CASE Session
  BY <1>1, StoreStepsKeep, RelayRefreshKeeps, ExpireKeeps, DrainMovesKeep, JoinKeeps, SpawnKeeps,
     RosterStepsKeep DEF Session
<1>2. CASE User
  BY <1>2, StopKeeps, SignInKeeps, EntryKeeps, DrainMovesKeep DEF User
<1>3. CASE \E a \in Refreshers : RefreshLoad(a) \/ RefreshLost(a)
  BY <1>3, LoadKeeps, RefreshLostKeeps
<1>4. CASE ApproveFails \/ OtherApproves \/ Restart
  BY <1>4, RosterStepsKeep, OtherApprovesKeeps, RestartKeeps
<1>5. CASE UNCHANGED vars
  BY <1>5 DEF vars, Inv
<1> QED
  BY <1>1, <1>2, <1>3, <1>4, <1>5 DEF Next

LEMMA InvSound == Inv => TokensSound
<1> SUFFICES ASSUME Inv PROVE TokensSound
  OBVIOUS
<1>1. goto \in [Actors -> Places]
  BY InvFacts DEF Places
<1>2. \A s \in {store, cache} \cup {mem[a] : a \in Actors} : s.refresh \in 0 .. Len(tokens)
  BY InvFacts DEF Known
<1>3. TypeOK
  BY <1>1, <1>2, InvFacts DEF TypeOK, Known
<1>4. OneLivePerFamily
  BY InvFacts, LenProperties DEF OneLivePerFamily, Inv, TokensOK
<1> QED
  BY <1>3, <1>4 DEF TokensSound

(* For any number of devices' calls, lost answers and restarts: the        *)
(* desktop never names a token that the relay did not issue, and a family  *)
(* never has two ways to go on (auth.rs, refresh_tokens).                  *)
THEOREM TokensSoundHolds == Spec => []TokensSound
<1>1. Spec => []Inv
  BY InitInv, NextInv, PTL DEF Spec
<1> QED
  BY <1>1, InvSound, PTL

-----------------------------------------------------------------------------
(* While only account commands are offered: who may hold what beside a     *)
(* running drain.  A drain holds a signed-in record and the relay's last   *)
(* token when it writes; a sign-in and the erasing half of a sign-out run  *)
(* only without a drain; a running drain has its handle registered or a    *)
(* sign-out waiting for it.                                                *)
DrainOff == pc["drain"] = "off"

Holding == {"ask", "write", "publish"}

AccountInv ==
    /\ ~DrainOff => store.signedIn /\ cache.signedIn
    /\ pc["drain"] \in Holding => mem["drain"].signedIn
    /\ pc["drain"] = "write" => mem["drain"].refresh \in {0, Len(tokens)}
    /\ "approve" \in Commands =>
          /\ pc["approve"] # "write"
          /\ pc["approve"] \in Holding => mem["approve"].signedIn
    /\ "signout" \in Commands =>
          /\ pc["signout"] \in {"off", "join", "clear", "forget"}
          /\ pc["signout"] \in {"clear", "forget"} => DrainOff
    /\ DrainOff \/ handle \/ ("signout" \in Commands /\ pc["signout"] = "join")
    /\ "signin" \in Commands =>
          /\ pc["signin"] \in {"off", "write", "publish", "run", "put"}
          /\ pc["signin"] \in {"write", "publish"} => DrainOff
          /\ pc["signin"] = "write" => mem["signin"].refresh = Len(tokens)

(* What a step does to the disk's record, and the invariant after it.      *)
AccountStep == AccountInv' /\ TokenForward /\ SignedInBySignIn

Quiet == \A c \in Settings : pc[c] = "off" /\ pc'[c] = "off"

(* Nobody but the actor moves.                                             *)
LEMMA GoFacts ==
    ASSUME Inv, NEW a \in Actors, NEW place, Go(a, place)
    PROVE  pc'[a] = place /\ \A b \in Actors : b # a => pc'[b] = pc[b]
BY InvFacts DEF Go

LEMMA HoldFacts ==
    ASSUME Inv, NEW a \in Actors, NEW s, Hold(a, s)
    PROVE  mem'[a] = s /\ \A b \in Actors : b # a => mem'[b] = mem[b]
BY InvFacts DEF Hold

LEMMA ActorNames ==
    /\ "drain" \in Actors
    /\ "approve" \in Commands => "approve" \in Actors
    /\ "signin" \in Commands => "signin" \in Actors
    /\ "signout" \in Commands => "signout" \in Actors
    /\ \A a \in Actors : a \in {"drain", "approve", "signin", "signout"} \cup Settings
    /\ \A a \in Actors : a # "drain" => a \in Commands
BY CommandsAssumption DEF Actors, AllCommands, Settings

(* A step that leaves the disk alone.                                      *)
LEMMA DiskStays ==
    ASSUME UNCHANGED store, Inv
    PROVE  TokenForward /\ SignedInBySignIn
<1>1. store.refresh \in Nat
  BY DEF Inv, Known, Sessions
<1> QED
  BY <1>1 DEF TokenForward, SignedInBySignIn

LEMMA AccountWrite ==
    ASSUME Inv, AccountInv, Quiet, NEW a \in Actors, WriteStore(a)
    PROVE  AccountStep
<1>1. /\ pc[a] = "write" /\ store' = mem[a] /\ Go(a, "publish")
      /\ UNCHANGED <<tokens, cache, mem, handle>>
  BY DEF WriteStore, At, relayVars
<1>2. pc'[a] = "publish" /\ \A b \in Actors : b # a => pc'[b] = pc[b]
  BY <1>1, GoFacts
<1>3. /\ store.refresh \in 0 .. Len(tokens) /\ Len(tokens) \in Nat
      /\ store.signedIn \in BOOLEAN /\ mem[a].signedIn \in BOOLEAN
  BY InvFacts DEF Known, Sessions
<1>4. CASE a = "drain"
  <2>1. store.signedIn /\ mem[a].signedIn /\ mem[a].refresh \in {0, Len(tokens)}
    BY <1>1, <1>4 DEF AccountInv, DrainOff, Holding
  <2>2. TokenForward /\ SignedInBySignIn
    BY <1>1, <1>3, <2>1 DEF TokenForward, SignedInBySignIn
  <2>3. AccountInv'
    BY <1>1, <1>2, <1>4, <2>1, ActorNames DEF AccountInv, DrainOff, Holding
  <2> QED
    BY <2>2, <2>3 DEF AccountStep
<1>5. CASE a = "signin"
  <2>1. mem[a].refresh = Len(tokens) /\ DrainOff /\ a \in Commands
    BY <1>1, <1>5, ActorNames DEF AccountInv
  <2>2. TokenForward /\ SignedInBySignIn
    BY <1>1, <1>3, <1>5, <2>1 DEF TokenForward, SignedInBySignIn, At
  <2>3. AccountInv'
    BY <1>1, <1>2, <1>5, <2>1, ActorNames DEF AccountInv, DrainOff, Holding
  <2> QED
    BY <2>2, <2>3 DEF AccountStep
<1>6. CASE a \notin {"drain", "signin"}
  BY <1>1, <1>6, ActorNames DEF AccountInv, Quiet
<1> QED
  BY <1>4, <1>5, <1>6

LEMMA AccountPublish ==
    ASSUME Inv, AccountInv, Quiet, NEW a \in Actors, Publish(a)
    PROVE  AccountStep
<1>1. /\ pc[a] = "publish" /\ cache' = mem[a] /\ Go(a, goto[a])
      /\ UNCHANGED <<tokens, store, mem, handle>>
  BY DEF Publish, At, relayVars
<1>2. pc'[a] = goto[a] /\ \A b \in Actors : b # a => pc'[b] = pc[b]
  BY <1>1, GoFacts
<1>3. goto[a] \in {"off", "run", "put"}
  BY InvFacts
<1>4. a \in {"drain", "approve", "signin"}
  BY <1>1, ActorNames DEF AccountInv, Quiet
<1>5. a # "signin" => mem[a].signedIn
  BY <1>1, <1>4, ActorNames DEF AccountInv, Holding
<1>6. AccountInv'
  <2>1. CASE a = "drain"
    BY <1>1, <1>2, <1>3, <1>5, <2>1, ActorNames DEF AccountInv, DrainOff, Holding
  <2>2. CASE a = "approve"
    BY <1>1, <1>2, <1>3, <1>5, <2>2, ActorNames DEF AccountInv, DrainOff, Holding
  <2>3. CASE a = "signin"
    BY <1>1, <1>2, <1>3, <2>3, ActorNames DEF AccountInv, DrainOff, Holding
  <2> QED
    BY <1>4, <2>1, <2>2, <2>3
<1> QED
  BY <1>1, <1>6, DiskStays DEF AccountStep

LEMMA AccountUpdate ==
    ASSUME Inv, AccountInv, Quiet, NEW a \in Actors, UpdateStore(a)
    PROVE  AccountStep
<1>0. pc[a] = "merge" /\ UNCHANGED <<tokens, cache, handle>>
  BY DEF UpdateStore, At, relayVars
<1>1. a \in {"drain", "approve"}
  BY <1>0, ActorNames DEF AccountInv, Quiet
<1>2. CASE store.signedIn
  <2>1. store' = Merged(a) /\ Hold(a, Merged(a)) /\ Go(a, "publish")
    BY <1>2 DEF UpdateStore
  <2>2. Merged(a).refresh = store.refresh /\ Merged(a).signedIn
    BY <1>2, MergedKnown
  <2>3. pc'[a] = "publish" /\ \A b \in Actors : b # a => pc'[b] = pc[b]
    BY <2>1, GoFacts
  <2>4. mem'[a] = Merged(a) /\ \A b \in Actors : b # a => mem'[b] = mem[b]
    BY <2>1, HoldFacts
  <2>5. store.refresh \in Nat
    BY InvFacts DEF Known, Sessions
  <2>6. TokenForward /\ SignedInBySignIn
    BY <1>2, <2>1, <2>2, <2>5 DEF TokenForward, SignedInBySignIn
  <2>7. AccountInv'
    <3>1. CASE a = "drain"
      BY <1>0, <1>2, <2>1, <2>2, <2>3, <2>4, <3>1, ActorNames DEF AccountInv, DrainOff, Holding
    <3>2. CASE a = "approve"
      BY <1>0, <1>2, <2>1, <2>2, <2>3, <2>4, <3>2, ActorNames DEF AccountInv, DrainOff, Holding
    <3> QED
      BY <1>1, <3>1, <3>2
  <2> QED
    BY <2>6, <2>7 DEF AccountStep
<1>3. CASE ~store.signedIn
  <2>1. Go(a, "off") /\ UNCHANGED <<store, mem>>
    BY <1>3 DEF UpdateStore
  <2>2. pc'[a] = "off" /\ \A b \in Actors : b # a => pc'[b] = pc[b]
    BY <2>1, GoFacts
  <2>3. AccountInv'
    <3>1. CASE a = "drain"
      BY <1>0, <2>1, <2>2, <3>1, ActorNames DEF AccountInv, DrainOff, Holding
    <3>2. CASE a = "approve"
      BY <1>0, <2>1, <2>2, <3>2, ActorNames DEF AccountInv, DrainOff, Holding
    <3> QED
      BY <1>1, <3>1, <3>2
  <2> QED
    BY <2>1, <2>3, DiskStays DEF AccountStep
<1> QED
  BY <1>2, <1>3

(* A step of the drain's refresh.                                          *)
LEMMA AccountDrain ==
    ASSUME Inv, AccountInv, UNCHANGED <<store, cache, handle>>, ~DrainOff,
           NEW place, Go("drain", place), NEW s, Hold("drain", s),
           place \in Holding => s.signedIn,
           place = "write" => s.refresh \in {0, Len(tokens')}
    PROVE  AccountStep
<1>1. pc'["drain"] = place /\ \A b \in Actors : b # "drain" => pc'[b] = pc[b]
  BY GoFacts, ActorNames
<1>2. mem'["drain"] = s /\ \A b \in Actors : b # "drain" => mem'[b] = mem[b]
  BY HoldFacts, ActorNames
<1>3. "signin" \in Commands => pc["signin"] \in {"off", "run", "put"}
  BY DEF AccountInv
<1>4. AccountInv'
  BY <1>1, <1>2, <1>3, ActorNames DEF AccountInv, DrainOff, Holding
<1> QED
  BY <1>4, DiskStays DEF AccountStep

LEMMA AccountRefresh ==
    ASSUME Inv, AccountInv, Quiet, NEW a \in Refreshers,
           RelayRefresh(a) \/ RefreshLoad(a) \/ RefreshLost(a)
    PROVE  AccountStep
<1>0. pc[a] # "off" /\ a = "drain" /\ ~DrainOff
  BY DEF RelayRefresh, RefreshLoad, RefreshLost, At, Quiet, Settings, Refreshers, DrainOff
<1>1. CASE RelayRefresh(a)
  <2>1. pc[a] = "ask" /\ mem[a].signedIn /\ UNCHANGED <<store, cache, handle>>
    BY <1>0, <1>1 DEF RelayRefresh, At, AccountInv, Holding
  <2>2. CASE Accepted(mem[a].refresh)
    <3> DEFINE s == [mem[a] EXCEPT !.refresh = Len(tokens')]
    <3>1. Hold(a, s) /\ Go(a, "write")
      BY <1>1, <2>2 DEF RelayRefresh
    <3>2. Len(tokens') \in Nat
      BY NextInv, <1>1, LenProperties DEF Next, Session, Inv, TokensOK
    <3>3. s.signedIn /\ s.refresh = Len(tokens')
      BY <1>0, <2>1, <3>2, InvFacts, SessionFields, ActorNames
    <3> HIDE DEF s
    <3> QED
      BY <1>0, <2>1, <3>1, <3>3, AccountDrain
  <2>3. CASE ~Accepted(mem[a].refresh)
    <3>1. Go(a, "rejected") /\ Hold(a, mem[a])
      BY <1>1, <2>3, InvFacts DEF RelayRefresh, Hold
    <3>2. "rejected" \notin Holding
      BY DEF Holding
    <3> QED
      BY <1>0, <2>1, <3>1, <3>2, AccountDrain
  <2> QED
    BY <2>2, <2>3
<1>2. CASE RefreshLoad(a)
  <2> DEFINE place == IF cache.signedIn /\ cache.refresh # 0 THEN "ask" ELSE "rejected"
  <2>1. Go(a, place) /\ Hold(a, cache) /\ UNCHANGED <<store, cache, handle>> /\ place # "write"
    BY <1>2 DEF RefreshLoad
  <2>2. cache.signedIn
    BY <1>0 DEF AccountInv
  <2> HIDE DEF place
  <2> QED
    BY <1>0, <2>1, <2>2, AccountDrain
<1>3. CASE RefreshLost(a)
  <2>1. Go(a, "run") /\ Hold(a, mem[a]) /\ UNCHANGED <<store, cache, handle>> /\ "run" \notin Holding
    BY <1>0, <1>3, InvFacts DEF RefreshLost, Later, Hold, Holding
  <2> QED
    BY <1>0, <2>1, AccountDrain
<1> QED
  BY <1>1, <1>2, <1>3

LEMMA AccountEnds ==
    ASSUME Inv, AccountInv, Expire \/ DrainStops
    PROVE  AccountStep
<1>0. ~DrainOff
  BY DEF Expire, DrainStops, At, DrainOff
<1>1. CASE Expire
  <2> DEFINE s == [cache EXCEPT !.refresh = 0]
  <2>1. Go("drain", "write") /\ Hold("drain", s) /\ UNCHANGED <<store, cache, handle>>
    BY <1>0, <1>1 DEF Expire, AccountInv
  <2>2. cache.signedIn /\ cache \in Sessions
    BY <1>0, InvFacts DEF AccountInv, Known
  <2>3. s.signedIn /\ s.refresh = 0
    BY <2>2, SessionFields
  <2> HIDE DEF s
  <2> QED
    BY <1>0, <2>1, <2>3, AccountDrain
<1>2. CASE DrainStops
  <2>1. Go("drain", "off") /\ Hold("drain", mem["drain"]) /\ UNCHANGED <<store, cache, handle>>
        /\ "off" \notin Holding
    BY <1>2, InvFacts DEF DrainStops, Hold, Holding
  <2> QED
    BY <1>0, <2>1, AccountDrain
<1> QED
  BY <1>1, <1>2

LEMMA AccountSignOut ==
    ASSUME Inv, AccountInv, Quiet,
           \/ ClearStore \/ ClearCache
           \/ \E c \in {"disable", "signout"} \cap Commands : Join(c)
           \/ \E c \in Commands : Stop(c)
    PROVE  AccountStep
<1>1. CASE ClearStore
  <2>1. /\ "signout" \in Actors /\ "signout" \in Commands /\ pc["signout"] = "clear"
        /\ store' = SignedOut /\ Go("signout", "forget") /\ UNCHANGED <<tokens, cache, mem, handle>>
    BY <1>1, ActorNames DEF ClearStore, At, relayVars
  <2>2. DrainOff
    BY <2>1 DEF AccountInv
  <2>3. pc'["signout"] = "forget" /\ \A b \in Actors : b # "signout" => pc'[b] = pc[b]
    BY <2>1, GoFacts
  <2>4. AccountInv'
    BY <2>1, <2>2, <2>3, ActorNames DEF AccountInv, DrainOff
  <2>5. TokenForward /\ SignedInBySignIn
    BY <2>1 DEF TokenForward, SignedInBySignIn, SignedOut
  <2> QED
    BY <2>4, <2>5 DEF AccountStep
<1>2. CASE ClearCache
  <2>1. /\ "signout" \in Actors /\ "signout" \in Commands /\ pc["signout"] = "forget"
        /\ Go("signout", "off") /\ UNCHANGED <<tokens, store, mem, handle>>
    BY <1>2, ActorNames DEF ClearCache, At, relayVars
  <2>2. DrainOff
    BY <2>1 DEF AccountInv
  <2>3. pc'["signout"] = "off" /\ \A b \in Actors : b # "signout" => pc'[b] = pc[b]
    BY <2>1, GoFacts
  <2>4. AccountInv'
    BY <2>1, <2>2, <2>3, ActorNames DEF AccountInv, DrainOff
  <2> QED
    BY <2>1, <2>4, DiskStays DEF AccountStep
<1>3. ASSUME NEW c \in {"disable", "signout"} \cap Commands, Join(c)
      PROVE  AccountStep
  <2>1. c = "signout" /\ c \in Actors /\ c \in Commands
    BY <1>3, ActorNames DEF Join, At, Quiet, Settings
  <2>2. DrainOff /\ Go(c, "clear") /\ UNCHANGED <<tokens, store, cache, mem, handle>>
    BY <1>3, <2>1 DEF Join, Joined, Stopped, At, DrainOff, relayVars
  <2>3. pc'[c] = "clear" /\ \A b \in Actors : b # c => pc'[b] = pc[b]
    BY <2>1, <2>2, GoFacts
  <2>4. AccountInv'
    BY <2>1, <2>2, <2>3, ActorNames DEF AccountInv, DrainOff
  <2> QED
    BY <2>2, <2>4, DiskStays DEF AccountStep
<1>4. ASSUME NEW c \in Commands, Stop(c)
      PROVE  AccountStep
  <2> DEFINE place == IF handle THEN "join" ELSE Stopped(c)
  <2>1. /\ c \in {"disable", "signout"} /\ c \in Actors /\ pc[c] = "off" /\ Go(c, place)
        /\ UNCHANGED <<tokens, store, cache, mem>>
    BY <1>4, DrainIsActor DEF Stop, Call, At, relayVars
  <2>2. pc'[c] = place /\ \A b \in Actors : b # c => pc'[b] = pc[b]
    BY <2>1, GoFacts
  <2>3. c = "signout"
    BY <2>1, <2>2 DEF Quiet, Settings, Stopped
  <2>4. CASE handle
    <3>1. pc'[c] = "join"
      BY <2>2, <2>4
    <3> QED
      BY <2>1, <2>2, <2>3, <3>1, ActorNames, DiskStays DEF AccountInv, DrainOff, AccountStep
  <2>5. CASE ~handle
    <3>1. pc'[c] = "clear" /\ DrainOff
      BY <2>1, <2>2, <2>3, <2>5 DEF Stopped, AccountInv
    <3> QED
      BY <2>1, <2>2, <2>3, <3>1, ActorNames, DiskStays DEF AccountInv, DrainOff, AccountStep
  <2> QED
    BY <2>4, <2>5
<1> QED
  BY <1>1, <1>2, <1>3, <1>4

LEMMA AccountSignIn ==
    ASSUME Inv, AccountInv, SignIn
    PROVE  AccountStep
<1> DEFINE s == [signedIn |-> TRUE, refresh |-> Len(tokens'), roster |-> roster, enabled |-> FALSE]
<1>1. /\ "signin" \in Commands /\ "signin" \in Actors /\ DrainOff
      /\ Hold("signin", s) /\ Go("signin", "write") /\ UNCHANGED <<store, cache, handle>>
  BY ActorNames DEF SignIn, Call, At, DrainOff
<1>2. s.refresh = Len(tokens')
  OBVIOUS
<1> HIDE DEF s
<1>3. pc'["signin"] = "write" /\ \A b \in Actors : b # "signin" => pc'[b] = pc[b]
  BY <1>1, GoFacts
<1>4. mem'["signin"] = s /\ \A b \in Actors : b # "signin" => mem'[b] = mem[b]
  BY <1>1, HoldFacts
<1>5. AccountInv'
  BY <1>1, <1>2, <1>3, <1>4, ActorNames DEF AccountInv, DrainOff, Holding
<1> QED
  BY <1>1, <1>5, DiskStays DEF AccountStep

(* The approval of a device moves, and nobody else does.                   *)
LEMMA AccountApprove ==
    ASSUME Inv, AccountInv, Approve \/ Reanchor \/ PutRoster \/ ApproveFails
    PROVE  AccountStep
<1>1. /\ "approve" \in Actors /\ "approve" \in Commands
      /\ UNCHANGED <<tokens, store, cache, handle>>
  BY ActorNames DEF Approve, Call, Reanchor, PutRoster, ApproveFails, relayVars
<1>2. PICK place \in {"off", "fetch", "merge"} : Go("approve", place)
  BY DEF Approve, Reanchor, PutRoster, ApproveFails
<1>3. \E s : Hold("approve", s)
  <2>1. UNCHANGED mem => Hold("approve", mem["approve"])
    BY InvFacts DEF Hold
  <2> QED
    BY <2>1 DEF Approve, Reanchor, PutRoster, ApproveFails
<1>4. pc'["approve"] = place /\ \A b \in Actors : b # "approve" => pc'[b] = pc[b]
  BY <1>1, <1>2, GoFacts
<1>5. \A b \in Actors : b # "approve" => mem'[b] = mem[b]
  BY <1>1, <1>3, HoldFacts
<1>6. AccountInv'
  BY <1>1, <1>4, <1>5, ActorNames DEF AccountInv, DrainOff, Holding
<1> QED
  BY <1>1, <1>6, DiskStays DEF AccountStep

LEMMA AccountRestart ==
    ASSUME Inv, AccountInv, Restart
    PROVE  AccountStep
<1>1. cache' = store /\ UNCHANGED <<tokens, store>>
  BY DEF Restart, relayVars
<1>2. /\ \A a \in Actors : a # "drain" => pc'[a] = "off"
      /\ pc'["drain"] \in {"off", "run"}
      /\ pc'["drain"] # "off" => store.signedIn /\ handle'
  BY ActorNames DEF Restart
<1>3. AccountInv'
  BY <1>1, <1>2, ActorNames DEF AccountInv, DrainOff, Holding
<1> QED
  BY <1>1, <1>3, DiskStays DEF AccountStep

LEMMA AccountNext ==
    ASSUME Inv, AccountInv, Quiet, Next
    PROVE  AccountStep
<1>1. ~Spawn /\ ~PasswordEnds
  BY DEF Spawn, PasswordEnds, At, Quiet, Settings
<1>2. ~Enable /\ ~ChangePassword
  <2>1. CASE Enable
    <3>1. "enable" \in Actors /\ Go("enable", "spawn")
      BY <2>1, DrainIsActor DEF Enable, Call
    <3> QED
      BY <3>1, GoFacts DEF Quiet, Settings
  <2>2. CASE ChangePassword
    <3>1. "password" \in Actors /\ Go("password", "reply")
      BY <2>2, DrainIsActor DEF ChangePassword, Call
    <3> QED
      BY <3>1, GoFacts DEF Quiet, Settings
  <2> QED
    BY <2>1, <2>2
<1>3. OtherApproves => AccountStep
  <2> SUFFICES ASSUME OtherApproves PROVE AccountStep
    OBVIOUS
  <2>1. AccountInv'
    BY DEF OtherApproves, AccountInv, DrainOff
  <2> QED
    BY <2>1, DiskStays DEF OtherApproves, AccountStep
<1>4. Session => AccountStep
  BY <1>1, AccountWrite, AccountPublish, AccountUpdate, AccountRefresh, AccountEnds, AccountSignOut,
     AccountApprove DEF Session
<1>5. User => AccountStep
  BY <1>2, AccountSignOut, AccountSignIn, AccountApprove DEF User
<1> QED
  BY <1>3, <1>4, <1>5, AccountRefresh, AccountApprove, AccountRestart DEF Next

LEMMA AccountInit == Init => AccountInv
<1> SUFFICES ASSUME Init PROVE AccountInv
  OBVIOUS
<1>1. PICK on \in BOOLEAN :
         /\ store = [signedIn |-> TRUE, refresh |-> 1, roster |-> 1, enabled |-> on]
         /\ cache = store /\ handle = on
         /\ pc = [a \in Actors |-> IF a = "drain" /\ on THEN "run" ELSE "off"]
  BY DEF Init
<1>2. store.signedIn /\ cache.signedIn
  BY <1>1
<1>3. /\ \A a \in Actors : a # "drain" => pc[a] = "off"
      /\ pc["drain"] \in {"off", "run"}
      /\ pc["drain"] # "off" => handle
  BY <1>1, ActorNames
<1> QED
  BY <1>2, <1>3, ActorNames DEF AccountInv, DrainOff, Holding

(* For any number of calls, lost answers and restarts, while only account  *)
(* commands are offered (sync.rs): the record on disk never goes back to   *)
(* an older refresh token, and only a sign-in puts a session there.        *)
THEOREM SessionNeverBackHolds == OfferedSpec => SessionNeverBack
<1> DEFINE I == Inv /\ (account => AccountInv)
<1>1. OfferedInit => I
  BY InitInv, AccountInit DEF OfferedInit
<1>2. I /\ [OfferedNext]_<<vars, account>> => I' /\ [account => TokenForward /\ SignedInBySignIn]_vars
  <2> SUFFICES ASSUME I, [OfferedNext]_<<vars, account>>
               PROVE  I' /\ [account => TokenForward /\ SignedInBySignIn]_vars
    OBVIOUS
  <2>1. Inv'
    BY NextInv DEF OfferedNext
  <2>2. CASE OfferedNext
    <3>1. account => Quiet
      BY <2>2 DEF OfferedNext, Quiet, At
    <3>2. account => AccountStep
      BY <2>2, <3>1, AccountNext DEF OfferedNext
    <3> QED
      BY <2>1, <2>2, <3>2 DEF AccountStep, OfferedNext
  <2>3. CASE UNCHANGED <<vars, account>>
    BY <2>1, <2>3 DEF vars, AccountInv, DrainOff
  <2> QED
    BY <2>2, <2>3
<1> HIDE DEF I
<1>3. OfferedSpec => OfferedInit /\ [][OfferedNext]_<<vars, account>>
  BY PTL DEF OfferedSpec
<1> QED
  BY <1>1, <1>2, <1>3, PTL DEF SessionNeverBack
=============================================================================
