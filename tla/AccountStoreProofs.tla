-------------------------- MODULE AccountStoreProofs --------------------------
(* Proofs of AccountStore, for any calls, accounts and tiers. *)
EXTENDS AccountStore, TLAPS

-------------------------------------------------------------------------------
LEMMA NoCallType == NoCall \in [account : Accounts, tier : Tiers]
  BY AccountsAssumption, TierAssumption DEF NoCall

LEMMA AgesType ==
  ASSUME TypeOK, NEW a \in Accounts
  PROVE  Touched(a) \in [Accounts -> Nat] /\ Cleared(a) \in [Accounts -> Nat]
  BY DEF TypeOK, Touched, Cleared

LEMMA PlanOfType ==
  ASSUME TypeOK, NEW a \in Accounts
  PROVE  PlanOf(a) \in Tiers
  BY TierAssumption DEF TypeOK, PlanOf

LEMMA TypeInit == Init => TypeOK
  BY NoCallType DEF Init, TypeOK, Points, SignInPoints, RefreshPoints

LEMMA TypeStep == TypeOK /\ [Next]_vars => TypeOK'
<1> SUFFICES ASSUME TypeOK, [Next]_vars PROVE TypeOK'
  OBVIOUS
<1> USE DEF TypeOK, Points, SignInPoints, RefreshPoints
<1>1. ASSUME NEW c \in Calls, NEW a \in Accounts, NEW t \in Tiers, SignInBegin(c, a, t)
      PROVE  TypeOK'
  BY <1>1 DEF SignInBegin
<1>2. ASSUME NEW c \in Calls, NEW a \in Accounts, SignOutBegin(c, a) \/ RefreshBegin(c, a)
      PROVE  TypeOK'
  BY <1>2 DEF SignOutBegin, RefreshBegin
<1>3. ASSUME NEW c \in Calls, Activate(c) \/ SaveIdentity(c) PROVE TypeOK'
  BY <1>3 DEF Activate, SaveIdentity, GoTo, Acct
<1>4. ASSUME NEW c \in Calls, SavePlan(c) PROVE TypeOK'
  BY <1>4 DEF SavePlan, GoTo, Acct
<1>5. ASSUME NEW c \in Calls, SaveSession(c) \/ SaveTokens(c) \/ Extend(c) PROVE TypeOK'
  BY <1>5, AgesType DEF SaveSession, SaveTokens, Extend, GoTo, Acct
<1>6. ASSUME NEW c \in Calls, Entitle(c) \/ Renew(c) PROVE TypeOK'
  <2>1. CASE Entitle(c)
    BY <2>1, NoCallType DEF Entitle, Return, Acct
  <2>2. CASE Renew(c)
    BY <2>2 DEF Renew, GoTo, Acct
  <2> QED
    BY <1>6, <2>1, <2>2
<1>7. ASSUME NEW c \in Calls, Clear(c) PROVE TypeOK'
  BY <1>7, AgesType, NoCallType DEF Clear, Return, Acct
<1>8. ASSUME NEW c \in Calls, RefreshRead(c) PROVE TypeOK'
  BY <1>8, PlanOfType DEF RefreshRead, Acct
<1>9. ASSUME NEW c \in Calls, Heartbeat(c) \/ CipherRaises(c) PROVE TypeOK'
  BY <1>9, NoCallType DEF Heartbeat, CipherRaises, Return, Acct
<1>10. ASSUME Restart PROVE TypeOK'
  BY <1>10, AgesType, NoCallType DEF Restart
<1>11. CASE UNCHANGED vars
  BY <1>11 DEF vars
<1> QED
  BY <1>1, <1>2, <1>3, <1>4, <1>5, <1>6, <1>7, <1>8, <1>9, <1>10, <1>11
     DEF Next, SignIn, Refresh

(* Every reachable state of the account tables and calls is well typed. *)
THEOREM AccountsTypeCorrect == Spec => []TypeOK
<1>1. Init => TypeOK
  BY TypeInit
<1>2. TypeOK /\ [Next]_vars => TypeOK'
  BY TypeStep
<1> QED
  BY <1>1, <1>2, PTL DEF Spec
-------------------------------------------------------------------------------
(* What holds of an account once a call has come so far with it. *)
Known(a) == a \in identities /\ plan[a] # None /\ a \in activated

(* The inductive invariant: what each call relies on at its next            *)
(* transaction.  No call deletes an identity, a plan or an activation.      *)
CallsInv ==
  \A c \in Calls :
    /\ pc[c] # "activate" /\ pc[c] \in SignInPoints => Acct(c) \in activated
    /\ pc[c] \in {"plan", "session", "tokens", "entitle"} => Acct(c) \in identities
    /\ pc[c] \in {"session", "tokens", "entitle"} \cup RefreshPoints => Known(Acct(c))
    /\ pc[c] \in {"session", "tokens", "entitle", "renew"} => call[c].tier \in planned[Acct(c)]

PlansInv == \A a \in Accounts : plan[a] # None => plan[a] \in planned[a]

AccountsInv == CallsInv /\ PlansInv /\ SessionHasAccount /\ EntitledWasPlanned

LEMMA AgesSignedIn ==
  ASSUME TypeOK, NEW a \in Accounts, NEW b \in Accounts, b # a, age[b] = 0
  PROVE  Touched(a)[b] = 0 /\ Cleared(a)[b] = 0
  BY DEF TypeOK, Touched, Cleared

LEMMA ClearedSignedOut ==
  ASSUME TypeOK, NEW a \in Accounts PROVE Cleared(a)[a] = 0
  BY DEF TypeOK, Cleared

LEMMA AccountsInit == Init => AccountsInv
  BY DEF Init, AccountsInv, CallsInv, PlansInv, SessionHasAccount, EntitledWasPlanned,
         SignedIn, SignInPoints, RefreshPoints

(* Accounts only get to be known better, tiers stay planned. *)
LEMMA KnownGrows ==
  ASSUME TypeOK, [Next]_vars
  PROVE  /\ identities \subseteq identities'
         /\ activated \subseteq activated'
         /\ \A a \in Accounts : plan[a] # None => plan'[a] # None
         /\ \A a \in Accounts : planned[a] \subseteq planned'[a]
<1> USE DEF TypeOK
<1>1. ASSUME NEW c \in Calls, SavePlan(c)
      PROVE  /\ UNCHANGED <<identities, activated>>
             /\ \A a \in Accounts : plan[a] # None => plan'[a] # None
             /\ \A a \in Accounts : planned[a] \subseteq planned'[a]
  BY <1>1, NoneAssumption DEF SavePlan, Acct
<1>2. CASE \E c \in Calls : SignIn(c) /\ ~SavePlan(c)
  BY <1>2 DEF SignIn, Activate, SaveIdentity, SaveSession, SaveTokens, Entitle
<1>3. CASE \E c \in Calls : Refresh(c) \/ Clear(c) \/ CipherRaises(c)
  BY <1>3 DEF Refresh, RefreshRead, Renew, Extend, Heartbeat, Clear, CipherRaises
<1>4. CASE \E c \in Calls, a \in Accounts : \/ \E t \in Tiers : SignInBegin(c, a, t)
                                            \/ SignOutBegin(c, a) \/ RefreshBegin(c, a)
  BY <1>4 DEF SignInBegin, SignOutBegin, RefreshBegin
<1>5. CASE Restart \/ UNCHANGED vars
  BY <1>5 DEF Restart, vars
<1> QED
  BY <1>1, <1>2, <1>3, <1>4, <1>5 DEF Next
(* A call that is not c keeps what it relies on. *)
LEMMA OtherCalls ==
  ASSUME TypeOK, AccountsInv, [Next]_vars,
         NEW d \in Calls, pc'[d] = pc[d], call'[d] = call[d]
  PROVE  /\ pc'[d] # "activate" /\ pc'[d] \in SignInPoints => Acct(d)' \in activated'
         /\ pc'[d] \in {"plan", "session", "tokens", "entitle"} => Acct(d)' \in identities'
         /\ pc'[d] \in {"session", "tokens", "entitle"} \cup RefreshPoints => Known(Acct(d))'
         /\ pc'[d] \in {"session", "tokens", "entitle", "renew"}
              => call'[d].tier \in planned'[Acct(d)']
<1>1. Acct(d)' = Acct(d) /\ Acct(d) \in Accounts
  BY DEF Acct, TypeOK
<1> QED
  BY <1>1, KnownGrows DEF AccountsInv, CallsInv, Known

LEMMA CallsStep ==
  ASSUME TypeOK, AccountsInv, [Next]_vars
  PROVE  CallsInv'
<1> USE DEF TypeOK, AccountsInv, SignInPoints, RefreshPoints, Acct
<1> SUFFICES ASSUME NEW d \in Calls, pc'[d] # pc[d] \/ call'[d] # call[d]
             PROVE  /\ pc'[d] # "activate" /\ pc'[d] \in SignInPoints => Acct(d)' \in activated'
                    /\ pc'[d] \in {"plan", "session", "tokens", "entitle"} => Acct(d)' \in identities'
                    /\ pc'[d] \in {"session", "tokens", "entitle"} \cup RefreshPoints => Known(Acct(d))'
                    /\ pc'[d] \in {"session", "tokens", "entitle", "renew"}
                         => call'[d].tier \in planned'[Acct(d)']
  BY OtherCalls DEF CallsInv
<1>0. Acct(d) \in Accounts /\ call[d].tier \in Tiers
  OBVIOUS
<1>1. CASE \E a \in Accounts, t \in Tiers, c \in Calls : SignInBegin(c, a, t)
  BY <1>1 DEF SignInBegin
<1>2. CASE \E a \in Accounts, c \in Calls : SignOutBegin(c, a)
  BY <1>2 DEF SignOutBegin
<1>3. CASE \E a \in Accounts, c \in Calls : RefreshBegin(c, a)
  BY <1>3 DEF RefreshBegin, SessionHasAccount, SignedIn, Active, Known
<1>4. CASE \E c \in Calls : Activate(c)
  BY <1>4 DEF Activate, GoTo
<1>5. CASE \E c \in Calls : SaveIdentity(c)
  BY <1>5 DEF SaveIdentity, GoTo, CallsInv
<1>6. CASE \E c \in Calls : SavePlan(c)
  BY <1>6, <1>0, NoneAssumption DEF SavePlan, GoTo, CallsInv, Known
<1>7. CASE \E c \in Calls : SaveSession(c) \/ SaveTokens(c)
  BY <1>7 DEF SaveSession, SaveTokens, GoTo, CallsInv, Known
<1>8. CASE \E c \in Calls : Entitle(c) \/ Heartbeat(c) \/ Clear(c) \/ CipherRaises(c)
  BY <1>8 DEF Entitle, Heartbeat, Clear, CipherRaises, Return
<1>9. CASE \E c \in Calls : RefreshRead(c)
  BY <1>9, <1>0, NoneAssumption DEF RefreshRead, PlanOf, CallsInv, Known, PlansInv
<1>10. CASE \E c \in Calls : Renew(c) \/ Extend(c)
  BY <1>10 DEF Renew, Extend, GoTo, CallsInv, Known
<1>11. CASE Restart
  BY <1>11 DEF Restart
<1>12. CASE UNCHANGED vars
  BY <1>12 DEF vars
<1> QED
  BY <1>1, <1>2, <1>3, <1>4, <1>5, <1>6, <1>7, <1>8, <1>9, <1>10, <1>11, <1>12
     DEF Next, SignIn, Refresh

LEMMA PlansStep ==
  ASSUME TypeOK, AccountsInv, [Next]_vars
  PROVE  PlansInv'
<1> USE DEF TypeOK, AccountsInv, PlansInv
<1>1. CASE \E c \in Calls : SavePlan(c)
  BY <1>1 DEF SavePlan, Acct
<1>2. CASE UNCHANGED plan
  BY <1>2, KnownGrows
<1> QED
  BY <1>1, <1>2
     DEF Next, vars, SignIn, Refresh, SignInBegin, SignOutBegin, RefreshBegin, Activate,
         SaveIdentity, SaveSession, SaveTokens, Entitle, Clear, RefreshRead, Renew, Extend,
         Heartbeat, CipherRaises, Restart

(* A session row is written only for a known account. *)
LEMMA SessionsStep ==
  ASSUME TypeOK, AccountsInv, [Next]_vars
  PROVE  SessionHasAccount'
<1>1. SUFFICES ASSUME NEW a \in Accounts, age'[a] # 0
               PROVE  Known(a)'
  BY DEF SessionHasAccount, SignedIn, Known
<1>2. CASE age[a] # 0
  <2>1. Known(a)
    BY <1>2 DEF AccountsInv, SessionHasAccount, SignedIn, Known
  <2> QED
    BY <2>1, KnownGrows DEF Known
<1>3. CASE age[a] = 0
  <2>1. CASE \E c \in Calls : SaveSession(c) \/ Extend(c)
    <3>1. PICK c \in Calls : SaveSession(c) \/ Extend(c)
      BY <2>1
    <3>2. Acct(c) = a
      BY <3>1, <1>1, <1>3, AgesSignedIn DEF SaveSession, Extend, TypeOK, Acct
    <3>3. Known(a)
      BY <3>1, <3>2 DEF SaveSession, Extend, AccountsInv, CallsInv, RefreshPoints
    <3> QED
      BY <3>3, KnownGrows DEF Known
  <2>2. CASE \E c \in Calls : Clear(c)
    BY <2>2, <1>1, <1>3, AgesSignedIn, ClearedSignedOut DEF Clear, TypeOK, Acct
  <2>3. CASE Restart
    BY <2>3, <1>1, <1>3, AgesSignedIn, ClearedSignedOut DEF Restart
  <2>4. CASE UNCHANGED age
    BY <2>4, <1>1, <1>3
  <2> QED
    BY <2>1, <2>2, <2>3, <2>4
       DEF Next, vars, SignIn, Refresh, SignInBegin, SignOutBegin, RefreshBegin, Activate,
           SaveIdentity, SavePlan, SaveTokens, Entitle, RefreshRead, Renew, Heartbeat,
           CipherRaises
<1> QED
  BY <1>2, <1>3

(* An entitlement is written only with a tier the plan has held. *)
LEMMA EntitledStep ==
  ASSUME TypeOK, AccountsInv, [Next]_vars
  PROVE  EntitledWasPlanned'
<1> USE DEF TypeOK, AccountsInv, EntitledWasPlanned
<1>1. CASE \E c \in Calls : Entitle(c) \/ Renew(c)
  BY <1>1 DEF Entitle, Renew, CallsInv, Acct
<1>2. CASE UNCHANGED entitled
  BY <1>2, KnownGrows
<1> QED
  BY <1>1, <1>2
     DEF Next, vars, SignIn, Refresh, SignInBegin, SignOutBegin, RefreshBegin, Activate,
         SaveIdentity, SavePlan, SaveSession, SaveTokens, Clear, RefreshRead, Extend,
         Heartbeat, CipherRaises, Restart

LEMMA AccountsInvariant == Spec => [](TypeOK /\ AccountsInv)
<1>1. Init => TypeOK /\ AccountsInv
  BY TypeInit, AccountsInit
<1>2. TypeOK /\ AccountsInv /\ [Next]_vars => (TypeOK /\ AccountsInv)'
  <2> SUFFICES ASSUME TypeOK, AccountsInv, [Next]_vars PROVE TypeOK' /\ AccountsInv'
    OBVIOUS
  <2>1. TypeOK'
    BY TypeStep
  <2>2. CallsInv' /\ PlansInv' /\ SessionHasAccount' /\ EntitledWasPlanned'
    BY CallsStep, PlansStep, SessionsStep, EntitledStep
  <2> QED
    BY <2>1, <2>2 DEF AccountsInv
<1> QED
  BY <1>1, <1>2, PTL DEF Spec

(* Whoever is signed in has an identity, a plan and an activation, however  *)
(* many calls overlap and wherever a crash cuts them.                       *)
THEOREM SessionHasAccountAlways == Spec => []SessionHasAccount
<1>1. AccountsInv => SessionHasAccount
  BY DEF AccountsInv
<1> QED
  BY <1>1, AccountsInvariant, PTL

(* The features of an account are always those of a plan it has had. *)
THEOREM EntitledWasPlannedAlways == Spec => []EntitledWasPlanned
<1>1. AccountsInv => EntitledWasPlanned
  BY DEF AccountsInv
<1> QED
  BY <1>1, AccountsInvariant, PTL
-------------------------------------------------------------------------------
(* Where an entitlement agrees with its plan, and what that takes of the    *)
(* calls under way.                                                         *)
Stale(c) == pc[c] \in {"session", "tokens", "entitle"}

Quiet == \A c \in Calls : pc[c] \notin SignInPoints

RightPlan(c) == call[c].tier = plan[Acct(c)]

InStep(a) ==
  /\ entitled[a] = plan[a]
  /\ \A c \in Calls : pc[c] = "renew" /\ Acct(c) = a => RightPlan(c)

(* While nobody signs in, an entitlement that has come to agree with its    *)
(* plan, with no refresh under way that has read another plan, agrees with  *)
(* it from then on: no refresh, sign-out or restart undoes what a refresh   *)
(* has repaired.  (That it comes to agree is RefreshRepairs.)               *)
RepairedStays ==
  [][\A a \in Accounts : InStep(a) /\ Quiet /\ Quiet' => InStep(a)']_vars

(* At rest every entitlement is that of the account's plan. *)
EntitlementIsPlan ==
  (\A c \in Calls : Idle(c)) => \A a \in Accounts : entitled[a] = plan[a]

(* Only the account of a sign-in that has written its plan may be behind.   *)
FollowsInv ==
  /\ \A a \in Accounts : entitled[a] # plan[a] => \E c \in Calls : Stale(c) /\ Acct(c) = a
  /\ \A c \in Calls : Stale(c) \/ pc[c] = "renew" => RightPlan(c)

LEMMA RepairedStep ==
  ASSUME TypeOK, AccountsInv, [Next]_vars, NEW a \in Accounts, InStep(a), Quiet, Quiet'
  PROVE  InStep(a)'
<1> USE DEF InStep, RightPlan
<1>t. /\ \A c \in Calls : Acct(c) \in Accounts /\ pc[c] \notin SignInPoints /\ pc'[c] \notin SignInPoints
      /\ pc \in [Calls -> Points] /\ call \in [Calls -> [account : Accounts, tier : Tiers]]
      /\ entitled \in [Accounts -> Tiers \cup {None}]
  BY DEF TypeOK, Acct, Quiet
<1>1. ASSUME NEW c \in Calls, RefreshRead(c) PROVE InStep(a)'
  <2>1. PlanOf(Acct(c)) = plan[Acct(c)]
    BY <1>1, <1>t DEF RefreshRead, AccountsInv, CallsInv, Known, RefreshPoints, PlanOf
  <2> QED
    BY <1>1, <1>t, <2>1 DEF RefreshRead, Acct
<1>2. ASSUME NEW c \in Calls, Renew(c) PROVE InStep(a)'
  BY <1>2, <1>t DEF Renew, GoTo, Acct
<1>3. ASSUME NEW c \in Calls, Extend(c) \/ Heartbeat(c) \/ Clear(c) PROVE InStep(a)'
  BY <1>3, <1>t DEF Extend, Heartbeat, Clear, GoTo, Return, Acct
<1>4. ASSUME NEW c \in Calls, NEW b \in Accounts, SignOutBegin(c, b) \/ RefreshBegin(c, b)
      PROVE  InStep(a)'
  BY <1>4, <1>t DEF SignOutBegin, RefreshBegin, Acct
<1>5. ASSUME NEW c \in Calls, NEW b \in Accounts, NEW t \in Tiers, SignInBegin(c, b, t)
      PROVE  FALSE
  BY <1>5, <1>t DEF SignInBegin, SignInPoints
<1>6. ASSUME NEW c \in Calls, SignIn(c) \/ CipherRaises(c) PROVE FALSE
  BY <1>6, <1>t DEF SignIn, CipherRaises, Activate, SaveIdentity, SavePlan, SaveSession,
                    SaveTokens, Entitle, SignInPoints
<1>7. CASE Restart
  BY <1>7 DEF Restart
<1>8. CASE UNCHANGED vars
  BY <1>8 DEF vars, Acct
<1> QED
  BY <1>1, <1>2, <1>3, <1>4, <1>5, <1>6, <1>7, <1>8 DEF Next, Refresh

THEOREM RepairedStaysAlways == Spec => RepairedStays
<1>1. TypeOK /\ AccountsInv /\ [Next]_vars
        => \A a \in Accounts : InStep(a) /\ Quiet /\ Quiet' => InStep(a)'
  BY RepairedStep
<1> QED
  BY <1>1, AccountsInvariant, PTL DEF Spec, RepairedStays

LEMMA FollowsStep ==
  ASSUME NEW c \in Calls, Calls = {c}, Faults = {}, TypeOK, AccountsInv, FollowsInv,
         [Next]_vars
  PROVE  FollowsInv'
<1> USE DEF FollowsInv, Stale, RightPlan, TypeOK
<1>t. \A d \in Calls : d = c /\ Acct(d) \in Accounts
  BY DEF Acct
<1>1. ASSUME NEW a \in Accounts, NEW t \in Tiers, SignInBegin(c, a, t) PROVE FollowsInv'
  BY <1>t, <1>1 DEF SignInBegin, Idle, Acct
<1>2. ASSUME NEW a \in Accounts, SignOutBegin(c, a) \/ RefreshBegin(c, a) PROVE FollowsInv'
  BY <1>t, <1>2 DEF SignOutBegin, RefreshBegin, Idle, Acct
<1>3. CASE Activate(c) \/ SaveIdentity(c)
  BY <1>t, <1>3 DEF Activate, SaveIdentity, GoTo, Acct
<1>4. CASE SavePlan(c)
  BY <1>t, <1>4 DEF SavePlan, GoTo, Acct
<1>5. CASE SaveSession(c) \/ SaveTokens(c)
  BY <1>t, <1>5 DEF SaveSession, SaveTokens, GoTo, Acct
<1>6. CASE Entitle(c)
  BY <1>t, <1>6 DEF Entitle, Return, Acct
<1>7. CASE Clear(c) \/ Heartbeat(c)
  BY <1>t, <1>7 DEF Clear, Heartbeat, Return, Acct
<1>8. CASE RefreshRead(c)
  <2>1. PlanOf(Acct(c)) = plan[Acct(c)]
    BY <1>8, <1>t DEF RefreshRead, AccountsInv, CallsInv, Known, RefreshPoints, PlanOf
  <2> QED
    BY <1>t, <1>8, <2>1 DEF RefreshRead, Acct
<1>9. CASE Renew(c) \/ Extend(c)
  BY <1>t, <1>9 DEF Renew, Extend, GoTo, Acct
<1>10. ~CipherRaises(c) /\ ~Restart
  BY DEF CipherRaises, Restart
<1>11. CASE UNCHANGED vars
  BY <1>11 DEF vars, Acct
<1> QED
  BY <1>t, <1>1, <1>2, <1>3, <1>4, <1>5, <1>6, <1>7, <1>8, <1>9, <1>10, <1>11
     DEF Next, SignIn, Refresh

(* Where calls neither overlap nor fail, nothing is left to repair: once    *)
(* the call has returned, an account may use just what its plan says.       *)
THEOREM EntitlementIsPlanSerial ==
  ASSUME NEW c \in Calls, Calls = {c}, Faults = {}
  PROVE  Spec => []EntitlementIsPlan
<1>1. Init => FollowsInv
  BY DEF Init, FollowsInv, Stale
<1>2. TypeOK /\ AccountsInv /\ FollowsInv /\ [Next]_vars => FollowsInv'
  BY FollowsStep
<1>3. FollowsInv => EntitlementIsPlan
  BY DEF FollowsInv, EntitlementIsPlan, Stale, Idle
<1> QED
  BY <1>1, <1>2, <1>3, AccountsInvariant, PTL DEF Spec
===============================================================================
