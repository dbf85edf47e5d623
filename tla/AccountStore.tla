----------------------------- MODULE AccountStore -----------------------------
(***************************************************************************)
(* The signed-in account of the desktop app and what it may use.           *)
(*                                                                         *)
(* AuthService keeps an account in six tables and writes each of them in a *)
(* transaction of its own, so a sign-in, a sign-out and a refresh that     *)
(* overlap, or a crash, leave any prefix of each other's writes:           *)
(*                                                                         *)
(*   sign-in   activation -> identity -> plan -> session -> tokens         *)
(*             -> entitlement                                              *)
(*   sign-out  read the active session -> delete session and tokens        *)
(*   refresh   read the active session -> read its plan -> entitlement     *)
(*             -> session -> activation                                    *)
(*                                                                         *)
(* An action is one transaction and the code up to the next.  The second   *)
(* activation upsert of a sign-in and the snapshot of the signed-out       *)
(* state rewrite what is there and are left out, as are the time stamps:   *)
(* nothing reads expires_at.  A call whose database call raises leaves the *)
(* tables as a call that never goes on does, which Spec allows.            *)
(***************************************************************************)
EXTENDS Naturals, FiniteSets

CONSTANTS
  Calls,        \* coroutines that may run a call of AuthService at once
  Accounts,     \* account ids
  Tiers,        \* plan tiers
  DefaultTier,  \* what normalize_plan makes of a missing tier
  Faults        \* "crash": the backend dies; "cipher": DPAPI fails

ASSUME AccountsAssumption == Accounts # {}
ASSUME TierAssumption == DefaultTier \in Tiers
ASSUME FaultAssumption == Faults \subseteq {"crash", "cipher"}

None == "none"
ASSUME NoneAssumption == None \notin Tiers

VARIABLES
  devMode,     \* settings.auth_dev_mode of the running backend
  identities,  \* accounts with a row in account_identities
  plan,        \* account_plans: the tier of each account, or None
  activated,   \* accounts with a row in device_activations
  age,         \* auth_sessions: 0 without a row, 1 for the one updated last
  tokens,      \* accounts with a row in auth_session_tokens
  entitled,    \* entitlement_snapshots: the tier of each account, or None
  planned,     \* history: the tiers that plan has held for each account
  pc,          \* the transaction each call does next
  call         \* the account and the tier a call works on

vars == <<devMode, identities, plan, activated, age, tokens, entitled, planned, pc, call>>
-------------------------------------------------------------------------------
SignInPoints  == {"activate", "identity", "plan", "session", "tokens", "entitle"}
RefreshPoints == {"read", "renew", "extend", "heartbeat"}
Points        == {"idle", "clear"} \cup SignInPoints \cup RefreshPoints

Idle(c)  == pc[c] = "idle"
Acct(c)  == call[c].account
SignedIn == {a \in Accounts : age[a] # 0}

(* get_active_auth_session: the row that was updated last. *)
Active(a) == age[a] = 1

(* upsert_auth_session makes a's row the newest one. *)
Touched(a) ==
  [b \in Accounts |->
     IF b = a THEN 1
     ELSE IF age[b] # 0 /\ (age[a] = 0 \/ age[b] < age[a]) THEN age[b] + 1
     ELSE age[b]]

(* clear_auth_session deletes a's row. *)
Cleared(a) ==
  [b \in Accounts |->
     IF b = a THEN 0
     ELSE IF age[a] # 0 /\ age[b] > age[a] THEN age[b] - 1
     ELSE age[b]]

(* Two slips that an edit of the code could make; see TweakLifecycle.  The  *)
(* first is PlanOf, had the refresh asked the entitlement it is to renew... *)
TierOfEntitlement(a) == IF entitled[a] # None THEN entitled[a] ELSE DefaultTier

(* ... and the second, had it gone by the configured default plan. *)
TierOfSettings(a) == DefaultTier

(* The tier of a's plan row; without one, of its entitlement; or "free". *)
PlanOf(a) ==
  IF plan[a] # None THEN plan[a]
  ELSE IF entitled[a] # None THEN entitled[a] ELSE DefaultTier

(* What a call's locals hold when it is not running. *)
NoCall == [account |-> CHOOSE a \in Accounts : TRUE, tier |-> DefaultTier]

(* A call goes on to its next transaction, or returns. *)
GoTo(c, p) == pc' = [pc EXCEPT ![c] = p] /\ UNCHANGED call
Return(c)  == pc' = [pc EXCEPT ![c] = "idle"] /\ call' = [call EXCEPT ![c] = NoCall]

-------------------------------------------------------------------------------
(* Further slips. *)

(* SaveIdentity, had the session been written before the plan. *)
SaveIdentityThenSession(c) ==
  /\ pc[c] = "identity"
  /\ identities' = identities \cup {Acct(c)}
  /\ GoTo(c, "session")
  /\ UNCHANGED <<devMode, plan, activated, age, tokens, entitled, planned>>

(* SignInBegin, had the requested tier not gone through normalize_plan. *)
SignInAsRequested(c, a, t) ==
  /\ Idle(c)
  /\ devMode
  /\ \E raw \in {t, None} : call' = [call EXCEPT ![c] = [account |-> a, tier |-> raw]]
  /\ pc' = [pc EXCEPT ![c] = "activate"]
  /\ UNCHANGED <<devMode, identities, plan, activated, age, tokens, entitled, planned>>
-------------------------------------------------------------------------------
Init ==
  /\ devMode \in BOOLEAN
  /\ identities = {}
  /\ plan = [a \in Accounts |-> None]
  /\ activated = {}
  /\ age = [a \in Accounts |-> 0]
  /\ tokens = {}
  /\ entitled = [a \in Accounts |-> None]
  /\ planned = [a \in Accounts |-> {}]
  /\ pc = [c \in Calls |-> "idle"]
  /\ call = [c \in Calls |-> NoCall]

(* POST /auth/local-session, which needs AUTH_DEV_MODE. *)
SignInBegin(c, a, t) ==
  /\ Idle(c)
  /\ devMode
  /\ call' = [call EXCEPT ![c] = [account |-> a, tier |-> t]]
  /\ pc' = [pc EXCEPT ![c] = "activate"]
  /\ UNCHANGED <<devMode, identities, plan, activated, age, tokens, entitled, planned>>

Activate(c) ==
  /\ pc[c] = "activate"
  /\ activated' = activated \cup {Acct(c)}
  /\ GoTo(c, "identity")
  /\ UNCHANGED <<devMode, identities, plan, age, tokens, entitled, planned>>

SaveIdentity(c) ==
  /\ pc[c] = "identity"
  /\ identities' = identities \cup {Acct(c)}
  /\ GoTo(c, "plan")
  /\ UNCHANGED <<devMode, plan, activated, age, tokens, entitled, planned>>

SavePlan(c) ==
  /\ pc[c] = "plan"
  /\ plan' = [plan EXCEPT ![Acct(c)] = call[c].tier]
  /\ planned' = [planned EXCEPT ![Acct(c)] = @ \cup {call[c].tier}]
  /\ GoTo(c, "session")
  /\ UNCHANGED <<devMode, identities, activated, age, tokens, entitled>>

SaveSession(c) ==
  /\ pc[c] = "session"
  /\ age' = Touched(Acct(c))
  /\ GoTo(c, "tokens")
  /\ UNCHANGED <<devMode, identities, plan, activated, tokens, entitled, planned>>

SaveTokens(c) ==
  /\ pc[c] = "tokens"
  /\ tokens' = tokens \cup {Acct(c)}
  /\ GoTo(c, "entitle")
  /\ UNCHANGED <<devMode, identities, plan, activated, age, entitled, planned>>

Entitle(c) ==
  /\ pc[c] = "entitle"
  /\ entitled' = [entitled EXCEPT ![Acct(c)] = call[c].tier]
  /\ Return(c)
  /\ UNCHANGED <<devMode, identities, plan, activated, age, tokens, planned>>

(* clear_session looks up the active session; without one it changes        *)
(* nothing.                                                                 *)
SignOutBegin(c, a) ==
  /\ Idle(c)
  /\ Active(a)
  /\ call' = [call EXCEPT ![c].account = a]
  /\ pc' = [pc EXCEPT ![c] = "clear"]
  /\ UNCHANGED <<devMode, identities, plan, activated, age, tokens, entitled, planned>>

(* One transaction deletes the tokens and the session. *)
Clear(c) ==
  /\ pc[c] = "clear"
  /\ age' = Cleared(Acct(c))
  /\ tokens' = tokens \ {Acct(c)}
  /\ Return(c)
  /\ UNCHANGED <<devMode, identities, plan, activated, entitled, planned>>

(* refresh_entitlement_snapshot goes by one get_auth_status: the session... *)
RefreshBegin(c, a) ==
  /\ Idle(c)
  /\ Active(a)
  /\ call' = [call EXCEPT ![c].account = a]
  /\ pc' = [pc EXCEPT ![c] = "read"]
  /\ UNCHANGED <<devMode, identities, plan, activated, age, tokens, entitled, planned>>

(* ... and then its plan. *)
RefreshRead(c) ==
  /\ pc[c] = "read"
  /\ call' = [call EXCEPT ![c].tier = PlanOf(Acct(c))]
  /\ pc' = [pc EXCEPT ![c] = "renew"]
  /\ UNCHANGED <<devMode, identities, plan, activated, age, tokens, entitled, planned>>

Renew(c) ==
  /\ pc[c] = "renew"
  /\ entitled' = [entitled EXCEPT ![Acct(c)] = call[c].tier]
  /\ GoTo(c, "extend")
  /\ UNCHANGED <<devMode, identities, plan, activated, age, tokens, planned>>

(* The session row is written again, or anew if a sign-out deleted it. *)
Extend(c) ==
  /\ pc[c] = "extend"
  /\ age' = Touched(Acct(c))
  /\ GoTo(c, "heartbeat")
  /\ UNCHANGED <<devMode, identities, plan, activated, tokens, entitled, planned>>

Heartbeat(c) ==
  /\ pc[c] = "heartbeat"
  /\ activated' = activated \cup {Acct(c)}
  /\ Return(c)
  /\ UNCHANGED <<devMode, identities, plan, age, tokens, entitled, planned>>

(* Encrypting the tokens raises, and the sign-in with it: the session row   *)
(* is there, its tokens and its entitlement are not.                        *)
CipherRaises(c) ==
  /\ "cipher" \in Faults
  /\ pc[c] = "tokens"
  /\ Return(c)
  /\ UNCHANGED <<devMode, identities, plan, activated, age, tokens, entitled, planned>>

(* The backend is launched again.  With AUTH_DEV_MODE off, initialize()     *)
(* removes the active session, which a placeholder sign-in has made.        *)
Restart ==
  /\ "crash" \in Faults
  /\ devMode' \in BOOLEAN
  /\ pc' = [c \in Calls |-> "idle"]
  /\ call' = [c \in Calls |-> NoCall]
  /\ IF devMode' \/ SignedIn = {} THEN UNCHANGED <<age, tokens>>
     ELSE \E a \in Accounts : /\ Active(a)
                              /\ age' = Cleared(a)
                              /\ tokens' = tokens \ {a}
  /\ UNCHANGED <<identities, plan, activated, entitled, planned>>

SignIn(c)  == \/ Activate(c) \/ SaveIdentity(c) \/ SavePlan(c)
              \/ SaveSession(c) \/ SaveTokens(c) \/ Entitle(c)
Refresh(c) == RefreshRead(c) \/ Renew(c) \/ Extend(c) \/ Heartbeat(c)

Next ==
  \/ \E c \in Calls : \/ \E a \in Accounts, t \in Tiers : SignInBegin(c, a, t)
                      \/ \E a \in Accounts : SignOutBegin(c, a)
                      \/ \E a \in Accounts : RefreshBegin(c, a)
                      \/ SignIn(c)
                      \/ Clear(c)
                      \/ Refresh(c)
                      \/ CipherRaises(c)
  \/ Restart

Spec == Init /\ [][Next]_vars
-------------------------------------------------------------------------------
TypeOK ==
  /\ devMode \in BOOLEAN
  /\ identities \subseteq Accounts
  /\ plan \in [Accounts -> Tiers \cup {None}]
  /\ activated \subseteq Accounts
  /\ age \in [Accounts -> Nat]
  /\ tokens \subseteq Accounts
  /\ entitled \in [Accounts -> Tiers \cup {None}]
  /\ planned \in [Accounts -> SUBSET Tiers]
  /\ pc \in [Calls -> Points]
  /\ call \in [Calls -> [account : Accounts, tier : Tiers]]

(* Whoever is signed in has an identity, a plan and an activation: no cut   *)
(* or overlap of the calls leaves a session that get_auth_status could only *)
(* fill in with defaults.                                                   *)
SessionHasAccount ==
  \A a \in SignedIn : a \in identities /\ plan[a] # None /\ a \in activated

(* The features an account may use are always those of a plan it has had:   *)
(* no default, no other account's tier, no tier before its plan is on disk. *)
EntitledWasPlanned ==
  \A a \in Accounts : entitled[a] # None => entitled[a] \in planned[a]

(* A sign-in that was cut, or a refresh that overlapped it, may leave an    *)
(* entitlement of an earlier plan.  Refreshes repair it: once no more       *)
(* sign-ins run, an account that is refreshed again and again ends up, and  *)
(* stays, with the entitlement of its plan.                                 *)
RefreshRepairs ==
  \A a \in Accounts :
    (<>[](\A c \in Calls : pc[c] \notin SignInPoints)
      /\ []<><<\E c \in Calls : Renew(c) /\ Acct(c) = a>>_vars)
    => <>[](entitled[a] = plan[a])

(* A sign-out leaves the app signed out (tests/test_auth_foundation.py line *)
(* 99: "assertIsNone(... get_active_auth_session())" after clear_session).  *)
SignOutSignsOut ==
  [][\A c \in Calls : Clear(c) => SignedIn' = {}]_vars
===============================================================================
