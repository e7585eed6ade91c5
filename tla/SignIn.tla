------------------------------- MODULE SignIn -------------------------------
(***************************************************************************)
(* Signing in: the macOS app opens the login page with its PKCE challenge, *)
(* the provider sends the browser back, the callback creates the account   *)
(* with its default labels and a one-time code, and the app exchanges the  *)
(* code and its verifier for a token (identity/presentation/auth/router.py,*)
(* identity/application/sign_in.py).                                       *)
(*                                                                         *)
(* An attempt names its verifier, challenge, OAuth state and code, each    *)
(* drawn at random.  A transaction's inserts and row locks are visible to  *)
(* the others only as waiting.                                             *)
(***************************************************************************)
EXTENDS Naturals, FiniteSets

CONSTANTS
  Attempts,    \* sign-ins an app starts
  Browsers,    \* where they run
  Users,       \* users of the provider
  Exchanges,   \* token requests
  TTL,         \* lifetime of a code
  MaxTime,     \* bound of the clock
  NoAttempt,   \* no cookie
  Malformed    \* a verifier that is none

ASSUME SignInAssumption ==
  /\ TTL \in Nat \ {0} /\ MaxTime \in Nat
  /\ NoAttempt \notin Attempts /\ Malformed \notin Attempts
  /\ Attempts # {} /\ Browsers # {} /\ Users # {}

VARIABLES
  time,
  cookie,     \* state and challenge cookies of each browser, always of one login
  login,      \* each attempt's way through login and callback
  accounts,   \* users with a row in accounts
  labels,     \* how often an account's default labels were created
  codes,      \* native_auth_codes
  exchange    \* each token request

signInVars == <<time, cookie, login, accounts, labels, codes, exchange>>

\* The user who approved an attempt, the challenge its callback found, its instant,
\* whether its transaction inserted the account.
LoginState ==
  [step : {"idle", "provider", "asking", "open", "holding", "committed", "answered", "failed"},
   browser : Browsers, user : Users, challenge : Attempts, now : 0..MaxTime, created : BOOLEAN]

\* NativeAuthCode: its digest is named by the attempt it was drawn for
Code == [code : Attempts, user : Users, challenge : Attempts, expires : Nat]

ExchangeState ==
  [step : {"idle", "sent", "locked", "issued", "rejected", "failed"},
   code : Attempts, verifier : Attempts \union {Malformed}, row : SUBSET Code, now : 0..MaxTime]

SignInInit ==
  /\ time = 0
  /\ cookie = [b \in Browsers |-> NoAttempt]
  /\ login = [a \in Attempts |->
       [step |-> "idle", browser |-> CHOOSE b \in Browsers : TRUE, user |-> CHOOSE u \in Users : TRUE,
        challenge |-> a, now |-> 0, created |-> FALSE]]
  /\ accounts = {}
  /\ labels = [u \in Users |-> 0]
  /\ codes = {}
  /\ exchange = [x \in Exchanges |-> [step |-> "idle", code |-> CHOOSE a \in Attempts : TRUE,
                                      verifier |-> Malformed, row |-> {}, now |-> 0]]

\* _clear_oauth_cookies
Cleared(a) == [cookie EXCEPT ![login[a].browser] = NoAttempt]

-----------------------------------------------------------------------------
(* Login and callback *)

\* login: a new state, and cookies that replace those of an earlier login.
StartLogin(a, b) ==
  /\ login[a].step = "idle"
  /\ login' = [login EXCEPT ![a].step = "provider", ![a].browser = b]
  /\ cookie' = [cookie EXCEPT ![b] = a]
  /\ UNCHANGED <<time, accounts, labels, codes, exchange>>

\* The cookies' ten minutes are over, or the user deletes them.
CookiesExpire(b) ==
  /\ cookie[b] # NoAttempt
  /\ cookie' = [cookie EXCEPT ![b] = NoAttempt]
  /\ UNCHANGED <<time, login, accounts, labels, codes, exchange>>

\* Mutant of Callback: the state is not compared with the cookie.
CallbackUnchecked(a, u) ==
  /\ login[a].step = "provider"
  /\ login' = [login EXCEPT ![a].step = "asking", ![a].user = u,
                            ![a].challenge = cookie[login[a].browser]]
  /\ UNCHANGED <<time, cookie, accounts, labels, codes, exchange>>

\* _checked_callback: the provider's redirect carries the state of the attempt, which the
\* cookies have too, and a code for the user who approved it.
Callback(a, u) ==
  /\ login[a].step = "provider"
  /\ cookie[login[a].browser] = a
  /\ login' = [login EXCEPT ![a].step = "asking", ![a].user = u,
                            ![a].challenge = cookie[login[a].browser]]
  /\ UNCHANGED <<time, cookie, accounts, labels, codes, exchange>>

\* _checked_callback: no such cookies, an error of the provider, or no code.
CallbackRefused(a) ==
  /\ login[a].step = "provider"
  /\ login' = [login EXCEPT ![a].step = "failed"]
  /\ cookie' = Cleared(a)
  /\ UNCHANGED <<time, accounts, labels, codes, exchange>>

\* LogIn: the provider is asked outside the transaction, which then begins.
AskProvider(a) ==
  /\ login[a].step = "asking"
  /\ login' = [login EXCEPT ![a].step = "open", ![a].now = time]
  /\ UNCHANGED <<time, cookie, accounts, labels, codes, exchange>>

Inserting(u) == {a \in Attempts : login[a].step = "holding" /\ login[a].created /\ login[a].user = u}

\* Mutant of GetOrCreate: looks for the account and then inserts it.
GetOrCreateUnlocked(a) ==
  /\ login[a].step = "open"
  /\ login' = [login EXCEPT ![a].step = "holding", ![a].created = login[a].user \notin accounts]
  /\ UNCHANGED <<time, cookie, accounts, labels, codes, exchange>>

\* get_or_create: an insert of the same user waits for one that is not committed.
GetOrCreate(a) ==
  /\ login[a].step = "open"
  /\ Inserting(login[a].user) = {}
  /\ login' = [login EXCEPT ![a].step = "holding", ![a].created = login[a].user \notin accounts]
  /\ UNCHANGED <<time, cookie, accounts, labels, codes, exchange>>

Locked(c) == \E x \in Exchanges : exchange[x].step = "locked" /\ exchange[x].code = c

\* delete_expired
Expired(now) == {r \in codes : r.expires <= now}

\* on_account_created, dispatched before the commit
DefaultLabels(a) ==
  IF login[a].created THEN [labels EXCEPT ![login[a].user] = @ + 1] ELSE labels

\* NativeAuthCode.issue
Issue(a) ==
  [code |-> a, user |-> login[a].user, challenge |-> login[a].challenge,
   expires |-> login[a].now + TTL]

\* The rest of LogIn's transaction: expired codes go, except that one being exchanged is
\* waited for; the handlers of AccountCreated run; the code is stored; all commit.
CommitLogin(a) ==
  /\ login[a].step = "holding"
  /\ \A r \in Expired(login[a].now) : ~Locked(r.code)
  /\ accounts' = accounts \union {login[a].user}
  /\ labels' = DefaultLabels(a)
  /\ codes' = (codes \ Expired(login[a].now)) \union {Issue(a)}
  /\ login' = [login EXCEPT ![a].step = "committed"]
  /\ UNCHANGED <<time, cookie, exchange>>

\* The browser hands the code to the app.
Redirect(a) ==
  /\ login[a].step = "committed"
  /\ login' = [login EXCEPT ![a].step = "answered"]
  /\ cookie' = Cleared(a)
  /\ UNCHANGED <<time, accounts, labels, codes, exchange>>

\* get_user_id: the provider refuses, cannot be reached or says nothing of the user.
ProviderFails(a) ==
  /\ login[a].step = "asking"
  /\ login' = [login EXCEPT ![a].step = "failed"]
  /\ cookie' = Cleared(a)
  /\ UNCHANGED <<time, accounts, labels, codes, exchange>>

\* Any exception, answered with authentication_failed, or a crash, answered with nothing.
FailLogin(a) ==
  /\ login[a].step \in {"asking", "open", "holding"}
  /\ login' = [login EXCEPT ![a].step = "failed"]
  /\ cookie' \in {cookie, Cleared(a)}
  /\ UNCHANGED <<time, accounts, labels, codes, exchange>>

-----------------------------------------------------------------------------
(* ExchangeAuthorizationCode *)

Row(c) == {r \in codes : r.code = c}

\* The app sends a code it was handed, with this or another attempt's verifier.
SendExchange(x, c, v) ==
  /\ exchange[x].step = "idle"
  /\ login[c].step = "answered"
  /\ exchange' = [exchange EXCEPT ![x] = [@ EXCEPT
       !.step = IF v = Malformed THEN "rejected" ELSE "sent", !.code = c, !.verifier = v]]
  /\ UNCHANGED <<time, cookie, login, accounts, labels, codes>>

\* Mutant of LockCode: the row is read without FOR UPDATE.
LockCodeUnlocked(x) ==
  /\ exchange[x].step = "sent"
  /\ exchange' = [exchange EXCEPT ![x].now = time, ![x].row = Row(exchange[x].code),
       ![x].step = IF Row(exchange[x].code) = {} THEN "rejected" ELSE "locked"]
  /\ UNCHANGED <<time, cookie, login, accounts, labels, codes>>

\* find_for_update: waits for another request with the code; then the row may be gone.
LockCode(x) ==
  /\ exchange[x].step = "sent"
  /\ ~Locked(exchange[x].code)
  /\ exchange' = [exchange EXCEPT ![x].now = time, ![x].row = Row(exchange[x].code),
       ![x].step = IF Row(exchange[x].code) = {} THEN "rejected" ELSE "locked"]
  /\ UNCHANGED <<time, cookie, login, accounts, labels, codes>>

\* Mutant of Outcome: the code goes with a verifier that does not match, too.
OutcomeDeleted(r, x) ==
  IF r.expires <= exchange[x].now \/ r.challenge # exchange[x].verifier
    THEN [step |-> "rejected", deleted |-> TRUE]
    ELSE [step |-> "issued", deleted |-> TRUE]

\* The checks between the lock and the commit.
Outcome(r, x) ==
  IF r.expires <= exchange[x].now THEN [step |-> "rejected", deleted |-> TRUE]
  ELSE IF r.challenge # exchange[x].verifier THEN [step |-> "rejected", deleted |-> FALSE]
  ELSE [step |-> "issued", deleted |-> TRUE]

\* execute: the transaction ends by a commit, or by a rollback for another's verifier.
CommitExchange(x) ==
  /\ exchange[x].step = "locked"
  /\ \E r \in exchange[x].row :
       /\ exchange' = [exchange EXCEPT ![x].step = Outcome(r, x).step]
       /\ codes' = IF Outcome(r, x).deleted THEN codes \ {r} ELSE codes
  /\ UNCHANGED <<time, cookie, login, accounts, labels>>

\* The token cannot be issued, the connection or the process is lost: nothing is written.
FailExchange(x) ==
  /\ exchange[x].step \in {"sent", "locked"}
  /\ exchange' = [exchange EXCEPT ![x].step = "failed"]
  /\ UNCHANGED <<time, cookie, login, accounts, labels, codes>>

ClockTicks ==
  /\ time < MaxTime
  /\ time' = time + 1
  /\ UNCHANGED <<cookie, login, accounts, labels, codes, exchange>>

LoginStep(a) ==
  \/ \E b \in Browsers : StartLogin(a, b)
  \/ \E u \in Users : Callback(a, u)
  \/ CallbackRefused(a) \/ AskProvider(a) \/ ProviderFails(a)
  \/ GetOrCreate(a) \/ CommitLogin(a) \/ Redirect(a) \/ FailLogin(a)

ExchangeStep(x) ==
  \/ \E c \in Attempts, v \in Attempts \union {Malformed} : SendExchange(x, c, v)
  \/ LockCode(x) \/ CommitExchange(x) \/ FailExchange(x)

SignInNext ==
  \/ \E a \in Attempts : LoginStep(a)
  \/ \E b \in Browsers : CookiesExpire(b)
  \/ \E x \in Exchanges : ExchangeStep(x)
  \/ ClockTicks

SignInSpec == SignInInit /\ [][SignInNext]_signInVars

-----------------------------------------------------------------------------
(* Properties *)

\* The shape of the state.
SignInTypeOK ==
  /\ time \in 0..MaxTime
  /\ cookie \in [Browsers -> Attempts \union {NoAttempt}]
  /\ login \in [Attempts -> LoginState]
  /\ accounts \subseteq Users
  /\ labels \in [Users -> Nat]
  /\ codes \subseteq Code
  /\ exchange \in [Exchanges -> ExchangeState]

\* Two first sign-ins of one user create one account, and its default labels once, in
\* the transaction that creates it (LogIn, DefaultLabels): no account without labels.
DefaultsOnce == \A u \in Users : labels[u] = IF u \in accounts THEN 1 ELSE 0

\* A token goes only to the app whose sign-in the user approved at the provider: the
\* login of another app in the same browser, or a callback that comes late, never mixes
\* them up (_checked_callback, ExchangeAuthorizationCode).
TokenForApprover ==
  \A x \in Exchanges : exchange[x].step = "issued" =>
    /\ exchange[x].verifier = exchange[x].code
    /\ \A r \in exchange[x].row : r.user = login[exchange[x].verifier].user

\* However requests with one code are repeated or overlap, one of them gets a token.
OneTokenPerCode ==
  \A x, y \in Exchanges :
    exchange[x].step = "issued" /\ exchange[y].step = "issued"
      /\ exchange[x].code = exchange[y].code => x = y

\* A token is for the app that the user approved, and one only.
TokensAreExclusive == TokenForApprover /\ OneTokenPerCode

\* Only its redemption or its expiry takes a code away: not a request with another
\* verifier, one that fails, or the cleaning another sign-in does.
LiveCodeKept ==
  [][\A r \in codes \ codes' :
       \/ r.expires <= time
       \/ \E x \in Exchanges : exchange[x].code = r.code /\ exchange[x].verifier = r.challenge
            /\ exchange[x].step = "locked" /\ exchange'[x].step = "issued"]_signInVars
=============================================================================
