------------------------------ MODULE Session ------------------------------
(***************************************************************************)
(* Who is signed in: the browser's two sessions, one of the staff and one  *)
(* of a client of the website, seen from one tab.  Their tokens are in     *)
(* localStorage, which other tabs write too; whom it shows is the tab's    *)
(* own, and its office pages hold a websocket that was opened for a user   *)
(* with a token.                                                           *)
(***************************************************************************)
EXTENDS Naturals, FiniteSets

CONSTANTS
  Staff,       \* users of the operations app
  Clients,     \* clients with an account
  MaxTokens,   \* bound: tokens the API issues
  MaxOpens,    \* bound: full page loads asked for
  MaxLate      \* bound: requests out that nobody waits for

Users == Staff \union Clients

ASSUME AccountsAssumption == Staff # {} /\ Clients # {} /\ Staff \intersect Clients = {}
ASSUME NobodyAssumption == "nobody" \notin Users
ASSUME BoundsAssumption == MaxTokens \in Nat /\ MaxTokens >= 2 /\ MaxOpens \in Nat
                            /\ MaxLate \in Nat

VARIABLES
  token,     \* localStorage: the token of each realm
  path,      \* the part of the site the tab is on
  shown,     \* user of AuthProvider, client of ClientAuthProvider
  loading,   \* their loading
  probe,     \* the session probe a provider runs when it mounts
  call,      \* the other request the tab has in flight
  late,      \* requests still out that nobody in the tab waits for any more
  socket,    \* getEcho()'s instance: whose channel, with which token
  owner,     \* API: the account a token was issued to
  live,      \* API: tokens not deleted
  banned,    \* API: suspended accounts
  crossed,   \* history: another tab, the user's haste or a late answer touched the session
  opens      \* page loads asked for so far

api  == <<owner, live, banned>>
tab  == <<path, shown, loading, probe, socket, late>>
vars == <<token, path, shown, loading, probe, call, late, socket, owner, live, banned,
          crossed, opens>>

-----------------------------------------------------------------------------
(* Places.                                                                 *)

Realms  == {"staff", "client"}
NoToken == 0

\* (app) is the operations app, (site) everything else but /login; account is the
\* signed-in half of the client area.
Paths == {"public", "clientLogin", "account", "staffLogin", "office"}
Site  == {"public", "clientLogin", "account"}

LoginPath(r) == IF r = "staff" THEN "staffLogin" ELSE "clientLogin"
Home(r)      == IF r = "staff" THEN "office" ELSE "account"

\* AuthProvider is mounted everywhere, ClientAuthProvider on the website only.
MountedAt(r, p) == r = "staff" \/ p \in Site

Request(k, r, tok, a) == [kind |-> k, realm |-> r, token |-> tok, acct |-> a, stage |-> "sent"]
NoCall   == [Request("none", "staff", NoToken, "nobody") EXCEPT !.stage = "idle"]
NoSocket == [user |-> "nobody", token |-> NoToken]

\* The effect of a provider that mounts: a probe if there is a token.
Probe(r, tok) == IF tok = NoToken THEN NoCall ELSE Request("probe", r, tok, "nobody")

\* Mutant of Wired: the instance outlives the session it was opened for.
WiredKept(p, u, tok) ==
  IF p = "office" /\ u # "nobody"
  THEN [user |-> u, token |-> IF socket.token = NoToken THEN tok ELSE socket.token]
  ELSE socket

\* RealtimeProvider: inside the guarded layout, one instance per user shown, opened with
\* the token of that moment and disconnected when the user goes.
Wired(p, u, tok) ==
  IF p = "office" /\ u # "nobody"
  THEN IF socket.user = u THEN socket ELSE [user |-> u, token |-> tok]
  ELSE NoSocket

\* This tab's own writes to localStorage.
Store(toks) == token' = toks /\ UNCHANGED crossed

\* Request c goes on with nobody waiting for it.
Abandon(c) == Cardinality(late) < MaxLate /\ late' = late \union {c}

\* The client's check, which can fail whatever its token, and a saved profile, which is
\* shown by the provider of its page: what they are once that provider has gone.
Orphan     == Request("probe", "client", NoToken, "nobody")
Unheard(c) == [c EXCEPT !.kind = IF @ = "profile" THEN "page" ELSE @]

\* What becomes of the requests of ClientAuthProvider when it goes.
Unmount ==
  IF probe["client"] = NoCall THEN late' = {Unheard(c) : c \in late}
  ELSE /\ Cardinality(late) < MaxLate
       /\ late' = {Unheard(c) : c \in late} \union {Orphan}

\* The tab goes to p with who shown.  Layouts that stay keep their providers; entering
\* the website mounts the client's, leaving it drops it, and its check with it: the
\* request is not aborted.
Goes(p, who, toks) ==
  LET fresh == p \in Site /\ path \notin Site
      gone  == p \notin Site
  IN /\ path' = p
     /\ shown' = [who EXCEPT !["client"] = IF fresh \/ gone THEN "nobody" ELSE @]
     /\ probe' = [probe EXCEPT !["client"] = IF fresh THEN Probe("client", toks["client"])
                                             ELSE IF gone THEN NoCall ELSE @]
     /\ loading' = [loading EXCEPT !["client"] = IF fresh THEN toks["client"] # NoToken
                                                 ELSE ~gone /\ @]
     /\ socket' = Wired(p, who["staff"], toks["staff"])
     /\ IF gone THEN Unmount ELSE late' = late

\* A full page load of p: every provider starts over, and what the tab was waiting for
\* is answered to nobody.
Load(p, toks) ==
  /\ token' = toks
  /\ path' = p
  /\ shown' = [r \in Realms |-> "nobody"]
  /\ probe' = [r \in Realms |-> IF MountedAt(r, p) THEN Probe(r, toks[r]) ELSE NoCall]
  /\ loading' = [r \in Realms |-> MountedAt(r, p) /\ toks[r] # NoToken]
  /\ call' = NoCall
  /\ late' = {}
  /\ socket' = NoSocket
  /\ crossed' = FALSE

-----------------------------------------------------------------------------
(* Moving around.                                                          *)

\* An address typed, a reload.
Open(p) ==
  /\ opens < MaxOpens
  /\ opens' = opens + 1
  /\ Load(p, token)
  /\ UNCHANGED api

\* SiteHeader's links offer the client's area or the sign-in screens by who is shown.
HeaderLinks ==
  {p \in {"account", "clientLogin"} :
     /\ ~loading["client"]
     /\ (p = "account") = (shown["client"] # "nobody")}

\* The link from the client's sign-in screen to the staff's, and the way back.
Links ==
  CASE path \in {"public", "account"} -> HeaderLinks \union {"public"}
    [] path = "clientLogin"           -> {"public", "staffLogin"}
    [] path = "staffLogin"            -> {"public"}
    [] OTHER                          -> {}

Enter(p) == Goes(p, shown, token) /\ UNCHANGED <<token, call, crossed, opens, api>>

Follow(p) ==
  /\ p \in Links \ {path}
  /\ Enter(p)

\* The layouts' guards and the sign-in pages' effects.
OfficeGuard ==
  /\ path = "office"
  /\ ~loading["staff"] /\ shown["staff"] = "nobody"
  /\ Enter("staffLogin")

AccountGuard ==
  /\ path = "account"
  /\ ~loading["client"] /\ shown["client"] = "nobody"
  /\ Enter("clientLogin")

SignedInAlready(r) ==
  /\ path = LoginPath(r)
  /\ ~loading[r] /\ shown[r] # "nobody"
  /\ Enter(Home(r))

-----------------------------------------------------------------------------
(* Pressing.                                                               *)

Send(k, r, a) ==
  /\ call = NoCall
  /\ call' = Request(k, r, token[r], a)
  /\ UNCHANGED <<token, tab, opens, api>>

\* A sign-in form is there, and can be submitted, while the probe is still out.
Submit(k, r, a) ==
  /\ path = LoginPath(r)
  /\ shown[r] = "nobody"
  /\ Send(k, r, a)
  /\ crossed' = (crossed \/ loading[r])

SubmitLogin(a)       == a \in Staff /\ Submit("login", "staff", a)
SubmitClientLogin(a) == a \in Clients /\ Submit("login", "client", a)

\* A new client, one nobody has signed in as before; register() is answered as login() is.
SubmitRegister(a) ==
  /\ a \in Clients
  /\ \A k \in 1..MaxTokens : owner[k] # a
  /\ Submit("login", "client", a)

\* What pages ask of the API once their user is shown: the office's, and the account's,
\* its profile form for one.
Inside(r) == path = Home(r) /\ ~loading[r] /\ shown[r] # "nobody"

PageCall       == Inside("staff") /\ Send("page", "staff", "nobody") /\ UNCHANGED crossed
SaveProfile    == Inside("client") /\ Send("profile", "client", "nobody") /\ UNCHANGED crossed
ChangePassword == Inside("client") /\ Send("password", "client", "nobody") /\ UNCHANGED crossed
StaffLogout    == Inside("staff") /\ Send("logout", "staff", "nobody") /\ UNCHANGED crossed
ClientLogout   == Inside("client") /\ Send("logout", "client", "nobody") /\ UNCHANGED crossed

\* A page asks for several things at once, and its user does not wait for all of them.
MoveOn ==
  /\ call.kind \in {"page", "profile", "password"} /\ call.stage = "sent"
  /\ Abandon(call)
  /\ call' = NoCall
  /\ UNCHANGED <<token, path, shown, loading, probe, socket, api, crossed, opens>>

-----------------------------------------------------------------------------
(* The API.                                                                *)

\* The account a request's token authenticates as.
Bearer(c) == IF c.token \in live THEN owner[c.token] ELSE "nobody"

\* What is left of request c once it is answered.
Outcome(c, status, a) == [c EXCEPT !.stage = status, !.acct = a, !.token = NoToken]

Issued == {k \in 1..MaxTokens : owner[k] # "nobody"}
NextFree == {k \in (1..MaxTokens) \ Issued : \A j \in (1..MaxTokens) \ Issued : k <= j}

\* Mutant of Grant: the token is stored for nobody.
GrantOwnerless(k, a) ==
  /\ live' = live \union {k}
  /\ UNCHANGED owner

Grant(k, a) ==
  /\ owner' = [owner EXCEPT ![k] = a]
  /\ live' = live \union {k}

\* login() and register() issue a token, unless the account is suspended.
Issue ==
  /\ call.kind = "login" /\ call.stage = "sent"
  /\ IF call.acct \in banned
     THEN /\ call' = Outcome(call, "invalid", "nobody")
          /\ UNCHANGED <<owner, live>>
     ELSE \E k \in NextFree :
            /\ Grant(k, call.acct)
            /\ call' = [call EXCEPT !.stage = "ok", !.token = k]
  /\ UNCHANGED <<token, tab, banned, crossed, opens>>

\* The tokens the other routes delete: logout its own, a new password the others.
Deletes(c) ==
  CASE c.kind = "logout"   -> {c.token}
    [] c.kind = "password" -> {k \in Issued : owner[k] = Bearer(c)} \ {c.token}
    [] OTHER               -> {}

\* 401 without a live token.
Handle ==
  /\ call.kind \notin {"none", "login"} /\ call.stage = "sent"
  /\ IF Bearer(call) = "nobody"
     THEN call' = Outcome(call, "401", "nobody") /\ UNCHANGED live
     ELSE /\ call' = Outcome(call, "ok", IF call.kind = "me" THEN Bearer(call) ELSE "nobody")
          /\ live' = live \ Deletes(call)
  /\ UNCHANGED <<token, tab, owner, banned, crossed, opens>>

HandleProbe(r) ==
  /\ probe[r].stage = "sent"
  /\ LET a == Bearer(probe[r])
     IN probe' = [probe EXCEPT ![r] = Outcome(@, IF a = "nobody" THEN "401" ELSE "ok", a)]
  /\ UNCHANGED <<token, path, shown, loading, call, late, socket, api, crossed, opens>>

\* The network fails, before or after the API did its part.
Lose ==
  /\ call.stage \in {"sent", "ok"}
  /\ call' = Outcome(call, "lost", "nobody")
  /\ UNCHANGED <<token, tab, api, crossed, opens>>

LoseProbe(r) ==
  /\ probe[r].stage = "sent"
  /\ probe' = [probe EXCEPT ![r] = Outcome(@, "lost", "nobody")]
  /\ UNCHANGED <<token, path, shown, loading, call, late, socket, api, crossed, opens>>

\* A user is suspended, one at most: the tokens are deleted with it.
Suspend(a) ==
  /\ banned = {}
  /\ banned' = banned \union {a}
  /\ live' = {k \in live : owner[k] # a}
  /\ UNCHANGED <<token, tab, call, owner, crossed, opens>>

\* Another tab of the browser signs in or out; its request is not followed here.
OtherTab(r) ==
  /\ crossed' = TRUE
  /\ \/ /\ token[r] # NoToken
        /\ token' = [token EXCEPT ![r] = NoToken]
        /\ live' = live \ {token[r]}
        /\ UNCHANGED owner
     \/ \E k \in NextFree, a \in (IF r = "staff" THEN Staff ELSE Clients) \ banned :
          /\ Grant(k, a)
          /\ token' = [token EXCEPT ![r] = k]
  /\ UNCHANGED <<tab, call, banned, opens>>

-----------------------------------------------------------------------------
(* Answers.                                                                *)

\* Mutant of Without: "the" token is the staff's.
WithoutStaff(r) == [token EXCEPT !["staff"] = NoToken]

\* setToken(null, realm).
Without(r) == [token EXCEPT ![r] = NoToken]

\* Mutant of Unauthenticated: the token is dropped and nothing else.
UnauthenticatedStay(r) == Store(Without(r)) /\ call' = NoCall /\ UNCHANGED tab

\* unauthenticated(): the realm's token is dropped, whichever it is by now, and the
\* tab is sent to that realm's sign-in screen unless it is there.
Unauthenticated(r) ==
  IF path = LoginPath(r)
  THEN Store(Without(r)) /\ call' = NoCall /\ UNCHANGED tab
  ELSE Load(LoginPath(r), Without(r))

\* Mutant of DropProbe: a dead token redirects, like that of any other call.
DropProbeRedirect(r) ==
  IF probe[r].stage = "401" THEN Load(LoginPath(r), Without(r))
  ELSE /\ Store(Without(r))
       /\ probe' = [probe EXCEPT ![r] = NoCall]
       /\ loading' = [loading EXCEPT ![r] = FALSE]
       /\ UNCHANGED <<path, shown, socket, call, late>>

\* The probe failed, for whatever reason: the token goes, and nobody is redirected.
DropProbe(r) ==
  /\ Store(Without(r))
  /\ probe' = [probe EXCEPT ![r] = NoCall]
  /\ loading' = [loading EXCEPT ![r] = FALSE]
  /\ UNCHANGED <<path, shown, socket, call, late>>

\* Mutant of KeepProbe: the account is shown, loading is left on.
KeepProbeLoading(r) ==
  /\ shown' = [shown EXCEPT ![r] = probe[r].acct]
  /\ socket' = Wired(path, shown'["staff"], token["staff"])
  /\ probe' = [probe EXCEPT ![r] = NoCall]
  /\ UNCHANGED <<token, path, loading, call, late, crossed>>

\* It succeeded: its account is shown, whatever was signed in meanwhile.
KeepProbe(r) ==
  /\ shown' = [shown EXCEPT ![r] = probe[r].acct]
  /\ socket' = Wired(path, shown'["staff"], token["staff"])
  /\ probe' = [probe EXCEPT ![r] = NoCall]
  /\ loading' = [loading EXCEPT ![r] = FALSE]
  /\ UNCHANGED <<token, path, call, late, crossed>>

Probed(r) ==
  /\ \/ probe[r].stage = "ok" /\ KeepProbe(r)
     \/ probe[r].stage \in {"401", "lost"} /\ DropProbe(r)
  /\ UNCHANGED <<opens, api>>

\* AuthProvider.login(): the token is stored, then /auth/me says who it is.
LoggedIn ==
  /\ call.kind = "login" /\ call.realm = "staff" /\ call.stage = "ok"
  /\ Store([token EXCEPT !["staff"] = call.token])
  /\ call' = Request("me", "staff", call.token, "nobody")
  /\ UNCHANGED <<tab, opens, api>>

\* And the sign-in page goes on to the dashboard, from wherever the tab is by now.
MeLoaded ==
  /\ call.kind = "me" /\ call.stage = "ok"
  /\ Goes("office", [shown EXCEPT !["staff"] = call.acct], token)
  /\ call' = NoCall
  /\ UNCHANGED <<token, crossed, opens, api>>

\* ClientAuthProvider.login() and register(): the answer says who it is, and the page
\* goes on to the account.
ClientLoggedIn ==
  /\ call.kind = "login" /\ call.realm = "client" /\ call.stage = "ok"
  /\ LET toks == [token EXCEPT !["client"] = call.token]
     IN Store(toks) /\ Goes("account", [shown EXCEPT !["client"] = call.acct], toks)
  /\ call' = NoCall
  /\ UNCHANGED <<opens, api>>

\* logout()'s finally: signed out here, whatever became of the request.  The menu goes on
\* to the sign-in screen or the website, after a failure the guard does.
LoggedOut ==
  LET r    == call.realm
      next == IF call.stage = "lost" THEN path ELSE IF r = "staff" THEN "staffLogin" ELSE "public"
  IN /\ call.kind = "logout" /\ call.stage \in {"ok", "lost"}
     /\ Store(Without(r))
     /\ Goes(next, [shown EXCEPT ![r] = "nobody"], Without(r))
     /\ call' = NoCall
     /\ UNCHANGED <<opens, api>>

\* 401 to any call but a probe.
Rejected ==
  /\ call.stage = "401"
  /\ Unauthenticated(call.realm)
  /\ UNCHANGED <<opens, api>>

\* Answers that leave the session alone: data, saved details, refusals, errors.
Returned ==
  /\ \/ call.stage = "invalid"
     \/ call.stage = "ok" /\ call.kind \in {"page", "profile", "password"}
     \/ call.stage = "lost" /\ call.kind # "logout"
  /\ call' = NoCall
  /\ UNCHANGED <<token, tab, crossed, opens, api>>

\* Somebody is shown, being checked or signing in.
Held(r) ==
  \/ shown[r] # "nobody"
  \/ probe[r] # NoCall
  \/ call.realm = r /\ call.kind \in {"login", "me"}

\* The realm's token goes, whichever it is by now, and with it what it was held for.
DropLate(r) ==
  /\ token' = Without(r)
  /\ crossed' = (crossed \/ (token[r] # NoToken /\ Held(r)))

\* A request nobody waits for ends.  Most answers are ignored, but not the saved profile,
\* which may have been saved while its token was good; nor failures: the check of a
\* provider that has gone still drops the token, and a 401 still signs the realm out.
LateAnswer(c) ==
  /\ \/ /\ late' = late \ {c}
        /\ live' = live \ Deletes(c)
        /\ UNCHANGED <<token, path, shown, loading, probe, call, socket, crossed>>
     \/ /\ c.kind = "profile" /\ path \in Site
        /\ c.token \in Issued
        /\ shown' = [shown EXCEPT !["client"] = owner[c.token]]
        /\ crossed' = (crossed \/ shown["client"] # owner[c.token])
        /\ late' = late \ {c}
        /\ UNCHANGED <<token, path, loading, probe, call, socket, live>>
     \/ /\ c.kind = "probe" \/ (Bearer(c) = "nobody" /\ path = LoginPath(c.realm))
        /\ DropLate(c.realm)
        /\ late' = late \ {c}
        /\ UNCHANGED <<path, shown, loading, probe, call, socket, live>>
     \/ /\ c.kind # "probe" /\ Bearer(c) = "nobody" /\ path # LoginPath(c.realm)
        /\ Load(LoginPath(c.realm), Without(c.realm))
        /\ UNCHANGED live
  /\ UNCHANGED <<owner, banned, opens>>

-----------------------------------------------------------------------------
\* A browser used yesterday: tokens that may have died since, a tab just opened.  Users
\* are alike, so whose they are does not matter.
Init ==
  /\ \E s \in {CHOOSE a \in Staff : TRUE}, c \in {CHOOSE a \in Clients : TRUE} :
       owner = [k \in 1..MaxTokens |-> IF k = 1 THEN s ELSE IF k = 2 THEN c ELSE "nobody"]
  /\ live \in SUBSET Issued
  /\ banned = {}
  /\ token \in [Realms -> 0..2] /\ token["staff"] # 2 /\ token["client"] # 1
  /\ path = "public"
  /\ shown = [r \in Realms |-> "nobody"]
  /\ probe = [r \in Realms |-> Probe(r, token[r])]
  /\ loading = [r \in Realms |-> token[r] # NoToken]
  /\ call = NoCall
  /\ late = {}
  /\ socket = NoSocket
  /\ crossed = FALSE
  /\ opens = 0

\* What happens on its own: the API answers, answers arrive, effects run.
Settle ==
  \/ OfficeGuard
  \/ AccountGuard
  \/ Issue
  \/ Handle
  \/ LoggedIn
  \/ MeLoaded
  \/ ClientLoggedIn
  \/ LoggedOut
  \/ Rejected
  \/ Returned
  \/ \E r \in Realms : SignedInAlready(r) \/ HandleProbe(r) \/ Probed(r)
  \/ \E c \in late : LateAnswer(c)

Press ==
  \/ \E p \in Paths : Open(p) \/ Follow(p)
  \/ \E a \in Staff : SubmitLogin(a)
  \/ \E a \in Clients : SubmitClientLogin(a) \/ SubmitRegister(a)
  \/ PageCall
  \/ ChangePassword
  \/ SaveProfile
  \/ StaffLogout
  \/ ClientLogout
  \/ MoveOn

Next ==
  \/ Settle
  \/ Press
  \/ Lose
  \/ \E r \in Realms : LoseProbe(r) \/ OtherTab(r)
  \/ \E a \in Staff : Suspend(a)

Spec == Init /\ [][Next]_vars

\* Every request is answered or fails, and React runs its effects.
FairSpec == Spec /\ WF_vars(Settle)

-----------------------------------------------------------------------------
Calls == [kind : {"none", "probe", "login", "me", "logout", "page", "profile",
                  "password"},
          realm : Realms, token : 0..MaxTokens, acct : Users \union {"nobody"},
          stage : {"idle", "sent", "ok", "401", "invalid", "lost"}]

TypeOK ==
  /\ token \in [Realms -> 0..MaxTokens]
  /\ path \in Paths
  /\ shown \in [Realms -> Users \union {"nobody"}]
  /\ loading \in [Realms -> BOOLEAN]
  /\ call \in Calls
  /\ probe \in [Realms -> Calls]
  /\ late \subseteq Calls
  /\ socket \in [user : Users \union {"nobody"}, token : 0..MaxTokens]
  /\ owner \in [1..MaxTokens -> Users \union {"nobody"}]
  /\ live \subseteq Issued
  /\ banned \subseteq Users
  /\ crossed \in BOOLEAN
  /\ opens \in 0..MaxOpens

\* The live channels are those of the user shown, opened with that user's token, and
\* "torn down when the session ends": signing out and in as another does not leave the
\* first user's socket behind.
SocketIsTheirs ==
  socket # NoSocket =>
    /\ path = "office"
    /\ socket.user = shown["staff"]
    /\ crossed \/ owner[socket.token] = socket.user

\* Nobody's page is another's: the tab shows the account whose token it sends, and that
\* token is there, unless another tab signed in or out under it, the form was submitted
\* before the session check was answered, or a request nobody waited for any more ended
\* under it; and its socket is that account's.
ShownIsOwner ==
  /\ ~crossed => \A r \in Realms : shown[r] # "nobody" => /\ token[r] # NoToken
                                                          /\ owner[token[r]] = shown[r]
  /\ SocketIsTheirs

\* A visitor can hold both sessions at once "without either one disturbing the other": a
\* realm's token changes only by an answer to a request of that realm, here or in another
\* tab, and a stale staff token does not send a client on the website off to the staff's
\* sign-in screen, unless by that tab's own staff request.
RealmsApart ==
  [][/\ \A r \in Realms : token'[r] # token[r] =>
          \/ call.realm = r /\ call' # call
          \/ probe[r].stage \in {"401", "lost"} /\ probe'[r] # probe[r]
          \/ \E c \in late \ late' : c.realm = r
          \/ UNCHANGED tab
     /\ path' = "staffLogin" /\ path \in Site =>
          \/ token' = token
          \/ call.realm = "staff" /\ call # NoCall
          \/ \E c \in late : c.realm = "staff"]_vars

\* A guarded page does not spin forever: its user is shown, or the tab is elsewhere.
GuardSettles ==
  \A r \in Realms : []<>(path # Home(r) \/ Inside(r))

(* Why ShownIsOwner holds: the inductive invariant.                        *)

\* A session check is out exactly while its provider is loading, for the token that is
\* stored, and until it is answered nobody is shown.
ProbeInv ==
  \A r \in Realms :
    /\ loading[r] = (probe[r] # NoCall)
    /\ probe[r].stage = "ok" => probe[r].acct # "nobody"
    /\ ~crossed /\ probe[r] # NoCall => shown[r] = "nobody" /\ token[r] # NoToken
    /\ ~crossed /\ probe[r].stage = "sent" => probe[r].token = token[r]
    /\ ~crossed /\ probe[r].stage = "ok" => owner[token[r]] = probe[r].acct

\* While somebody signs in nobody is shown and no check is out; a sign-in that was
\* answered brings that account's token, and /auth/me is asked with the one stored.
SignInInv ==
  LET r == call.realm
  IN /\ call.kind = "login" /\ call.stage \in {"sent", "ok"} => call.acct # "nobody"
     /\ call.kind = "login" /\ call.stage = "ok" =>
          call.token # NoToken /\ owner[call.token] = call.acct
     /\ call.kind = "me" => r = "staff" /\ (call.stage = "ok" => call.acct # "nobody")
     /\ ~crossed /\ call.kind \in {"login", "me"} => shown[r] = "nobody" /\ probe[r] = NoCall
     /\ ~crossed /\ call.kind = "login" /\ r = "client" => token["client"] = NoToken
     /\ ~crossed /\ call.kind = "me" =>
          /\ token["staff"] # NoToken
          /\ call.stage = "sent" => call.token = token["staff"]
          /\ call.stage = "ok" => owner[token["staff"]] = call.acct

\* A page waits for its answer where it was asked, its user shown; only a page and
\* /auth/me are told that they have no session.
PageKinds == {"page", "profile", "password", "logout"}

PageInv ==
  /\ call.kind \in PageKinds =>
       /\ shown[call.realm] # "nobody"
       /\ path \in IF call.realm = "staff" THEN {"office"} ELSE {"account", "public"}
  /\ call.kind # "probe"
  /\ call.stage = "401" => call.kind \in PageKinds \union {"me"}

\* On the website a client nobody is shown for has no token, once the check is over.
VisitorInv ==
  ~crossed /\ path \in Site /\ ~loading["client"] /\ shown["client"] = "nobody" =>
    token["client"] = NoToken

\* A socket is somebody's, and was opened with a token.
SocketInv ==
  socket # NoSocket => socket.user # "nobody" /\ (crossed \/ socket.token # NoToken)

IInv ==
  TypeOK /\ ProbeInv /\ SignInInv /\ PageInv /\ VisitorInv /\ SocketInv /\ ShownIsOwner

-----------------------------------------------------------------------------
(* What a comment says and the code does not do.                           *)

\* "A dead staff token is handled right here by dropping it": the probe drops a token
\* only when the API no longer takes it.
OnlyDeadDropped ==
  [][\A r \in Realms :
       probe[r] # NoCall /\ probe'[r] = NoCall /\ UNCHANGED <<path, call>>
         => token'[r] = token[r] \/ token[r] \notin live]_vars
=============================================================================
