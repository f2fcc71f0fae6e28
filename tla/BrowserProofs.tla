---------------------------- MODULE BrowserProofs ----------------------------
(***************************************************************************)
(* Proofs about a browser.  First its sessions (Session), for any number   *)
(* of users, clients, tokens and page loads; then its live screens         *)
(* (Screens), for any number of changes made to the project they show.     *)
(***************************************************************************)
EXTENDS Session, Screens, TLAPS

Accounts == Users \union {"nobody"}
Tokens   == 0..MaxTokens

-----------------------------------------------------------------------------
(* Requests and places.                                                    *)

RequestKinds  == {"none", "probe", "login", "me", "logout", "page", "profile", "password"}
Stages == {"idle", "sent", "ok", "401", "invalid", "lost"}

LEMMA CallTypes ==
  /\ NoCall = [kind |-> "none", realm |-> "staff", token |-> 0, acct |-> "nobody", stage |-> "idle"]
  /\ NoCall \in Calls
  /\ \A k \in RequestKinds, r \in Realms, tok \in Tokens, a \in Accounts :
       /\ Request(k, r, tok, a) = [kind |-> k, realm |-> r, token |-> tok, acct |-> a, stage |-> "sent"]
       /\ Request(k, r, tok, a) \in Calls
  /\ \A r \in Realms, tok \in Tokens :
       /\ Probe(r, tok) \in Calls
       /\ tok = NoToken => Probe(r, tok) = NoCall
       /\ tok # NoToken => /\ Probe(r, tok) # NoCall /\ Probe(r, tok).stage = "sent"
                           /\ Probe(r, tok).token = tok
<1>1. 0 \in Tokens
  BY BoundsAssumption DEF Tokens
<1>2. NoCall = [kind |-> "none", realm |-> "staff", token |-> 0, acct |-> "nobody", stage |-> "idle"]
  BY DEF NoCall, Request, NoToken
<1>3. \A k \in RequestKinds, r \in Realms, tok \in Tokens, a \in Accounts :
        /\ Request(k, r, tok, a) = [kind |-> k, realm |-> r, token |-> tok, acct |-> a, stage |-> "sent"]
        /\ Request(k, r, tok, a) \in Calls
  BY DEF Request, Calls, RequestKinds, Tokens, Accounts
<1>4. NoCall \in Calls
  BY <1>1, <1>2 DEF Calls, Realms, Tokens
<1>5. ASSUME NEW r \in Realms, NEW tok \in Tokens
      PROVE  /\ Probe(r, tok) \in Calls
             /\ tok = NoToken => Probe(r, tok) = NoCall
             /\ tok # NoToken => /\ Probe(r, tok) # NoCall /\ Probe(r, tok).stage = "sent"
                                 /\ Probe(r, tok).token = tok
  <2>1. /\ Request("probe", r, tok, "nobody") \in Calls
        /\ Request("probe", r, tok, "nobody") =
             [kind |-> "probe", realm |-> r, token |-> tok, acct |-> "nobody", stage |-> "sent"]
    BY <1>3 DEF RequestKinds, Accounts
  <2>2. QED
    BY <1>2, <1>4, <2>1 DEF Probe
<1>6. QED
  BY <1>2, <1>3, <1>4, <1>5

LEMMA OutcomeIs ==
  ASSUME NEW c \in Calls, NEW status \in Stages, NEW a \in Accounts
  PROVE  /\ Outcome(c, status, a) = [kind |-> c.kind, realm |-> c.realm, token |-> 0, acct |-> a, stage |-> status]
         /\ Outcome(c, status, a) \in Calls
<1>1. Outcome(c, status, a) = [kind |-> c.kind, realm |-> c.realm, token |-> 0, acct |-> a, stage |-> status]
  <2>1. c = [kind |-> c.kind, realm |-> c.realm, token |-> c.token, acct |-> c.acct, stage |-> c.stage]
    BY DEF Calls
  <2>2. Outcome(c, status, a) =
          [[kind |-> c.kind, realm |-> c.realm, token |-> c.token, acct |-> c.acct, stage |-> c.stage]
             EXCEPT !.stage = status, !.acct = a, !.token = 0]
    BY <2>1, Zenon DEF Outcome, NoToken
  <2>3. QED
    BY <2>2
<1>2. 0 \in 0..MaxTokens
  BY BoundsAssumption
<1>3. c.kind \in RequestKinds /\ c.realm \in Realms
  BY DEF Calls, RequestKinds
<1>4. QED
  BY <1>1, <1>2, <1>3 DEF Calls, Stages, Accounts, RequestKinds

LEMMA BearerIs ==
  ASSUME TypeOK, NEW c \in Calls
  PROVE  /\ Bearer(c) \in Accounts
         /\ Bearer(c) # "nobody" => c.token # NoToken /\ Bearer(c) = owner[c.token]
<1>1. live \subseteq 1..MaxTokens /\ owner \in [1..MaxTokens -> Accounts]
  BY DEF TypeOK, Issued, Accounts
<1>2. CASE c.token \in live
  <2>1. c.token \in 1..MaxTokens
    BY <1>1, <1>2
  <2>2. c.token # 0 /\ owner[c.token] \in Accounts
    BY <1>1, <2>1, BoundsAssumption
  <2>3. QED
    BY <1>2, <2>2 DEF Bearer, NoToken
<1>3. CASE c.token \notin live
  BY <1>3 DEF Bearer, Accounts
<1>4. QED
  BY <1>2, <1>3

LEMMA GrantIs ==
  ASSUME TypeOK, NEW k \in NextFree, NEW a \in Users, Grant(k, a)
  PROVE  /\ k \in 1..MaxTokens /\ owner[k] = "nobody" /\ owner'[k] = a /\ a # "nobody"
         /\ owner' \in [1..MaxTokens -> Accounts] /\ live' \subseteq Issued'
         /\ \A j \in 1..MaxTokens : owner[j] # "nobody" => owner'[j] = owner[j]
BY NobodyAssumption DEF TypeOK, Grant, NextFree, Issued, Accounts, Users

LEMMA WiredType ==
  ASSUME TypeOK, NEW p, NEW u \in Accounts, NEW tok \in Tokens
  PROVE  Wired(p, u, tok) \in [user : Accounts, token : Tokens]
BY BoundsAssumption DEF TypeOK, Wired, NoSocket, NoToken, Accounts, Tokens

\* What RealtimeProvider leaves is the socket of who is shown.
LEMMA WiredIs ==
  ASSUME TypeOK, SocketInv, SocketIsTheirs, NEW u \in Accounts, NEW tok \in Tokens,
         socket' = Wired(path', u, tok), shown'["staff"] = u, crossed' = crossed, owner' = owner,
         ~crossed /\ u # "nobody" => tok # NoToken /\ owner[tok] = u
  PROVE  SocketIsTheirs' /\ SocketInv'
<1>1. CASE path' = "office" /\ u # "nobody" /\ socket.user = u
  BY <1>1 DEF Wired, SocketIsTheirs, SocketInv, NoSocket
<1>2. CASE path' = "office" /\ u # "nobody" /\ socket.user # u
  <2>1. socket' = [user |-> u, token |-> tok]
    BY <1>2 DEF Wired
  <2>2. QED
    BY <1>2, <2>1 DEF SocketIsTheirs, SocketInv
<1>3. CASE ~(path' = "office" /\ u # "nobody")
  BY <1>3 DEF Wired, SocketIsTheirs, SocketInv
<1>4. QED
  BY <1>1, <1>2, <1>3

\* Where a move leaves the providers.
LEMMA GoesIs ==
  ASSUME TypeOK, NEW p \in Paths, NEW who \in [Realms -> Accounts], NEW toks \in [Realms -> Tokens],
         Goes(p, who, toks)
  PROVE  /\ path' = p /\ shown' \in [Realms -> Accounts] /\ probe' \in [Realms -> Calls]
         /\ loading' \in [Realms -> BOOLEAN] /\ socket' \in [user : Accounts, token : Tokens]
         /\ socket' = Wired(p, who["staff"], toks["staff"])
         /\ shown'["staff"] = who["staff"] /\ probe'["staff"] = probe["staff"]
         /\ loading'["staff"] = loading["staff"]
         /\ p \in Site /\ path \in Site =>
              /\ shown'["client"] = who["client"] /\ probe'["client"] = probe["client"]
              /\ loading'["client"] = loading["client"]
         /\ p \in Site /\ path \notin Site =>
              /\ shown'["client"] = "nobody" /\ probe'["client"] = Probe("client", toks["client"])
              /\ loading'["client"] = (toks["client"] # NoToken)
         /\ p \notin Site =>
              /\ shown'["client"] = "nobody" /\ probe'["client"] = NoCall /\ loading'["client"] = FALSE
         /\ late' \subseteq Calls
<1>1. who["staff"] \in Accounts /\ toks["staff"] \in Tokens /\ toks["client"] \in Tokens
  BY DEF Realms
<1>2. socket' = Wired(p, who["staff"], toks["staff"]) /\ socket' \in [user : Accounts, token : Tokens]
  BY <1>1, WiredType DEF Goes
<1>3. Probe("client", toks["client"]) \in Calls /\ NoCall \in Calls
  BY <1>1, CallTypes DEF Realms
<1>4. /\ path' = p
      /\ shown' = [who EXCEPT !["client"] = IF p \in Site /\ path \in Site THEN @ ELSE "nobody"]
      /\ probe' = [probe EXCEPT !["client"] =
                     IF p \in Site /\ path \notin Site THEN Probe("client", toks["client"])
                     ELSE IF p \notin Site THEN NoCall ELSE @]
      /\ loading' = [loading EXCEPT !["client"] =
                       IF p \in Site /\ path \notin Site THEN toks["client"] # NoToken
                       ELSE p \in Site /\ @]
  BY DEF Goes
<1>5. /\ shown' \in [Realms -> Accounts] /\ shown'["staff"] = who["staff"]
      /\ shown'["client"] = IF p \in Site /\ path \in Site THEN who["client"] ELSE "nobody"
  BY <1>4 DEF Realms, Accounts
<1>6. /\ probe' \in [Realms -> Calls] /\ probe'["staff"] = probe["staff"]
      /\ probe'["client"] = IF p \in Site /\ path \notin Site THEN Probe("client", toks["client"])
                            ELSE IF p \notin Site THEN NoCall ELSE probe["client"]
  BY <1>3, <1>4 DEF TypeOK, Realms
<1>7. /\ loading' \in [Realms -> BOOLEAN] /\ loading'["staff"] = loading["staff"]
      /\ loading'["client"] = IF p \in Site /\ path \notin Site THEN toks["client"] # NoToken
                              ELSE p \in Site /\ loading["client"]
  BY <1>4 DEF TypeOK, Realms
<1>8. loading["client"] \in BOOLEAN
  BY DEF TypeOK, Realms
<1>9. /\ p \in Site /\ path \in Site => loading'["client"] = loading["client"]
      /\ p \in Site /\ path \notin Site => loading'["client"] = (toks["client"] # NoToken)
      /\ p \notin Site => loading'["client"] = FALSE
  BY <1>7, <1>8
<1>10. late' \subseteq Calls
  <2>1. late \subseteq Calls
    BY DEF TypeOK
  <2>2. Orphan \in Calls
    BY BoundsAssumption, CallTypes DEF Orphan, RequestKinds, Realms, Tokens, Accounts, NoToken
  <2>3. \A c \in Calls : Unheard(c) \in Calls
    BY DEF Unheard, Calls
  <2>4. CASE late' = late
    BY <2>1, <2>4
  <2>5. CASE Unmount
    BY <2>1, <2>2, <2>3, <2>5 DEF Unmount
  <2>6. QED
    BY <2>4, <2>5 DEF Goes
<1>11. QED
  BY <1>2, <1>4, <1>5, <1>6, <1>7, <1>9, <1>10

-----------------------------------------------------------------------------
(* Steps of the API and of requests, which leave the tab as it is.          *)

LEMMA TabFrame ==
  ASSUME IInv, UNCHANGED <<token, path, shown, loading, probe, socket>>, crossed' \in BOOLEAN, crossed => crossed',
         \A k \in 1..MaxTokens : owner[k] # "nobody" => owner'[k] = owner[k]
  PROVE  ProbeInv' /\ VisitorInv' /\ SocketInv' /\ ShownIsOwner'
<1>1. \A r \in Realms : token[r] # NoToken => token[r] \in 1..MaxTokens
  BY BoundsAssumption DEF IInv, TypeOK, NoToken
<1>2. ProbeInv'
  <2>1. \A r \in Realms : ~crossed /\ probe[r].stage = "ok" =>
           token[r] \in 1..MaxTokens /\ owner[token[r]] # "nobody"
    BY <1>1, CallTypes DEF IInv, ProbeInv
  <2>2. \A r \in Realms : ~crossed /\ probe[r].stage = "ok" =>
           owner'[token[r]] = probe[r].acct
    BY <2>1 DEF IInv, ProbeInv
  <2>3. QED
    BY <2>2 DEF IInv, ProbeInv, tab
<1>3. VisitorInv' /\ SocketInv'
  BY DEF IInv, VisitorInv, SocketInv, tab
<1>4. ShownIsOwner'
  <2>1. ~crossed' => \A r \in Realms : shown'[r] # "nobody" =>
                        token'[r] # NoToken /\ owner'[token'[r]] = shown'[r]
    BY <1>1 DEF IInv, ShownIsOwner, tab
  <2>2. socket.token # NoToken => socket.token \in 1..MaxTokens
    BY BoundsAssumption DEF IInv, TypeOK, NoToken
  <2>3. SocketIsTheirs'
    BY <2>2 DEF IInv, ShownIsOwner, SocketIsTheirs, SocketInv, tab
  <2>4. QED
    BY <2>1, <2>3 DEF ShownIsOwner
<1>5. QED
  BY <1>2, <1>3, <1>4

LEMMA SubmitInv ==
  ASSUME IInv, NEW r \in Realms, NEW a \in Users, Submit("login", r, a)
  PROVE  IInv'
<1>1. /\ path = LoginPath(r) /\ shown[r] = "nobody" /\ call' = Request("login", r, token[r], a)
      /\ UNCHANGED <<token, tab, opens, api>> /\ crossed' = (crossed \/ loading[r])
  BY DEF Submit, Send
<1>2. token[r] \in Tokens /\ a \in Accounts /\ a # "nobody" /\ loading[r] \in BOOLEAN
  BY NobodyAssumption DEF IInv, TypeOK, Tokens, Accounts
<1>3. /\ call' \in Calls /\ call'.kind = "login" /\ call'.realm = r /\ call'.token = token[r]
      /\ call'.acct = a /\ call'.stage = "sent"
  BY <1>1, <1>2, CallTypes DEF RequestKinds
<1>4. TypeOK'
  BY <1>1, <1>2, <1>3 DEF IInv, TypeOK, tab, api, Issued
<1>5. SignInInv'
  <2>1. ~crossed' => ~crossed /\ ~loading[r] /\ probe[r] = NoCall
    BY <1>1, <1>2 DEF IInv, ProbeInv, TypeOK
  <2>2. ~crossed' /\ r = "client" => token["client"] = NoToken
    BY <1>1, <2>1 DEF IInv, VisitorInv, LoginPath, Site
  <2>3. QED
    BY <1>1, <1>2, <1>3, <2>1, <2>2 DEF SignInInv, tab
<1>6. PageInv'
  BY <1>3 DEF PageInv, PageKinds
<1>7. ProbeInv' /\ VisitorInv' /\ SocketInv' /\ ShownIsOwner'
  <2>1. crossed' \in BOOLEAN /\ (crossed => crossed') /\ owner' = owner
    BY <1>1, <1>2 DEF IInv, TypeOK, api
  <2>2. QED
    BY <1>1, <2>1, TabFrame DEF tab
<1>8. QED
  BY <1>4, <1>5, <1>6, <1>7 DEF IInv

LEMMA AskInv ==
  ASSUME IInv, PageCall \/ SaveProfile \/ ChangePassword \/ StaffLogout \/ ClientLogout
  PROVE  IInv'
<1>1. PICK k \in PageKinds, r \in Realms : Inside(r) /\ Send(k, r, "nobody") /\ UNCHANGED crossed
  BY DEF PageCall, SaveProfile, ChangePassword, StaffLogout, ClientLogout, PageKinds, Realms
<1>2. /\ path = Home(r) /\ shown[r] # "nobody" /\ call' = Request(k, r, token[r], "nobody")
      /\ UNCHANGED <<token, tab, opens, api, crossed>>
  BY <1>1 DEF Inside, Send
<1>3. token[r] \in Tokens /\ "nobody" \in Accounts /\ k \in RequestKinds
  BY DEF IInv, TypeOK, Tokens, Accounts, PageKinds, RequestKinds
<1>4. /\ call' \in Calls /\ call'.kind = k /\ call'.realm = r /\ call'.stage = "sent"
  BY <1>2, <1>3, CallTypes
<1>5. TypeOK'
  BY <1>2, <1>4 DEF IInv, TypeOK, tab, api, Issued
<1>6. SignInInv'
  BY <1>4 DEF SignInInv, PageKinds
<1>7. PageInv'
  BY <1>2, <1>4 DEF PageInv, PageKinds, Home, Realms, tab
<1>8. ProbeInv' /\ VisitorInv' /\ SocketInv' /\ ShownIsOwner'
  BY <1>2, TabFrame DEF tab, api, IInv, TypeOK
<1>9. QED
  BY <1>5, <1>6, <1>7, <1>8 DEF IInv

LEMMA IssueInv ==
  ASSUME IInv, Issue
  PROVE  IInv'
<1>1. /\ call.kind = "login" /\ call.stage = "sent" /\ call \in Calls
      /\ UNCHANGED <<token, tab, banned, crossed, opens>>
  BY DEF Issue, IInv, TypeOK
<1>2. call.acct \in Users /\ call.acct # "nobody"
  BY <1>1 DEF IInv, SignInInv, Calls
<1>3. CASE call.acct \in banned
  <2>1. call' = Outcome(call, "invalid", "nobody") /\ UNCHANGED <<owner, live>>
    BY <1>3 DEF Issue
  <2>2. /\ call' \in Calls /\ call'.kind = "login" /\ call'.realm = call.realm
        /\ call'.stage = "invalid"
    BY <1>1, <2>1, OutcomeIs DEF Stages, Accounts
  <2>3. TypeOK'
    BY <1>1, <2>1, <2>2 DEF IInv, TypeOK, tab, Issued
  <2>4. SignInInv' /\ PageInv'
    BY <1>1, <2>2 DEF IInv, SignInInv, PageInv, PageKinds, tab
  <2>5. ProbeInv' /\ VisitorInv' /\ SocketInv' /\ ShownIsOwner'
    BY <1>1, <2>1, TabFrame DEF tab, IInv, TypeOK
  <2>6. QED
    BY <2>3, <2>4, <2>5 DEF IInv
<1>4. CASE call.acct \notin banned
  <2>1. PICK k \in NextFree :
          Grant(k, call.acct) /\ call' = [call EXCEPT !.stage = "ok", !.token = k]
    BY <1>4 DEF Issue
  <2>2. /\ k \in 1..MaxTokens /\ owner[k] = "nobody" /\ owner'[k] = call.acct
        /\ owner' \in [1..MaxTokens -> Accounts] /\ live' \subseteq Issued'
        /\ \A j \in 1..MaxTokens : owner[j] # "nobody" => owner'[j] = owner[j]
    BY <1>2, <2>1, GrantIs DEF IInv
  <2>3. k \in Tokens /\ k # NoToken
    BY <2>2, BoundsAssumption DEF Tokens, NoToken
  <2>4. /\ call' \in Calls /\ call'.kind = "login" /\ call'.realm = call.realm
        /\ call'.stage = "ok" /\ call'.token = k /\ call'.acct = call.acct
    BY <1>1, <2>1, <2>3 DEF Calls, Tokens
  <2>5. TypeOK'
    BY <1>1, <2>2, <2>4 DEF IInv, TypeOK, tab, Accounts
  <2>6. SignInInv'
    BY <1>1, <1>2, <2>2, <2>3, <2>4 DEF IInv, SignInInv, tab
  <2>7. PageInv'
    BY <2>4 DEF PageInv, PageKinds
  <2>8. ProbeInv' /\ VisitorInv' /\ SocketInv' /\ ShownIsOwner'
    BY <1>1, <2>2, TabFrame DEF tab, IInv, TypeOK
  <2>9. QED
    BY <2>5, <2>6, <2>7, <2>8 DEF IInv
<1>5. QED
  BY <1>3, <1>4

LEMMA HandleInv ==
  ASSUME IInv, Handle
  PROVE  IInv'
<1>1. /\ call.kind \notin {"none", "login"} /\ call.stage = "sent" /\ call \in Calls
      /\ UNCHANGED <<token, tab, owner, banned, crossed, opens>>
  BY DEF Handle, IInv, TypeOK
<1>2. /\ Bearer(call) \in Accounts
      /\ Bearer(call) # "nobody" => call.token # NoToken /\ Bearer(call) = owner[call.token]
  BY <1>1, BearerIs DEF IInv
<1>3. PICK status \in {"401", "ok"}, a \in Accounts :
        /\ call' = Outcome(call, status, a) /\ live' \subseteq live
        /\ status = "401" => a = "nobody"
        /\ status = "ok" /\ call.kind = "me" => a = Bearer(call) /\ a # "nobody"
  <2>1. CASE Bearer(call) = "nobody"
    BY <2>1 DEF Handle, Accounts
  <2>2. CASE Bearer(call) # "nobody"
    BY <1>2, <2>2 DEF Handle, Accounts
  <2>3. QED
    BY <2>1, <2>2
<1>4. /\ call' \in Calls /\ call'.kind = call.kind /\ call'.realm = call.realm
      /\ call'.stage = status /\ call'.acct = a
  <2>1. status \in Stages
    BY DEF Stages
  <2>2. /\ call' = [kind |-> call.kind, realm |-> call.realm, token |-> 0, acct |-> a, stage |-> status]
        /\ call' \in Calls
    BY <1>1, <1>3, <2>1, OutcomeIs
  <2>3. QED
    BY <2>2
<1>5. TypeOK'
  BY <1>1, <1>3, <1>4 DEF IInv, TypeOK, tab, Issued
<1>6. SignInInv'
  BY <1>1, <1>2, <1>3, <1>4 DEF IInv, SignInInv, tab
<1>7. PageInv'
  BY <1>1, <1>4 DEF IInv, PageInv, PageKinds, tab, Calls
<1>8. ProbeInv' /\ VisitorInv' /\ SocketInv' /\ ShownIsOwner'
  BY <1>1, TabFrame DEF tab, IInv, TypeOK
<1>9. QED
  BY <1>5, <1>6, <1>7, <1>8 DEF IInv

LEMMA LoseInv ==
  ASSUME IInv, Lose \/ Returned
  PROVE  IInv'
<1>1. UNCHANGED <<token, tab, crossed, opens, api>> /\ call \in Calls
  BY DEF Lose, Returned, IInv, TypeOK
<1>2. /\ call' \in Calls /\ call'.stage \in {"lost", "idle"}
      /\ (call'.kind = call.kind /\ call'.realm = call.realm) \/ call'.kind = "none"
  <2>1. CASE Lose
    BY <1>1, <2>1, OutcomeIs DEF Lose, Stages, Accounts
  <2>2. CASE Returned
    BY <2>2, CallTypes DEF Returned
  <2>3. QED
    BY <2>1, <2>2
<1>3. TypeOK'
  BY <1>1, <1>2 DEF IInv, TypeOK, tab, api, Issued
<1>4. SignInInv' /\ PageInv'
  BY <1>1, <1>2 DEF IInv, SignInInv, PageInv, PageKinds, tab
<1>5. ProbeInv' /\ VisitorInv' /\ SocketInv' /\ ShownIsOwner'
  BY <1>1, TabFrame DEF tab, IInv, TypeOK, api
<1>6. QED
  BY <1>3, <1>4, <1>5 DEF IInv

LEMMA MoveOnInv ==
  ASSUME IInv, MoveOn
  PROVE  IInv'
<1>1. /\ UNCHANGED <<token, path, shown, loading, probe, socket, api, crossed, opens>>
      /\ call' = NoCall /\ NoCall \in Calls /\ NoCall.kind = "none" /\ NoCall.stage = "idle"
      /\ late' \subseteq Calls
  BY CallTypes DEF MoveOn, Abandon, IInv, TypeOK
<1>2. TypeOK'
  BY <1>1 DEF IInv, TypeOK, api, Issued
<1>3. SignInInv' /\ PageInv'
  BY <1>1 DEF SignInInv, PageInv, PageKinds
<1>4. ProbeInv' /\ VisitorInv' /\ SocketInv' /\ ShownIsOwner'
  BY <1>1, TabFrame DEF IInv, TypeOK, api
<1>5. QED
  BY <1>2, <1>3, <1>4 DEF IInv

LEMMA SuspendInv ==
  ASSUME IInv, NEW a \in Staff, Suspend(a)
  PROVE  IInv'
<1>1. /\ UNCHANGED <<token, tab, call, owner, crossed, opens>>
      /\ live' \subseteq live /\ banned' = banned \union {a}
  BY DEF Suspend
<1>2. TypeOK'
  BY <1>1 DEF IInv, TypeOK, tab, Issued, Users
<1>3. SignInInv' /\ PageInv'
  BY <1>1 DEF IInv, SignInInv, PageInv, tab
<1>4. ProbeInv' /\ VisitorInv' /\ SocketInv' /\ ShownIsOwner'
  BY <1>1, TabFrame DEF tab, IInv, TypeOK
<1>5. QED
  BY <1>2, <1>3, <1>4 DEF IInv

\* Another tab: what it does under this one is why crossed is set.
LEMMA OtherTabInv ==
  ASSUME IInv, NEW r \in Realms, OtherTab(r)
  PROVE  IInv'
<1>1. crossed' = TRUE /\ UNCHANGED <<tab, call, banned, opens>>
  BY DEF OtherTab
<1>2. /\ token' \in [Realms -> Tokens] /\ owner' \in [1..MaxTokens -> Accounts] /\ live' \subseteq Issued'
      /\ \A j \in 1..MaxTokens : owner[j] # "nobody" => owner'[j] = owner[j]
  <2>1. CASE token' = [token EXCEPT ![r] = NoToken] /\ live' \subseteq live /\ owner' = owner
    <3>1. 0 \in Tokens /\ token \in [Realms -> Tokens]
      BY BoundsAssumption DEF Tokens, IInv, TypeOK
    <3>2. QED
      BY <2>1, <3>1 DEF IInv, TypeOK, Issued, NoToken, Accounts
  <2>2. CASE \E k \in NextFree, a \in Users : Grant(k, a) /\ token' = [token EXCEPT ![r] = k]
    <3>1. PICK k \in NextFree, a \in Users : Grant(k, a) /\ token' = [token EXCEPT ![r] = k]
      BY <2>2
    <3>2. /\ k \in 1..MaxTokens /\ owner' \in [1..MaxTokens -> Accounts] /\ live' \subseteq Issued'
          /\ \A j \in 1..MaxTokens : owner[j] # "nobody" => owner'[j] = owner[j]
      BY <3>1, GrantIs DEF IInv
    <3>3. k \in Tokens /\ token \in [Realms -> Tokens]
      BY <3>2, BoundsAssumption DEF Tokens, IInv, TypeOK
    <3>4. QED
      BY <3>1, <3>2, <3>3
  <2>3. QED
    BY <2>1, <2>2 DEF OtherTab, Users
<1>3. TypeOK'
  BY <1>1, <1>2 DEF IInv, TypeOK, tab, Accounts, Tokens
<1>4. SignInInv'
  <2>1. call.token # NoToken => call.token \in 1..MaxTokens
    BY BoundsAssumption DEF IInv, TypeOK, Calls, NoToken
  <2>2. QED
    BY <1>1, <1>2, <2>1 DEF IInv, SignInInv
<1>5. PageInv' /\ ProbeInv' /\ VisitorInv' /\ SocketInv' /\ ShownIsOwner'
  BY <1>1 DEF IInv, PageInv, ProbeInv, VisitorInv, SocketInv, ShownIsOwner, SocketIsTheirs, tab
<1>6. QED
  BY <1>3, <1>4, <1>5 DEF IInv

-----------------------------------------------------------------------------
(* The session checks.                                                     *)

LEMMA ProbeAnswerInv ==
  ASSUME IInv, NEW r \in Realms, HandleProbe(r) \/ LoseProbe(r)
  PROVE  IInv'
<1>1. /\ probe[r].stage = "sent" /\ probe[r] \in Calls
      /\ UNCHANGED <<token, path, shown, loading, call, late, socket, api, crossed, opens>>
  BY DEF HandleProbe, LoseProbe, IInv, TypeOK
<1>2. /\ Bearer(probe[r]) \in Accounts
      /\ Bearer(probe[r]) # "nobody" => Bearer(probe[r]) = owner[probe[r].token]
  BY <1>1, BearerIs DEF IInv
<1>3. PICK status \in {"401", "ok", "lost"}, a \in Accounts :
        /\ probe' = [probe EXCEPT ![r] = Outcome(probe[r], status, a)]
        /\ status = "ok" => a = Bearer(probe[r]) /\ a # "nobody"
  <2>1. CASE HandleProbe(r)
    <3>1. CASE Bearer(probe[r]) = "nobody"
      BY <2>1, <3>1 DEF HandleProbe, Accounts
    <3>2. CASE Bearer(probe[r]) # "nobody"
      BY <1>2, <2>1, <3>2 DEF HandleProbe
    <3>3. QED
      BY <3>1, <3>2
  <2>2. CASE LoseProbe(r)
    BY <2>2 DEF LoseProbe, Accounts
  <2>3. QED
    BY <2>1, <2>2
<1>4. /\ probe' \in [Realms -> Calls] /\ probe'[r].stage = status /\ probe'[r].acct = a
      /\ \A q \in Realms \ {r} : probe'[q] = probe[q]
  <2>1. status \in Stages
    BY DEF Stages
  <2>2. /\ Outcome(probe[r], status, a) =
             [kind |-> probe[r].kind, realm |-> probe[r].realm, token |-> 0, acct |-> a, stage |-> status]
        /\ Outcome(probe[r], status, a) \in Calls
    BY <1>1, <2>1, OutcomeIs
  <2>3. QED
    BY <1>3, <2>2 DEF IInv, TypeOK
<1>5. probe'[r] # NoCall /\ probe[r] # NoCall
  BY <1>1, <1>4, CallTypes
<1>6. TypeOK'
  BY <1>1, <1>4 DEF IInv, TypeOK, api, Issued
<1>7. ProbeInv'
  BY <1>1, <1>2, <1>3, <1>4, <1>5 DEF IInv, ProbeInv, api
<1>8. SignInInv'
  <2>1. ~crossed /\ call.kind \in {"login", "me"} => call.realm # r
    BY <1>5 DEF IInv, SignInInv
  <2>2. call.realm \in Realms
    BY DEF IInv, TypeOK, Calls
  <2>3. QED
    BY <1>1, <1>4, <2>1, <2>2 DEF IInv, SignInInv, api
<1>9. PageInv' /\ VisitorInv' /\ SocketInv' /\ ShownIsOwner'
  BY <1>1 DEF IInv, PageInv, VisitorInv, SocketInv, ShownIsOwner, SocketIsTheirs, api
<1>10. QED
  BY <1>6, <1>7, <1>8, <1>9 DEF IInv

LEMMA KeepProbeInv ==
  ASSUME IInv, NEW r \in Realms, probe[r].stage = "ok", KeepProbe(r), UNCHANGED <<opens, api>>
  PROVE  IInv'
<1>1. /\ shown' = [shown EXCEPT ![r] = probe[r].acct]
      /\ socket' = Wired(path, shown'["staff"], token["staff"])
      /\ probe' = [probe EXCEPT ![r] = NoCall] /\ loading' = [loading EXCEPT ![r] = FALSE]
      /\ UNCHANGED <<token, path, call, late, crossed, opens, owner, live, banned>>
  BY DEF KeepProbe, api
<1>2. /\ shown' \in [Realms -> Accounts] /\ probe' \in [Realms -> Calls] /\ loading' \in [Realms -> BOOLEAN]
      /\ shown'[r] = probe[r].acct /\ probe'[r] = NoCall /\ loading'[r] = FALSE
      /\ \A q \in Realms \ {r} : shown'[q] = shown[q] /\ probe'[q] = probe[q] /\ loading'[q] = loading[q]
  <2>1. probe[r].acct \in Accounts /\ NoCall \in Calls
    BY CallTypes DEF IInv, TypeOK, Calls, Accounts
  <2>2. QED
    BY <1>1, <2>1 DEF IInv, TypeOK, Accounts
<1>3. /\ probe[r] # NoCall /\ shown'[r] # "nobody" /\ NoCall.stage = "idle"
      /\ ~crossed => token[r] # NoToken /\ owner[token[r]] = shown'[r]
  BY <1>2, CallTypes DEF IInv, ProbeInv
<1>4. ~crossed => \A q \in Realms : shown'[q] # "nobody" =>
                     token[q] # NoToken /\ owner[token[q]] = shown'[q]
  BY <1>2, <1>3 DEF IInv, ShownIsOwner
<1>5. socket' \in [user : Accounts, token : Tokens] /\ SocketIsTheirs' /\ SocketInv'
  <2>1. "staff" \in Realms /\ shown'["staff"] \in Accounts /\ token["staff"] \in Tokens
    BY <1>2 DEF IInv, TypeOK, Realms, Tokens
  <2>2. socket' \in [user : Accounts, token : Tokens]
    BY <1>1, <2>1, WiredType DEF IInv
  <2>3. SocketIsTheirs' /\ SocketInv'
    BY <1>1, <1>4, <2>1, WiredIs DEF IInv, ShownIsOwner
  <2>4. QED
    BY <2>2, <2>3
<1>6. TypeOK'
  BY <1>1, <1>2, <1>5 DEF IInv, TypeOK, Accounts, Tokens, Issued
<1>7. ProbeInv'
  BY <1>1, <1>2, <1>3 DEF IInv, ProbeInv
<1>8. SignInInv'
  <2>1. ~crossed /\ call.kind \in {"login", "me"} => call.realm # r
    BY <1>3 DEF IInv, SignInInv
  <2>2. call.realm \in Realms
    BY DEF IInv, TypeOK, Calls
  <2>3. QED
    BY <1>1, <1>2, <2>1, <2>2 DEF IInv, SignInInv
<1>9. PageInv'
  BY <1>1, <1>2, <1>3 DEF IInv, PageInv, TypeOK, Calls
<1>10. VisitorInv'
  BY <1>1, <1>2, <1>3 DEF IInv, VisitorInv, Realms
<1>11. ShownIsOwner'
  BY <1>1, <1>4, <1>5 DEF ShownIsOwner
<1>12. QED
  BY <1>5, <1>6, <1>7, <1>8, <1>9, <1>10, <1>11 DEF IInv

LEMMA DropProbeInv ==
  ASSUME IInv, NEW r \in Realms, probe[r].stage \in {"401", "lost"}, DropProbe(r), UNCHANGED <<opens, api>>
  PROVE  IInv'
<1>1. /\ token' = [token EXCEPT ![r] = NoToken]
      /\ probe' = [probe EXCEPT ![r] = NoCall] /\ loading' = [loading EXCEPT ![r] = FALSE]
      /\ UNCHANGED <<path, shown, socket, call, late, crossed, opens, owner, live, banned>>
  BY DEF DropProbe, Store, Without, api
<1>2. /\ token' \in [Realms -> Tokens] /\ probe' \in [Realms -> Calls] /\ loading' \in [Realms -> BOOLEAN]
      /\ token'[r] = NoToken /\ probe'[r] = NoCall /\ loading'[r] = FALSE
      /\ \A q \in Realms \ {r} : token'[q] = token[q] /\ probe'[q] = probe[q] /\ loading'[q] = loading[q]
  <2>1. NoToken \in Tokens /\ NoCall \in Calls
    BY BoundsAssumption, CallTypes DEF NoToken, Tokens
  <2>2. QED
    BY <1>1, <2>1 DEF IInv, TypeOK, Tokens
<1>3. probe[r] # NoCall /\ NoCall.stage = "idle" /\ (~crossed => shown[r] = "nobody")
  BY CallTypes DEF IInv, ProbeInv
<1>4. TypeOK'
  BY <1>1, <1>2 DEF IInv, TypeOK, Tokens, Issued
<1>5. ProbeInv'
  BY <1>1, <1>2, <1>3 DEF IInv, ProbeInv
<1>6. SignInInv'
  <2>1. ~crossed /\ call.kind \in {"login", "me"} => call.realm # r
    BY <1>3 DEF IInv, SignInInv
  <2>2. call.realm \in Realms
    BY DEF IInv, TypeOK, Calls
  <2>3. QED
    BY <1>1, <1>2, <2>1, <2>2 DEF IInv, SignInInv
<1>7. PageInv' /\ SocketInv'
  BY <1>1 DEF IInv, PageInv, SocketInv
<1>8. VisitorInv'
  BY <1>1, <1>2 DEF IInv, VisitorInv, Realms
<1>9. ShownIsOwner'
  BY <1>1, <1>2, <1>3 DEF IInv, ShownIsOwner, SocketIsTheirs
<1>10. QED
  BY <1>4, <1>5, <1>6, <1>7, <1>8, <1>9 DEF IInv

-----------------------------------------------------------------------------
(* Moving around.                                                          *)

LEMMA LoadInv ==
  ASSUME IInv, NEW p \in Paths, NEW toks \in [Realms -> Tokens], Load(p, toks),
         UNCHANGED api, opens' \in 0..MaxOpens
  PROVE  IInv'
<1>1. /\ token' = toks /\ path' = p /\ shown' = [r \in Realms |-> "nobody"]
      /\ probe' = [r \in Realms |-> IF MountedAt(r, p) THEN Probe(r, toks[r]) ELSE NoCall]
      /\ loading' = [r \in Realms |-> MountedAt(r, p) /\ toks[r] # NoToken]
      /\ call' = NoCall /\ late' = {} /\ socket' = NoSocket /\ crossed' = FALSE
      /\ UNCHANGED <<owner, live, banned>>
  BY DEF Load, api
<1>2. \A r \in Realms : /\ toks[r] \in Tokens /\ Probe(r, toks[r]) \in Calls
                        /\ toks[r] = NoToken => Probe(r, toks[r]) = NoCall
                        /\ toks[r] # NoToken => /\ Probe(r, toks[r]) # NoCall
                                                /\ Probe(r, toks[r]).stage = "sent"
                                                /\ Probe(r, toks[r]).token = toks[r]
  BY CallTypes
<1>3. NoCall \in Calls /\ NoCall.kind = "none" /\ NoCall.stage = "idle"
  BY CallTypes
<1>4. NoSocket \in [user : Accounts, token : Tokens]
  BY BoundsAssumption DEF NoSocket, NoToken, Accounts, Tokens
<1>5. TypeOK'
  BY <1>1, <1>2, <1>3, <1>4 DEF IInv, TypeOK, Accounts, Tokens, Issued, MountedAt
<1>6. \A r \in Realms : /\ shown'[r] = "nobody"
                        /\ probe'[r] = IF MountedAt(r, p) THEN Probe(r, toks[r]) ELSE NoCall
                        /\ loading'[r] = (MountedAt(r, p) /\ toks[r] # NoToken)
  BY <1>1
<1>7. ProbeInv'
  <2> SUFFICES ASSUME NEW r \in Realms
               PROVE  /\ loading'[r] = (probe'[r] # NoCall)
                      /\ probe'[r].stage # "ok" /\ shown'[r] = "nobody"
                      /\ probe'[r] # NoCall => toks[r] # NoToken
                      /\ probe'[r].stage = "sent" => probe'[r].token = toks[r]
    BY <1>1 DEF ProbeInv
  <2>1. CASE MountedAt(r, p) /\ toks[r] # NoToken
    BY <1>2, <1>6, <2>1
  <2>2. CASE ~(MountedAt(r, p) /\ toks[r] # NoToken)
    BY <1>2, <1>3, <1>6, <2>2
  <2>3. QED
    BY <2>1, <2>2
<1>8. SignInInv' /\ PageInv'
  BY <1>1, <1>3 DEF SignInInv, PageInv, PageKinds
<1>9. VisitorInv'
  BY <1>1, <1>6 DEF VisitorInv, MountedAt, Realms
<1>10. SocketInv' /\ ShownIsOwner'
  BY <1>1, <1>6 DEF SocketInv, ShownIsOwner, SocketIsTheirs
<1>11. QED
  BY <1>5, <1>7, <1>8, <1>9, <1>10 DEF IInv

\* A move that shows nobody new.
LEMMA EnterInv ==
  ASSUME IInv, NEW p \in Paths, Enter(p),
         call.kind \in PageKinds =>
           call.realm = "client" /\ path \in {"account", "public"} /\ p \in {"account", "public"}
  PROVE  IInv'
<1>1. Goes(p, shown, token) /\ UNCHANGED <<token, call, crossed, opens, owner, live, banned>>
  BY DEF Enter, api
<1>2. shown \in [Realms -> Accounts] /\ token \in [Realms -> Tokens] /\ "staff" \in Realms /\ "client" \in Realms
  BY DEF IInv, TypeOK, Accounts, Tokens, Realms
<1>3. /\ path' = p /\ shown' \in [Realms -> Accounts] /\ probe' \in [Realms -> Calls]
      /\ loading' \in [Realms -> BOOLEAN] /\ socket' \in [user : Accounts, token : Tokens]
      /\ socket' = Wired(p, shown["staff"], token["staff"])
      /\ shown'["staff"] = shown["staff"] /\ probe'["staff"] = probe["staff"]
      /\ loading'["staff"] = loading["staff"]
      /\ p \in Site /\ path \in Site =>
           /\ shown'["client"] = shown["client"] /\ probe'["client"] = probe["client"]
           /\ loading'["client"] = loading["client"]
      /\ p \in Site /\ path \notin Site =>
           /\ shown'["client"] = "nobody" /\ probe'["client"] = Probe("client", token["client"])
           /\ loading'["client"] = (token["client"] # NoToken)
      /\ p \notin Site =>
           /\ shown'["client"] = "nobody" /\ probe'["client"] = NoCall /\ loading'["client"] = FALSE
      /\ late' \subseteq Calls
  BY <1>1, <1>2, GoesIs DEF IInv
<1>4. /\ NoCall.stage = "idle"
      /\ token["client"] = NoToken => Probe("client", token["client"]) = NoCall
      /\ token["client"] # NoToken => /\ Probe("client", token["client"]) # NoCall
                                      /\ Probe("client", token["client"]).stage = "sent"
                                      /\ Probe("client", token["client"]).token = token["client"]
  BY <1>2, CallTypes
<1>5. TypeOK'
  BY <1>1, <1>3 DEF IInv, TypeOK, Accounts, Tokens, Issued
<1>6. ProbeInv'
  <2>1. \A r \in Realms : r \in {"staff", "client"}
    BY DEF Realms
  <2>2. QED
    BY <1>1, <1>2, <1>3, <1>4, <2>1 DEF IInv, ProbeInv
<1>7. SignInInv'
  <2>1. call.realm \in {"staff", "client"}
    BY DEF IInv, TypeOK, Calls, Realms
  <2>2. QED
    BY <1>1, <1>3, <1>4, <2>1 DEF IInv, SignInInv
<1>8. PageInv'
  BY <1>1, <1>3 DEF IInv, PageInv, Site
<1>9. VisitorInv'
  BY <1>1, <1>3 DEF IInv, VisitorInv
<1>10. ~crossed => \A r \in Realms : shown'[r] # "nobody" =>
                     token[r] # NoToken /\ owner[token[r]] = shown'[r]
  BY <1>3 DEF IInv, ShownIsOwner, Realms
<1>11. SocketIsTheirs' /\ SocketInv'
  <2>1. shown["staff"] \in Accounts /\ token["staff"] \in Tokens
    BY <1>2
  <2>2. ~crossed /\ shown["staff"] # "nobody" =>
          token["staff"] # NoToken /\ owner[token["staff"]] = shown["staff"]
    BY <1>2 DEF IInv, ShownIsOwner
  <2>3. QED
    BY <1>1, <1>3, <2>1, <2>2, WiredIs DEF IInv, ShownIsOwner
<1>12. ShownIsOwner'
  BY <1>1, <1>10, <1>11 DEF ShownIsOwner
<1>13. QED
  BY <1>5, <1>6, <1>7, <1>8, <1>9, <1>11, <1>12 DEF IInv

LEMMA MoveInv ==
  ASSUME IInv, (\E p \in Paths : Follow(p)) \/ OfficeGuard \/ AccountGuard
               \/ (\E r \in Realms : SignedInAlready(r))
  PROVE  IInv'
<1>1. call.kind \in PageKinds =>
        /\ shown[call.realm] # "nobody" /\ call.realm \in {"staff", "client"}
        /\ path \in IF call.realm = "staff" THEN {"office"} ELSE {"account", "public"}
  BY DEF IInv, PageInv, TypeOK, Calls, Realms
<1>2. PICK p \in Paths :
        /\ Enter(p)
        /\ call.kind \in PageKinds =>
             call.realm = "client" /\ path \in {"account", "public"} /\ p \in {"account", "public"}
  <2>1. CASE \E p \in Paths : Follow(p)
    <3>1. PICK p \in Paths : p \in Links \ {path} /\ Enter(p)
      BY <2>1 DEF Follow
    <3>2. CASE call.kind \in PageKinds
      <4>1. path # "office" /\ path # "clientLogin" /\ path # "staffLogin"
        BY <1>1, <3>1, <3>2 DEF Links
      <4>2. call.realm = "client" /\ path \in {"account", "public"} /\ shown["client"] # "nobody"
        BY <1>1, <3>2, <4>1
      <4>3. p \in HeaderLinks \union {"public"}
        BY <3>1, <4>2 DEF Links
      <4>4. p \in {"account", "public"}
        BY <4>2, <4>3 DEF HeaderLinks
      <4>5. QED
        BY <3>1, <4>2, <4>4
    <3>3. QED
      BY <3>1, <3>2
  <2>2. CASE OfficeGuard
    BY <1>1, <2>2 DEF OfficeGuard, Paths
  <2>3. CASE AccountGuard
    BY <1>1, <2>3 DEF AccountGuard, Paths
  <2>4. CASE \E r \in Realms : SignedInAlready(r)
    BY <1>1, <2>4 DEF SignedInAlready, LoginPath, Home, Paths, Realms
  <2>5. QED
    BY <2>1, <2>2, <2>3, <2>4
<1>3. QED
  BY <1>2, EnterInv

-----------------------------------------------------------------------------
(* Answers.                                                                *)

LEMMA LoggedInInv ==
  ASSUME IInv, LoggedIn
  PROVE  IInv'
<1>1. /\ call.kind = "login" /\ call.realm = "staff" /\ call.stage = "ok" /\ call \in Calls
      /\ token' = [token EXCEPT !["staff"] = call.token]
      /\ call' = Request("me", "staff", call.token, "nobody")
      /\ UNCHANGED <<path, shown, loading, probe, socket, late, crossed, opens, owner, live, banned>>
  BY DEF LoggedIn, Store, tab, api, IInv, TypeOK
<1>2. /\ call.token \in Tokens /\ call.token # NoToken /\ owner[call.token] = call.acct
      /\ ~crossed => shown["staff"] = "nobody" /\ probe["staff"] = NoCall
  BY <1>1 DEF IInv, SignInInv, Calls, Tokens
<1>3. /\ call' \in Calls /\ call'.kind = "me" /\ call'.realm = "staff" /\ call'.stage = "sent"
      /\ call'.token = call.token
  BY <1>1, <1>2, CallTypes DEF RequestKinds, Realms, Accounts
<1>4. /\ token' \in [Realms -> Tokens] /\ token'["staff"] = call.token /\ token'["client"] = token["client"]
  BY <1>1, <1>2 DEF IInv, TypeOK, Realms, Tokens
<1>5. TypeOK'
  BY <1>1, <1>3, <1>4 DEF IInv, TypeOK, Tokens, Issued
<1>6. ProbeInv'
  BY <1>1, <1>2, <1>4, CallTypes DEF IInv, ProbeInv, Realms
<1>7. SignInInv'
  BY <1>1, <1>2, <1>3, <1>4 DEF SignInInv
<1>8. PageInv' /\ VisitorInv' /\ SocketInv'
  BY <1>1, <1>3, <1>4 DEF IInv, PageInv, PageKinds, VisitorInv, SocketInv
<1>9. ShownIsOwner'
  BY <1>1, <1>2, <1>4 DEF IInv, ShownIsOwner, SocketIsTheirs, Realms
<1>10. QED
  BY <1>5, <1>6, <1>7, <1>8, <1>9 DEF IInv

\* The answer to a sign-in or a sign-out moves the tab on, with who is shown now.
LEMMA ArriveInv ==
  ASSUME IInv, NEW p \in Paths, NEW r \in Realms, NEW a \in Accounts, NEW toks \in [Realms -> Tokens],
         Goes(p, [shown EXCEPT ![r] = a], toks), token' = toks, call' = NoCall,
         UNCHANGED <<crossed, opens, api>>,
         \A q \in Realms \ {r} : toks[q] = token[q],
         ~crossed => probe[r] = NoCall,
         ~crossed /\ a # "nobody" => toks[r] # NoToken /\ owner[toks[r]] = a,
         a = "nobody" /\ r = "client" => toks[r] = NoToken,
         r = "staff" => p \notin Site
  PROVE  IInv'
<1> DEFINE who == [shown EXCEPT ![r] = a]
<1>1. /\ who \in [Realms -> Accounts] /\ who[r] = a /\ \A q \in Realms \ {r} : who[q] = shown[q]
      /\ token \in [Realms -> Tokens] /\ "staff" \in Realms /\ "client" \in Realms
      /\ \A q \in Realms : q = "staff" \/ q = "client"
  BY DEF IInv, TypeOK, Accounts, Tokens, Realms
<1>2. Goes(p, who, toks)
  OBVIOUS
<1> HIDE DEF who
<1>3. /\ path' = p /\ shown' \in [Realms -> Accounts] /\ probe' \in [Realms -> Calls]
      /\ loading' \in [Realms -> BOOLEAN] /\ socket' \in [user : Accounts, token : Tokens]
      /\ socket' = Wired(p, who["staff"], toks["staff"])
      /\ shown'["staff"] = who["staff"] /\ probe'["staff"] = probe["staff"]
      /\ loading'["staff"] = loading["staff"]
      /\ p \in Site /\ path \in Site =>
           /\ shown'["client"] = who["client"] /\ probe'["client"] = probe["client"]
           /\ loading'["client"] = loading["client"]
      /\ p \in Site /\ path \notin Site =>
           /\ shown'["client"] = "nobody" /\ probe'["client"] = Probe("client", toks["client"])
           /\ loading'["client"] = (toks["client"] # NoToken)
      /\ p \notin Site =>
           /\ shown'["client"] = "nobody" /\ probe'["client"] = NoCall /\ loading'["client"] = FALSE
      /\ late' \subseteq Calls
  BY <1>1, <1>2, GoesIs DEF IInv
<1>4. /\ NoCall.stage = "idle" /\ NoCall.kind = "none" /\ NoCall \in Calls
      /\ toks["client"] = NoToken => Probe("client", toks["client"]) = NoCall
      /\ toks["client"] # NoToken => /\ Probe("client", toks["client"]) # NoCall
                                     /\ Probe("client", toks["client"]).stage = "sent"
                                     /\ Probe("client", toks["client"]).token = toks["client"]
  BY <1>1, CallTypes
<1>5. TypeOK'
  BY <1>3, <1>4 DEF IInv, TypeOK, Accounts, Tokens, Issued, api
<1>6. ProbeInv'
  <2>1. /\ loading'["staff"] = (probe'["staff"] # NoCall)
        /\ probe'["staff"].stage = "ok" => probe'["staff"].acct # "nobody"
        /\ ~crossed /\ probe'["staff"] # NoCall => shown'["staff"] = "nobody" /\ toks["staff"] # NoToken
        /\ ~crossed /\ probe'["staff"].stage = "sent" => probe'["staff"].token = toks["staff"]
        /\ ~crossed /\ probe'["staff"].stage = "ok" => owner[toks["staff"]] = probe'["staff"].acct
    BY <1>1, <1>3, <1>4 DEF IInv, ProbeInv
  <2>2. /\ loading'["client"] = (probe'["client"] # NoCall)
        /\ probe'["client"].stage = "ok" => probe'["client"].acct # "nobody"
        /\ ~crossed /\ probe'["client"] # NoCall => shown'["client"] = "nobody" /\ toks["client"] # NoToken
        /\ ~crossed /\ probe'["client"].stage = "sent" => probe'["client"].token = toks["client"]
        /\ ~crossed /\ probe'["client"].stage = "ok" => owner[toks["client"]] = probe'["client"].acct
    BY <1>1, <1>3, <1>4 DEF IInv, ProbeInv
  <2>3. QED
    BY <1>1, <2>1, <2>2 DEF ProbeInv, api
<1>7. SignInInv' /\ PageInv'
  BY <1>4 DEF SignInInv, PageInv, PageKinds
<1>8. VisitorInv'
  BY <1>1, <1>3 DEF IInv, VisitorInv
<1>9. ~crossed => \A q \in Realms : shown'[q] # "nobody" =>
                    toks[q] # NoToken /\ owner[toks[q]] = shown'[q]
  BY <1>1, <1>3 DEF IInv, ShownIsOwner
<1>10. SocketIsTheirs' /\ SocketInv'
  <2>1. who["staff"] \in Accounts /\ toks["staff"] \in Tokens
    BY <1>1
  <2>2. ~crossed /\ who["staff"] # "nobody" =>
          toks["staff"] # NoToken /\ owner[toks["staff"]] = who["staff"]
    BY <1>1, <1>3, <1>9
  <2>3. QED
    BY <1>3, <2>1, <2>2, WiredIs DEF IInv, ShownIsOwner, api
<1>11. ShownIsOwner'
  BY <1>9, <1>10 DEF ShownIsOwner, api
<1>12. QED
  BY <1>5, <1>6, <1>7, <1>8, <1>10, <1>11 DEF IInv

LEMMA SignedInInv ==
  ASSUME IInv, MeLoaded \/ ClientLoggedIn
  PROVE  IInv'
<1>1. call \in Calls /\ call.acct \in Accounts /\ call.token \in Tokens /\ token \in [Realms -> Tokens]
  BY DEF IInv, TypeOK, Calls, Accounts, Tokens
<1>2. CASE MeLoaded
  <2>1. /\ call.kind = "me" /\ call.realm = "staff" /\ call.stage = "ok"
        /\ Goes("office", [shown EXCEPT !["staff"] = call.acct], token) /\ call' = NoCall
        /\ UNCHANGED <<token, crossed, opens, api>>
    BY <1>2 DEF MeLoaded, IInv, SignInInv
  <2>2. ~crossed => probe["staff"] = NoCall /\ token["staff"] # NoToken /\ owner[token["staff"]] = call.acct
    BY <2>1 DEF IInv, SignInInv
  <2>3. QED
    BY <1>1, <2>1, <2>2, ArriveInv DEF Paths, Site, Realms
<1>3. CASE ClientLoggedIn
  <2> DEFINE toks == [token EXCEPT !["client"] = call.token]
  <2>1. /\ call.kind = "login" /\ call.realm = "client" /\ call.stage = "ok"
        /\ Goes("account", [shown EXCEPT !["client"] = call.acct], toks) /\ call' = NoCall
        /\ token' = toks /\ UNCHANGED <<crossed, opens, api>>
    BY <1>3 DEF ClientLoggedIn, Store
  <2>2. /\ toks \in [Realms -> Tokens] /\ toks["client"] = call.token
        /\ \A q \in Realms \ {"client"} : toks[q] = token[q]
    BY <1>1 DEF Realms
  <2> HIDE DEF toks
  <2>3. /\ call.acct # "nobody" /\ call.token # NoToken /\ owner[call.token] = call.acct
        /\ ~crossed => probe["client"] = NoCall
    BY <2>1 DEF IInv, SignInInv
  <2>4. QED
    BY <1>1, <2>1, <2>2, <2>3, ArriveInv DEF Paths, Site, Realms
<1>4. QED
  BY <1>2, <1>3

LEMMA LoggedOutInv ==
  ASSUME IInv, LoggedOut
  PROVE  IInv'
<1> DEFINE r == call.realm
           next == IF call.stage = "lost" THEN path ELSE IF r = "staff" THEN "staffLogin" ELSE "public"
           toks == Without(r)
<1>1. /\ call.kind = "logout" /\ token' = toks /\ call' = NoCall
      /\ Goes(next, [shown EXCEPT ![r] = "nobody"], toks) /\ UNCHANGED <<crossed, opens, api>>
  BY DEF LoggedOut, Store
<1>2. /\ r \in Realms /\ shown[r] # "nobody"
      /\ path \in IF r = "staff" THEN {"office"} ELSE {"account", "public"}
  BY <1>1 DEF IInv, PageInv, PageKinds, TypeOK, Calls
<1>3. /\ toks \in [Realms -> Tokens] /\ toks[r] = NoToken
      /\ \A q \in Realms \ {r} : toks[q] = token[q]
  <2>1. NoToken \in Tokens /\ token \in [Realms -> Tokens]
    BY BoundsAssumption DEF NoToken, Tokens, IInv, TypeOK
  <2>2. QED
    BY <1>2, <2>1 DEF Without
<1>4. next \in Paths /\ (r = "staff" => next \notin Site)
  BY <1>2 DEF Paths, Site, Realms
<1>5. ~crossed => probe[r] = NoCall
  BY <1>2 DEF IInv, ProbeInv
<1>6. "nobody" \in Accounts
  BY DEF Accounts
<1> HIDE DEF r, next, toks
<1>7. QED
  BY <1>1, <1>2, <1>3, <1>4, <1>5, <1>6, ArriveInv

LEMMA RejectedInv ==
  ASSUME IInv, Rejected
  PROVE  IInv'
<1> DEFINE r == call.realm
           toks == Without(r)
<1>1. /\ call.stage = "401" /\ Unauthenticated(r) /\ UNCHANGED <<opens, api>>
  BY DEF Rejected
<1>2. r \in Realms /\ call.kind \in PageKinds \union {"me"}
  BY <1>1 DEF IInv, PageInv, TypeOK, Calls
<1>3. /\ toks \in [Realms -> Tokens] /\ toks[r] = NoToken
      /\ \A q \in Realms \ {r} : toks[q] = token[q]
  <2>1. NoToken \in Tokens /\ token \in [Realms -> Tokens]
    BY BoundsAssumption DEF NoToken, Tokens, IInv, TypeOK
  <2>2. QED
    BY <1>2, <2>1 DEF Without
<1>4. CASE path # LoginPath(r)
  <2>1. Load(LoginPath(r), toks) /\ LoginPath(r) \in Paths /\ opens' \in 0..MaxOpens
    BY <1>1, <1>4 DEF Unauthenticated, LoginPath, Paths, IInv, TypeOK
  <2> HIDE DEF toks
  <2>2. QED
    BY <1>1, <1>3, <2>1, LoadInv
<1>5. CASE path = LoginPath(r)
  <2>1. call.kind = "me" /\ r = "staff"
    BY <1>2, <1>5 DEF IInv, PageInv, SignInInv, LoginPath
  <2>2. /\ token' = toks /\ call' = NoCall
        /\ UNCHANGED <<path, shown, loading, probe, socket, late, crossed, opens, owner, live, banned>>
    BY <1>1, <1>5 DEF Unauthenticated, Store, tab, api
  <2>3. ~crossed => shown["staff"] = "nobody" /\ probe["staff"] = NoCall
    BY <2>1 DEF IInv, SignInInv
  <2>4. NoCall \in Calls /\ NoCall.kind = "none" /\ NoCall.stage = "idle"
    BY CallTypes
  <2> HIDE DEF toks
  <2>5. TypeOK'
    BY <1>3, <2>2, <2>4 DEF IInv, TypeOK, Tokens, Issued
  <2>6. ProbeInv' /\ VisitorInv'
    BY <1>3, <2>1, <2>2, <2>3, <2>4 DEF IInv, ProbeInv, VisitorInv, Realms
  <2>7. SignInInv' /\ PageInv' /\ SocketInv'
    BY <2>2, <2>4 DEF IInv, SignInInv, PageInv, PageKinds, SocketInv
  <2>8. ShownIsOwner'
    BY <1>3, <2>1, <2>2, <2>3 DEF IInv, ShownIsOwner, SocketIsTheirs, Realms
  <2>9. QED
    BY <2>5, <2>6, <2>7, <2>8 DEF IInv
<1>6. QED
  BY <1>4, <1>5

\* A late failure drops the token of a session only by setting crossed.
LEMMA LateInv ==
  ASSUME IInv, NEW c \in late, LateAnswer(c)
  PROVE  IInv'
<1>1. c.realm \in Realms /\ late \subseteq Calls /\ UNCHANGED <<owner, banned, opens>>
  BY DEF LateAnswer, IInv, TypeOK, Calls
<1>2. NoToken \in Tokens /\ token \in [Realms -> Tokens]
  BY BoundsAssumption DEF NoToken, Tokens, IInv, TypeOK
<1>3. CASE /\ late' = late \ {c} /\ live' = live \ Deletes(c)
           /\ UNCHANGED <<token, path, shown, loading, probe, call, socket, crossed>>
  <2>1. TypeOK'
    BY <1>1, <1>3 DEF IInv, TypeOK, Issued
  <2>2. SignInInv' /\ PageInv'
    BY <1>1, <1>3 DEF IInv, SignInInv, PageInv
  <2>3. ProbeInv' /\ VisitorInv' /\ SocketInv' /\ ShownIsOwner'
    BY <1>1, <1>3, TabFrame DEF IInv, TypeOK
  <2>4. QED
    BY <2>1, <2>2, <2>3 DEF IInv
<1>4. CASE /\ DropLate(c.realm) /\ late' = late \ {c}
           /\ UNCHANGED <<path, shown, loading, probe, call, socket, live>>
  <2> DEFINE r == c.realm
  <2>1. /\ token' \in [Realms -> Tokens] /\ token'[r] = NoToken
        /\ \A q \in Realms \ {r} : token'[q] = token[q]
        /\ crossed' = (crossed \/ (token[r] # NoToken /\ Held(r)))
    BY <1>1, <1>2, <1>4 DEF DropLate, Without
  <2>2. r \in Realms
    BY <1>1
  <2> HIDE DEF r
  <2>3. TypeOK'
    BY <1>1, <1>4, <2>1 DEF IInv, TypeOK, Tokens, Issued
  <2>4. CASE crossed'
    <3>1. ProbeInv' /\ VisitorInv'
      BY <1>4, <2>4 DEF IInv, ProbeInv, VisitorInv
    <3>2. SignInInv' /\ PageInv'
      BY <1>1, <1>4, <2>4 DEF IInv, SignInInv, PageInv
    <3>3. SocketInv' /\ ShownIsOwner'
      BY <1>4, <2>4 DEF IInv, SocketInv, ShownIsOwner, SocketIsTheirs
    <3> QED BY <2>3, <3>1, <3>2, <3>3 DEF IInv
  <2>5. CASE ~crossed' /\ token[r] = NoToken
    <3>1. /\ crossed' = crossed
          /\ \A q \in Realms : token'[q] = token[q]
      BY <2>1, <2>2, <2>5 DEF IInv, TypeOK
    <3>2. token' = token
      <4>1. token' = [q \in Realms |-> token'[q]] /\ token = [q \in Realms |-> token[q]]
        BY <1>2, <2>1
      <4> QED BY <3>1, <4>1
    <3>3. ProbeInv' /\ VisitorInv' /\ SocketInv' /\ ShownIsOwner'
      BY <1>1, <1>4, <3>1, <3>2, TabFrame DEF IInv, TypeOK
    <3>4. SignInInv' /\ PageInv'
      BY <1>1, <1>4, <3>1, <3>2 DEF IInv, SignInInv, PageInv
    <3> QED BY <2>3, <3>3, <3>4 DEF IInv
  <2>6. CASE ~crossed' /\ ~Held(r)
    <3>1. /\ ~crossed /\ crossed' = crossed /\ shown[r] = "nobody" /\ probe[r] = NoCall
          /\ ~(call.realm = r /\ call.kind \in {"login", "me"})
          /\ NoCall.stage = "idle" /\ call.realm \in Realms
      BY <2>1, <2>6, CallTypes DEF Held, IInv, TypeOK, Calls
    <3>2. ProbeInv'
      BY <1>1, <1>4, <2>1, <3>1 DEF IInv, ProbeInv
    <3>3. SignInInv'
      BY <1>1, <1>4, <2>1, <3>1 DEF IInv, SignInInv, Realms
    <3>4. PageInv' /\ SocketInv'
      BY <1>4, <3>1 DEF IInv, PageInv, SocketInv
    <3>5. VisitorInv'
      BY <1>4, <2>1, <3>1 DEF IInv, VisitorInv, Realms
    <3>6. ShownIsOwner'
      BY <1>1, <1>4, <2>1, <3>1 DEF IInv, ShownIsOwner, SocketIsTheirs
    <3> QED BY <2>3, <3>2, <3>3, <3>4, <3>5, <3>6 DEF IInv
  <2> QED BY <2>1, <2>3, <2>4, <2>5, <2>6 DEF IInv
<1>5. CASE /\ c.token \in Issued /\ shown' = [shown EXCEPT !["client"] = owner[c.token]]
           /\ crossed' = (crossed \/ shown["client"] # owner[c.token]) /\ late' = late \ {c}
           /\ UNCHANGED <<token, path, loading, probe, call, socket, live>>
  <2>1. /\ owner[c.token] \in Accounts /\ owner[c.token] # "nobody"
        /\ shown \in [Realms -> Accounts] /\ crossed \in BOOLEAN /\ "client" \in Realms
    BY <1>5 DEF Issued, IInv, TypeOK, Accounts, Realms
  <2>2. /\ shown' \in [Realms -> Accounts] /\ shown'["client"] = owner[c.token]
        /\ \A q \in Realms \ {"client"} : shown'[q] = shown[q]
    BY <1>5, <2>1
  <2>3. crossed' \/ (~crossed /\ ~crossed' /\ shown' = shown)
    <3>1. CASE shown["client"] = owner[c.token]
      <4>1. \A q \in Realms : shown'[q] = shown[q]
        BY <2>2, <3>1
      <4>2. shown' = [q \in Realms |-> shown'[q]] /\ shown = [q \in Realms |-> shown[q]]
        BY <2>1, <2>2
      <4> QED BY <1>5, <4>1, <4>2
    <3> QED BY <1>5, <3>1
  <2>4. TypeOK'
    BY <1>1, <1>5, <2>1, <2>2 DEF IInv, TypeOK, Accounts, Issued
  <2>5. PageInv'
    BY <1>5, <2>1, <2>2 DEF IInv, PageInv, TypeOK, Calls
  <2>6. CASE crossed'
    <3>1. ProbeInv' /\ VisitorInv'
      BY <1>5, <2>6 DEF IInv, ProbeInv, VisitorInv
    <3>2. SignInInv'
      BY <1>1, <1>5, <2>6 DEF IInv, SignInInv
    <3>3. SocketInv' /\ ShownIsOwner'
      BY <1>5, <2>2, <2>6 DEF IInv, SocketInv, ShownIsOwner, SocketIsTheirs, Realms
    <3> QED BY <2>4, <2>5, <3>1, <3>2, <3>3 DEF IInv
  <2>7. CASE ~crossed /\ ~crossed' /\ shown' = shown
    <3>1. ProbeInv' /\ VisitorInv' /\ SocketInv' /\ ShownIsOwner'
      BY <1>1, <1>5, <2>7, TabFrame DEF IInv, TypeOK
    <3>2. SignInInv'
      BY <1>1, <1>5, <2>7 DEF IInv, SignInInv
    <3> QED BY <2>4, <2>5, <3>1, <3>2 DEF IInv
  <2> QED BY <2>3, <2>6, <2>7
<1>6. CASE Load(LoginPath(c.realm), Without(c.realm)) /\ UNCHANGED live
  <2>1. LoginPath(c.realm) \in Paths /\ Without(c.realm) \in [Realms -> Tokens]
    BY <1>1, <1>2 DEF LoginPath, Paths, Without
  <2>2. UNCHANGED api /\ opens' \in 0..MaxOpens
    BY <1>1, <1>6 DEF api, IInv, TypeOK
  <2> QED BY <1>6, <2>1, <2>2, LoadInv
<1> QED BY <1>3, <1>4, <1>5, <1>6 DEF LateAnswer

-----------------------------------------------------------------------------
(* The invariant.                                                          *)

LEMMA InitInv ==
  ASSUME Init
  PROVE  IInv
<1>1. PICK s \in Staff, c \in Clients :
        owner = [k \in 1..MaxTokens |-> IF k = 1 THEN s ELSE IF k = 2 THEN c ELSE "nobody"]
  <2>1. (CHOOSE a \in Staff : TRUE) \in Staff /\ (CHOOSE a \in Clients : TRUE) \in Clients
    BY AccountsAssumption
  <2>2. QED
    BY <2>1 DEF Init
<1>2. /\ live \in SUBSET Issued /\ banned = {} /\ token \in [Realms -> 0..2]
      /\ path = "public" /\ shown = [r \in Realms |-> "nobody"]
      /\ probe = [r \in Realms |-> Probe(r, token[r])]
      /\ loading = [r \in Realms |-> token[r] # NoToken]
      /\ call = NoCall /\ late = {} /\ socket = NoSocket /\ crossed = FALSE /\ opens = 0
  BY DEF Init
<1>3. token \in [Realms -> Tokens]
  BY <1>2, BoundsAssumption DEF Tokens
<1>4. owner \in [1..MaxTokens -> Accounts]
  BY <1>1 DEF Accounts, Users
<1>5. \A r \in Realms : /\ token[r] \in Tokens /\ Probe(r, token[r]) \in Calls
                        /\ token[r] = NoToken => Probe(r, token[r]) = NoCall
                        /\ token[r] # NoToken => /\ Probe(r, token[r]) # NoCall
                                                 /\ Probe(r, token[r]).stage = "sent"
                                                 /\ Probe(r, token[r]).token = token[r]
  BY <1>3, CallTypes
<1>6. NoCall \in Calls /\ NoCall.kind = "none" /\ NoCall.stage = "idle"
  BY CallTypes
<1>7. NoSocket \in [user : Accounts, token : Tokens]
  BY BoundsAssumption DEF NoSocket, NoToken, Accounts, Tokens
<1>8. TypeOK
  <2>1. probe \in [Realms -> Calls] /\ loading \in [Realms -> BOOLEAN]
    BY <1>2, <1>5
  <2>2. shown \in [Realms -> Accounts] /\ path \in Paths /\ opens \in 0..MaxOpens
    BY <1>2, BoundsAssumption DEF Accounts, Paths
  <2>3. live \subseteq Issued /\ banned \subseteq Users /\ crossed \in BOOLEAN
    BY <1>2
  <2>4. QED
    BY <1>2, <1>3, <1>4, <1>6, <1>7, <2>1, <2>2, <2>3 DEF TypeOK, Accounts, Tokens
<1>9. ProbeInv
  BY <1>2, <1>5, <1>6 DEF ProbeInv
<1>10. SignInInv /\ PageInv
  BY <1>2, <1>6 DEF SignInInv, PageInv, PageKinds
<1>11. VisitorInv
  BY <1>2 DEF VisitorInv, Realms
<1>12. SocketInv /\ ShownIsOwner
  BY <1>2 DEF SocketInv, ShownIsOwner, SocketIsTheirs
<1>13. QED
  BY <1>8, <1>9, <1>10, <1>11, <1>12 DEF IInv

LEMMA NextInv ==
  ASSUME IInv, [Next]_vars
  PROVE  IInv'
<1>1. CASE \E p \in Paths : Open(p)
  <2>1. PICK p \in Paths : Open(p)
    BY <1>1
  <2>2. opens' \in 0..MaxOpens /\ Load(p, token) /\ UNCHANGED api
    BY <2>1, BoundsAssumption DEF Open, IInv, TypeOK
  <2>3. token \in [Realms -> Tokens]
    BY DEF IInv, TypeOK, Tokens
  <2>4. QED
    BY <2>2, <2>3, LoadInv
<1>2. CASE (\E a \in Staff : SubmitLogin(a)) \/ \E a \in Clients : SubmitClientLogin(a) \/ SubmitRegister(a)
  BY <1>2, SubmitInv DEF SubmitLogin, SubmitClientLogin, SubmitRegister, Users, Realms
<1>3. CASE PageCall \/ SaveProfile \/ ChangePassword \/ StaffLogout \/ ClientLogout
  BY <1>3, AskInv
<1>4. CASE (\E p \in Paths : Follow(p)) \/ OfficeGuard \/ AccountGuard
           \/ (\E r \in Realms : SignedInAlready(r))
  BY <1>4, MoveInv
<1>5. CASE Issue \/ Handle \/ Lose \/ Returned \/ MoveOn
  BY <1>5, IssueInv, HandleInv, LoseInv, MoveOnInv
<1>6. CASE LoggedIn \/ MeLoaded \/ ClientLoggedIn \/ LoggedOut \/ Rejected
  BY <1>6, LoggedInInv, SignedInInv, LoggedOutInv, RejectedInv
<1>7. CASE \E r \in Realms : HandleProbe(r) \/ LoseProbe(r)
  BY <1>7, ProbeAnswerInv
<1>8. CASE \E r \in Realms : Probed(r)
  BY <1>8, KeepProbeInv, DropProbeInv DEF Probed
<1>9. CASE (\E r \in Realms : OtherTab(r)) \/ \E a \in Staff : Suspend(a)
  BY <1>9, OtherTabInv, SuspendInv
<1>10. CASE \E c \in late : LateAnswer(c)
  BY <1>10, LateInv
<1>11. CASE UNCHANGED vars
  BY <1>11 DEF vars, IInv, TypeOK, ProbeInv, SignInInv, PageInv, VisitorInv, SocketInv,
               ShownIsOwner, SocketIsTheirs, Issued
<1>12. QED
  BY <1>1, <1>2, <1>3, <1>4, <1>5, <1>6, <1>7, <1>8, <1>9, <1>10, <1>11 DEF Next, Settle, Press

\* The inductive invariant holds in every behaviour.
THEOREM SessionInvariance == Spec => []IInv
<1>1. Init => IInv
  BY InitInv
<1>2. IInv /\ [Next]_vars => IInv'
  BY NextInv
<1>3. QED
  BY <1>1, <1>2, PTL DEF Spec

\* Every variable keeps its type.
THEOREM SessionTypeCorrect == Spec => []TypeOK
<1>1. IInv => TypeOK
  BY DEF IInv
<1>2. QED
  BY <1>1, SessionInvariance, PTL

\* The tab shows the account whose token it sends, and its socket is that account's,
\* unless another tab, the user's haste or a request nobody waited for any more crossed it.
THEOREM NobodyElseShown == Spec => []ShownIsOwner
<1>1. IInv => ShownIsOwner
  BY DEF IInv
<1>2. QED
  BY <1>1, SessionInvariance, PTL

\* What RealmsApart says of one step.
Apart ==
  /\ \A r \in Realms : token'[r] # token[r] =>
       \/ call.realm = r /\ call' # call
       \/ probe[r].stage \in {"401", "lost"} /\ probe'[r] # probe[r]
       \/ \E c \in late \ late' : c.realm = r
       \/ UNCHANGED tab
  /\ path' = "staffLogin" /\ path \in Site =>
       \/ token' = token
       \/ call.realm = "staff" /\ call # NoCall
       \/ \E c \in late : c.realm = "staff"

LEMMA StepsApart ==
  ASSUME IInv, Next
  PROVE  Apart
<1>1. NoCall.kind = "none" /\ NoCall.stage = "idle"
  BY CallTypes
<1>2. token \in [Realms -> Tokens] /\ probe \in [Realms -> Calls] /\ call \in Calls
  BY DEF IInv, TypeOK, Tokens
<1>3. CASE token' = token
  BY <1>3 DEF Apart
<1>4. CASE \E r \in Realms : OtherTab(r)
  BY <1>4 DEF OtherTab, Apart, tab, Site
<1>5. CASE \E r \in Realms : Probed(r)
  <2>1. PICK r \in Realms : Probed(r)
    BY <1>5
  <2>2. CASE KeepProbe(r)
    BY <1>3, <2>2 DEF KeepProbe
  <2>3. CASE probe[r].stage \in {"401", "lost"} /\ DropProbe(r)
    <3>1. /\ probe'[r] # probe[r] /\ \A q \in Realms \ {r} : token'[q] = token[q]
          /\ path' = path
      BY <1>1, <1>2, <2>3 DEF DropProbe, Store, Without
    <3>2. QED
      BY <2>3, <3>1 DEF Apart, Site
  <2>4. QED
    BY <2>1, <2>2, <2>3 DEF Probed
<1>6. CASE LoggedIn
  <2>1. /\ call.realm = "staff" /\ call.kind = "login" /\ path' = path
        /\ token' = [token EXCEPT !["staff"] = call.token]
        /\ call' = Request("me", "staff", call.token, "nobody")
    BY <1>6 DEF LoggedIn, Store, tab
  <2>2. call' # call
    BY <2>1 DEF Request
  <2>3. \A q \in Realms \ {"staff"} : token'[q] = token[q]
    BY <1>2, <2>1
  <2>4. QED
    BY <2>1, <2>2, <2>3 DEF Apart, Site
<1>7. CASE ClientLoggedIn
  <2>1. /\ call.realm = "client" /\ call.kind = "login" /\ path' = "account" /\ call' = NoCall
        /\ token' = [token EXCEPT !["client"] = call.token]
    BY <1>7 DEF ClientLoggedIn, Store, Goes
  <2>2. \A q \in Realms \ {"client"} : token'[q] = token[q]
    BY <1>2, <2>1
  <2>3. QED
    BY <1>1, <2>1, <2>2 DEF Apart, Site
<1>8. CASE LoggedOut
  <2>1. /\ call.kind = "logout" /\ token' = Without(call.realm) /\ call' = NoCall
        /\ path' = IF call.stage = "lost" THEN path ELSE IF call.realm = "staff" THEN "staffLogin" ELSE "public"
    BY <1>8 DEF LoggedOut, Store, Goes
  <2>2. \A q \in Realms \ {call.realm} : token'[q] = token[q]
    BY <1>2, <2>1 DEF Without
  <2>3. QED
    BY <1>1, <2>1, <2>2 DEF Apart, Site
<1>9. CASE Rejected
  <2>1. /\ call.stage = "401" /\ token' = Without(call.realm) /\ call' = NoCall
        /\ path' = path \/ path' = LoginPath(call.realm)
    BY <1>9 DEF Rejected, Unauthenticated, Store, Load, tab
  <2>2. \A q \in Realms \ {call.realm} : token'[q] = token[q]
    BY <1>2, <2>1 DEF Without
  <2>3. QED
    BY <1>1, <1>2, <2>1, <2>2 DEF Apart, Site, LoginPath
<1>10. CASE \E c \in late : LateAnswer(c)
  <2>1. PICK c \in late : LateAnswer(c)
    BY <1>10
  <2>2. CASE token' # token
    <3>1. c \in late \ late' /\ token' = Without(c.realm)
      BY <2>1, <2>2 DEF LateAnswer, DropLate, Load
    <3>2. \A q \in Realms \ {c.realm} : token'[q] = token[q]
      BY <1>2, <3>1 DEF Without
    <3>3. path' = "staffLogin" /\ path \in Site => c.realm = "staff"
      BY <2>1, <2>2 DEF LateAnswer, Load, LoginPath, Site
    <3> QED BY <3>1, <3>2, <3>3 DEF Apart
  <2> QED BY <1>3, <2>2
<1>11. QED
  BY <1>3, <1>4, <1>5, <1>6, <1>7, <1>8, <1>9, <1>10
  DEF Next, Settle, Press, OfficeGuard, AccountGuard, Enter, Issue, Handle, MeLoaded, Returned,
      SignedInAlready, HandleProbe, Open, Load, Follow, SubmitLogin, SubmitClientLogin,
      SubmitRegister, Submit, Send, PageCall, ChangePassword, SaveProfile, StaffLogout,
      ClientLogout, MoveOn, Lose, LoseProbe, Suspend

\* The two sessions of a browser do not touch each other's token or send each other off.
THEOREM SessionsApart == Spec => RealmsApart
<1>1. IInv /\ [Next]_vars => [Apart]_vars
  BY StepsApart
<1>2. QED
  BY <1>1, SessionInvariance, PTL DEF Spec, RealmsApart, Apart

-----------------------------------------------------------------------------
(* The live screens.                                                       *)

\* What the user of a page can ask for.
ManagersOps    == {"publish", "cancel", "withdraw", "delete", "open", "revise", "approve",
                   "retry", "archive"}
TranslatorsOps == {"claim", "deliver", "amend"}
UsersOps       == IF page = "portal" THEN TranslatorsOps ELSE ManagersOps

\* The rows the handlers leave, as far as the pages tell them apart.
RowSound(r) ==
  /\ r.asg = "active" => r.status \in {"claimed", "cancelled"}
  /\ r.status \in {"draft", "available"} => ~r.mine

\* An entry that is not flagged, and an answer on its way, say v.
Says(e, v) ==
  /\ e.fetch = "answered" => e.reply = {v}
  /\ e.fetch = "idle" /\ ~e.invalid /\ e.data # {} => e.data = {v}

Unused(e) == e.data = {} /\ e.fetch = "idle"

HandsSound == {request.op, dialog} \subseteq UsersOps \union {"none"}

CacheSound ==
  /\ DOMAIN cache = Queries
  /\ \A q \in Queries \ Kept : Unused(cache[q])
  /\ \A q \in Kept \ (Expected \union missed) : Says(cache[q], View(q, srv))
  /\ deleted => Unused(cache["project"])

ScreensInv == ScreensTypeOK /\ RowSound(srv) /\ HandsSound /\ CacheSound
-----------------------------------------------------------------------------
(* Cached queries.                                                         *)

LEMMA EntryIs ==
  ASSUME NEW A, NEW e \in Entry(A)
  PROVE  /\ e = [data |-> e.data, invalid |-> e.invalid, fetch |-> e.fetch, reply |-> e.reply]
         /\ e.data \subseteq A /\ e.reply \subseteq A /\ e.invalid \in BOOLEAN
         /\ e.fetch \in {"idle", "asked", "answered"}
BY DEF Entry, Fetches

\* What is asked for, flagged or fetched in vain says nothing it should not.
LEMMA AskedIs ==
  ASSUME NEW A, NEW e \in Entry(A), NEW v
  PROVE  Asked(e) \in Entry(A) /\ Says(Asked(e), v)
BY DEF Asked, Entry, Fetches, Says

LEMMA FailedIs ==
  ASSUME NEW A, NEW e \in Entry(A), NEW v
  PROVE  Failed(e) \in Entry(A) /\ Says(Failed(e), v)
BY DEF Failed, Entry, Fetches, Says

LEMMA AnsweredIs ==
  ASSUME NEW A, NEW e \in Entry(A), NEW v \in A
  PROVE  Answered(e, v) \in Entry(A) /\ Says(Answered(e, v), v)
BY DEF Answered, Entry, Fetches, Says

\* What is shown once an answer is in is that answer.
LEMMA LandedIs ==
  ASSUME NEW A, NEW e \in Entry(A), NEW v, e.fetch = "answered"
  PROVE  Landed(e) \in Entry(A) /\ (Says(e, v) => Says(Landed(e), v))
BY DEF Landed, Entry, Fetches, Says

LEMMA AbsentIs ==
  ASSUME NEW A, NEW v
  PROVE  Absent \in Entry(A) /\ Says(Absent, v) /\ Unused(Absent)
BY DEF Absent, Entry, Fetches, Says, Unused

LEMMA MountedIs ==
  ASSUME NEW A, NEW e \in Entry(A), NEW v, NEW young
  PROVE  Mounted(e, young) \in Entry(A) /\ (Says(e, v) => Says(Mounted(e, young), v))
BY AskedIs DEF Mounted

\* An invalidation is followed by another request, or leaves a flagged entry; unless
\* an older answer is on its way.
LEMMA InvalidatedIs ==
  ASSUME NEW A, NEW e \in Entry(A), NEW active, NEW v
  PROVE  /\ Invalidated(e, active) \in Entry(A)
         /\ ~Forgotten(e, active) => Says(Invalidated(e, active), v)
         /\ Unused(e) /\ ~active => Unused(Invalidated(e, active))
<1>1. PICK m : m = [e EXCEPT !.invalid = TRUE]
  OBVIOUS
<1>5. m \in Entry(A) /\ m.invalid = TRUE /\ m.fetch = e.fetch /\ m.data = e.data
  BY <1>1 DEF Entry
<1>2. Invalidated(e, active) =
        IF active /\ (e.data # {} \/ e.fetch = "idle") THEN Asked(m) ELSE m
  BY <1>1, Zenon DEF Invalidated
<1>3. CASE active /\ (e.data # {} \/ e.fetch = "idle")
  BY <1>2, <1>3, <1>5, AskedIs DEF Forgotten, Unused
<1>4. CASE ~(active /\ (e.data # {} \/ e.fetch = "idle"))
  <2>1. Invalidated(e, active) = m
    BY <1>2, <1>4
  <2>2. ~Forgotten(e, active) => m.fetch # "answered"
    BY <2>1 DEF Forgotten
  <2> QED BY <1>5, <2>1, <2>2 DEF Says, Unused
<1> QED BY <1>3, <1>4

LEMMA PatchedIs ==
  ASSUME NEW A, NEW e \in Entry(A), NEW a \in A
  PROVE  Patched(e, a) \in Entry(A) /\ (Unused(e) => Patched(e, a) = e)
<1>1. Patched(e, a) \in {e, [data |-> {a}, invalid |-> FALSE, fetch |-> e.fetch, reply |-> e.reply]}
  BY DEF Patched, Entry
<1>2. {a} \subseteq A /\ FALSE \in BOOLEAN
  OBVIOUS
<1>3. [data |-> {a}, invalid |-> FALSE, fetch |-> e.fetch, reply |-> e.reply] \in Entry(A)
  BY <1>2 DEF Entry
<1>4. Unused(e) => Patched(e, a) = e
  BY DEF Patched, Unused
<1> QED BY <1>1, <1>3, <1>4

-----------------------------------------------------------------------------
(* The project's rows.                                                     *)

\* The matrix, as the pages rely on it.
LEMMA MatrixIs ==
  ASSUME NEW from, NEW to, NEW actor, NEW noted \in BOOLEAN,
         Permitted(from, to, actor, noted)
  PROVE  /\ to \in Statuses /\ from # "gone"
         /\ to = "available" => from = "draft" \/ (from = "claimed" /\ noted)
         /\ to = "claimed" => from = "available"
         /\ to = "delivered" => from \in {"claimed", "revision_requested"}
         /\ to = "in_review" => from = "delivered"
         /\ to \in {"revision_requested", "approved"} => from = "in_review"
         /\ to = "completed" => from = "approved"
         /\ to = "archived" => from = "completed"
         /\ to = "cancelled" => from \in {"draft", "available", "claimed", "delivered"}
<1>1. PICK r \in Matrix : r.from = from /\ r.to = to /\ (r.note => noted)
  BY DEF Permitted
<1>2. /\ <<r.from, r.to>> \in
           {<<"draft", "available">>, <<"available", "claimed">>, <<"claimed", "delivered">>,
            <<"claimed", "available">>, <<"delivered", "in_review">>,
            <<"in_review", "revision_requested">>, <<"revision_requested", "delivered">>,
            <<"in_review", "approved">>, <<"approved", "completed">>,
            <<"completed", "archived">>, <<"draft", "cancelled">>,
            <<"available", "cancelled">>, <<"claimed", "cancelled">>,
            <<"delivered", "cancelled">>}
      /\ r.from = "claimed" /\ r.to = "available" => r.note = TRUE
  BY <1>1 DEF Matrix, Rules, Rule
<1> QED BY <1>1, <1>2 DEF Statuses

\* What a request asks of the state machine.
LEMMA AcceptedIs ==
  ASSUME NEW op \in Ops, NEW actor, NEW r, Accepts(op, actor, r)
  PROVE  /\ r.status # "gone"
         /\ op = "publish"  => Permitted(r.status, "available", actor, FALSE)
         /\ op = "withdraw" => Permitted(r.status, "available", actor, TRUE)
         /\ op = "cancel"   => Permitted(r.status, "cancelled", actor, TRUE)
         /\ op = "claim"    => Permitted(r.status, "claimed", actor, FALSE)
         /\ op = "deliver"  => Permitted(r.status, "delivered", actor, FALSE)
         /\ op = "open"     => Permitted(r.status, "in_review", actor, FALSE)
         /\ op = "revise"   => Permitted(r.status, "revision_requested", actor, TRUE)
         /\ op = "approve"  => Permitted(r.status, "approved", actor, FALSE)
         /\ op = "complete" => Permitted(r.status, "completed", actor, FALSE)
         /\ op = "archive"  => Permitted(r.status, "archived", actor, FALSE)
         /\ op \in {"retry", "fail"} => r.status = "approved"
         /\ op = "amend"    => r.status = "delivered"
         /\ op = "delete"   => r.asg = "none"
<1>1. r.status # "gone"
  BY DEF Accepts
<1>2. op \notin {"delete", "retry", "fail", "amend"} =>
        Permitted(r.status, Target(op), actor, op \in Noted)
  BY DEF Accepts
<1>3. /\ op \in {"retry", "fail"} => r.status = "approved"
      /\ op = "amend"    => r.status = "delivered"
      /\ op = "delete"   => r.asg = "none"
  BY DEF Accepts
<1>4. /\ Target("publish") = "available" /\ Target("withdraw") = "available"
      /\ Target("cancel") = "cancelled" /\ Target("claim") = "claimed"
      /\ Target("deliver") = "delivered" /\ Target("open") = "in_review"
      /\ Target("revise") = "revision_requested" /\ Target("approve") = "approved"
      /\ Target("complete") = "completed" /\ Target("archive") = "archived"
  BY DEF Target
<1>5. /\ "withdraw" \in Noted /\ "cancel" \in Noted /\ "revise" \in Noted
      /\ \A o \in {"publish", "claim", "deliver", "open", "approve", "complete", "archive"} :
           (o \in Noted) = FALSE
  BY DEF Noted
<1> QED BY <1>1, <1>2, <1>3, <1>4, <1>5
\* The rows a request leaves.
LEMMA ResultIs ==
  ASSUME NEW op \in Ops, NEW actor, NEW r \in RowType, RowSound(r), NEW mine \in BOOLEAN,
         Accepts(op, actor, r)
  PROVE  Result(op, r, mine) \in RowType /\ RowSound(Result(op, r, mine))
<1> DEFINE s == Result(op, r, mine)
<1>1. /\ r = [status |-> r.status, asg |-> r.asg, mine |-> r.mine, failed |-> r.failed]
      /\ r.status \in Statuses \union {"gone"} /\ r.asg \in Asgs /\ r.mine \in BOOLEAN
      /\ r.failed \in BOOLEAN
  BY DEF RowType
<1>2. CASE op = "delete"
  <2>1. s = Gone
    BY <1>2 DEF Result
  <2> QED BY <2>1 DEF Gone, RowType, RowSound, Asgs
<1>3. CASE op \in {"retry", "fail"}
  <2>1. \E b \in BOOLEAN : s = [r EXCEPT !.failed = b]
    BY <1>3 DEF Result
  <2> QED BY <1>1, <2>1 DEF RowType, RowSound
<1>4. CASE op = "amend"
  <2>1. s = r
    BY <1>4 DEF Result
  <2> QED BY <2>1
<1>5. CASE op = "claim"
  <2>1. s = [status |-> "claimed", asg |-> "active", mine |-> mine, failed |-> FALSE]
    BY <1>5 DEF Result, Row
  <2> QED BY <2>1 DEF RowType, RowSound, Asgs, Statuses
<1>6. CASE op = "withdraw"
  <2>1. s = [status |-> "available", asg |-> "withdrawn", mine |-> FALSE, failed |-> FALSE]
    BY <1>6 DEF Result, Row
  <2> QED BY <2>1 DEF RowType, RowSound, Asgs, Statuses
<1>7. CASE op = "deliver"
  <2>1. s = [r EXCEPT !.status = "delivered", !.asg = "delivered"]
    BY <1>7 DEF Result
  <2>2. s = [status |-> "delivered", asg |-> "delivered", mine |-> r.mine, failed |-> r.failed]
    BY <1>1, <2>1
  <2> QED BY <1>1, <2>2 DEF RowType, RowSound, Asgs, Statuses
<1>8. CASE op \in {"publish", "cancel", "open", "revise", "approve", "complete", "archive"}
  <2>1. s = [r EXCEPT !.status = Target(op), !.failed = FALSE]
    BY <1>8 DEF Result
  <2>2. s = [status |-> Target(op), asg |-> r.asg, mine |-> r.mine, failed |-> FALSE]
    BY <1>1, <2>1
  <2>3. /\ Target("publish") = "available" /\ Target("cancel") = "cancelled"
        /\ Target("open") = "in_review" /\ Target("revise") = "revision_requested"
        /\ Target("approve") = "approved" /\ Target("complete") = "completed"
        /\ Target("archive") = "archived"
    BY DEF Target
  <2>4. Target(op) \in Statuses
    BY <1>8, <2>3 DEF Statuses
  <2>5. op = "publish" => r.status = "draft"
    <3>1. op = "publish" => Permitted(r.status, "available", actor, FALSE)
      BY AcceptedIs
    <3> QED BY <3>1, MatrixIs
  <2>6. op \in {"open", "revise", "approve", "complete", "archive"} =>
          r.status \notin {"claimed", "cancelled"}
    <3>1. CASE op = "open"
      <4>1. Permitted(r.status, "in_review", actor, FALSE)
        BY <3>1, AcceptedIs
      <4> QED BY <4>1, MatrixIs
    <3>2. CASE op \in {"revise", "approve"}
      <4>1. \E n \in BOOLEAN, to \in {"revision_requested", "approved"} :
              Permitted(r.status, to, actor, n)
        BY <3>2, AcceptedIs
      <4> QED BY <4>1, MatrixIs
    <3>3. CASE op = "complete"
      <4>1. Permitted(r.status, "completed", actor, FALSE)
        BY <3>3, AcceptedIs
      <4> QED BY <4>1, MatrixIs
    <3>4. CASE op = "archive"
      <4>1. Permitted(r.status, "archived", actor, FALSE)
        BY <3>4, AcceptedIs
      <4> QED BY <4>1, MatrixIs
    <3> QED BY <3>1, <3>2, <3>3, <3>4
  <2>7. RowSound(s)
    BY <1>8, <2>2, <2>3, <2>5, <2>6 DEF RowSound
  <2> QED BY <1>1, <2>2, <2>4, <2>7 DEF RowType
<1> QED BY <1>2, <1>3, <1>4, <1>5, <1>6, <1>7, <1>8 DEF Ops

LEMMA ViewIs ==
  ASSUME NEW r \in RowType
  PROVE  \A q \in Queries : View(q, r) \in Views(q)
<1>1. View("project", r) = ProjectView(r) /\ View("projects", r) = r.status
  BY DEF View, BoardView
<1>2. View("queue", r) = (r.status = "available") /\ View("mine", r) = MineView(r)
  BY DEF View, QueueView
<1>3. /\ Views("project") = RowType /\ Views("projects") = Statuses \union {"gone"}
      /\ Views("queue") = BOOLEAN /\ Views("mine") = {"current", "delivery", "nothing"}
  BY DEF Views
<1>4. ProjectView(r) \in RowType /\ r.status \in Statuses \union {"gone"}
  BY DEF ProjectView, RowType
<1>5. MineView(r) \in {"current", "delivery", "nothing"}
  BY DEF MineView
<1>6. View("queue", r) \in BOOLEAN
  BY <1>2
<1> QED BY <1>1, <1>2, <1>3, <1>4, <1>5, <1>6 DEF Queries

\* What each broadcast renews.
LEMMA RefreshesIs ==
  /\ Refreshes("portal") = {"queue", "mine"} /\ Refreshes("claimed") = {"queue"}
  /\ Refreshes("delivered") = {"project", "projects"}
  /\ \A S, T : Covered(S \union T) = Covered(S) \union Covered(T)
  /\ \A k : Covered({k}) = Refreshes(k)
  /\ Covered({}) = {}
<1>1. /\ Refreshes("portal") = {"queue", "mine"} /\ Refreshes("claimed") = {"queue"}
      /\ Refreshes("delivered") = {"project", "projects"}
  BY DEF Refreshes
<1>2. \A S : Covered(S) = UNION {Refreshes(k) : k \in S}
  BY DEF Covered
<1>3. \A S, T : Covered(S \union T) = Covered(S) \union Covered(T)
  BY <1>2
<1>4. \A k : Covered({k}) = Refreshes(k)
  BY <1>2
<1>5. Covered({}) = {}
  BY <1>2
<1> QED BY <1>1, <1>3, <1>4, <1>5

LEMMA PagesAre ==
  ASSUME ScreensTypeOK
  PROVE
  /\ page = "portal" => Kept = {"queue", "mine"}
  /\ page # "portal" => Kept = {"project", "projects"}
  /\ Kept \subseteq Queries
  /\ \A q \in Queries : Active(q) => q \in Kept
<1>1. /\ Reads("portal") = {"queue", "mine"} /\ Reads("project") = {"project"}
      /\ Reads("board") = {"projects"}
  BY DEF Reads
<1>2. page \in {"board", "project", "portal"}
  BY DEF ScreensTypeOK
<1>3. \A q \in Queries : Active(q) => q \in Reads(page)
  BY DEF Active
<1> QED BY <1>1, <1>2, <1>3 DEF Kept, Queries

\* An announced change is announced to every query it shows in.
LEMMA AnnouncedIs ==
  ASSUME ScreensTypeOK, NEW op \in Ops, NEW actor, NEW r \in RowType, RowSound(r), Accepts(op, actor, r),
         Announces(op, r) # {}
  PROVE  Changed(r, Result(op, r, FALSE)) \subseteq Covered(Announces(op, r))
<1>1. Changed(r, Result(op, r, FALSE)) \subseteq Kept
  BY DEF Changed
<1>2. CASE page # "portal"
  <2>1. Announces(op, r) = {"delivered"}
    BY <1>2 DEF Announces
  <2> QED BY <1>1, <1>2, <2>1, PagesAre, RefreshesIs
<1>3. CASE page = "portal" /\ op # "claim"
  <2>1. Announces(op, r) = {"portal"}
    BY <1>3 DEF Announces
  <2> QED BY <1>1, <1>3, <2>1, PagesAre, RefreshesIs
<1>4. CASE page = "portal" /\ op = "claim"
  <2>1. Announces(op, r) = {"claimed"}
    BY <1>4 DEF Announces
  <2> DEFINE s == Result(op, r, FALSE)
  <2>2. s = [status |-> "claimed", asg |-> "active", mine |-> FALSE, failed |-> FALSE]
    BY <1>4 DEF Result, Row
  <2>3. ~r.mine
    <3>1. Permitted(r.status, "claimed", actor, FALSE)
      BY <1>4, AcceptedIs
    <3> QED BY <3>1, MatrixIs DEF RowSound
  <2>4. MineView(r) = "nothing" /\ MineView(s) = "nothing"
    <3> HIDE DEF s
    <3>1. s.mine = FALSE
      BY <2>2
    <3>2. ~HasWork(r) /\ ~HasWork(s)
      BY <2>3, <3>1, Zenon DEF HasWork
    <3> QED BY <2>3, <3>1, <3>2, Zenon DEF MineView
  <2>5. View("mine", r) = View("mine", s)
    BY <2>4 DEF View
  <2>6. Changed(r, s) \subseteq {"queue"}
    BY <1>4, <2>5, PagesAre DEF Changed
  <2> QED BY <2>1, <2>6, RefreshesIs
<1> QED BY <1>2, <1>3, <1>4
-----------------------------------------------------------------------------
(* What each request renews, and what each page offers.                    *)

LEMMA RenewedIs ==
  /\ \A op \in TranslatorsOps : OnSuccess(op) = {"queue", "mine"}
  /\ \A op \in {"claim", "amend"} : OnError(op) = {"queue", "mine"}
  /\ OnError("deliver") = {}
  /\ \A op \in ManagersOps \ {"delete"} : OnSuccess(op) = {"project", "projects"}
  /\ OnSuccess("delete") = {"projects"}
  /\ \A op \in ManagersOps : OnError(op) = {}
  /\ \A op \in Ops \union {"none"} : OnSuccess(op) \subseteq Queries /\ OnError(op) \subseteq Queries
<1>1. \A op \in TranslatorsOps : OnSuccess(op) = {"queue", "mine"}
  BY DEF OnSuccess, TranslatorsOps
<1>2. \A op \in {"claim", "amend"} : OnError(op) = {"queue", "mine"}
  BY <1>1 DEF OnError, TranslatorsOps
<1>3. \A op : op \notin {"claim", "amend"} => OnError(op) = {}
  BY DEF OnError
<1>4. OnSuccess("delete") = {"projects"}
  BY DEF OnSuccess
<1>5. \A op : op \notin TranslatorsOps \union {"delete"} => OnSuccess(op) = {"project", "projects"}
  BY DEF OnSuccess, TranslatorsOps
<1>6. ManagersOps \intersect TranslatorsOps = {} /\ "deliver" \notin {"claim", "amend"}
  BY DEF ManagersOps, TranslatorsOps
<1>7. \A op : /\ OnSuccess(op) \in {{"queue", "mine"}, {"projects"}, {"project", "projects"}}
              /\ OnError(op) \in {{}, {"queue", "mine"}}
  BY <1>1, <1>2, <1>3, <1>4, <1>5
<1>8. \A op \in ManagersOps : OnError(op) = {}
  BY <1>3, <1>6 DEF TranslatorsOps
<1> QED BY <1>1, <1>2, <1>3, <1>4, <1>5, <1>6, <1>7, <1>8 DEF Queries

LEMMA OffersAre ==
  ASSUME ScreensTypeOK
  PROVE  Offers \subseteq UsersOps /\ UsersOps \subseteq Ops
<1>1. UsersOps \subseteq Ops
  BY DEF UsersOps, TranslatorsOps, ManagersOps, Ops
<1>2. CASE page = "portal"
  <2>1. Offers = QueueOffers \union CurrentOffers \union DeliveryOffers
    BY <1>2 DEF Offers
  <2> QED BY <1>1, <1>2, <2>1
          DEF UsersOps, TranslatorsOps, QueueOffers, CurrentOffers, DeliveryOffers
<1>3. CASE page = "project"
  <2>1. Offers = UNION {ProjectOffers(r) \union FailureOffers(r) : r \in cache["project"].data}
    BY <1>3 DEF Offers
  <2>2. \A r : ProjectOffers(r) \subseteq ManagersOps /\ FailureOffers(r) \subseteq ManagersOps
    BY DEF ProjectOffers, FailureOffers, ManagersOps
  <2> QED BY <1>1, <1>3, <2>1, <2>2 DEF UsersOps
<1>4. CASE page \notin {"portal", "project"}
  <2>1. Offers = {}
    BY <1>4 DEF Offers
  <2> QED BY <1>1, <2>1
<1> QED BY <1>2, <1>3, <1>4

-----------------------------------------------------------------------------
(* The four ways a step can touch what the pages show.                     *)

LEMMA ViewStays ==
  ASSUME srv' = srv
  PROVE  \A q \in Queries : View(q, srv)' = View(q, srv)
BY DEF View, ProjectView, BoardView, QueueView, MineView, HasWork

LEMMA KeptStays ==
  ASSUME UNCHANGED page
  PROVE  Kept' = Kept /\ UsersOps' = UsersOps /\ \A q \in Queries : Reads(page)' = Reads(page)
BY DEF Kept, Reads, UsersOps

\* Nothing new is shown, and nothing that was to come is forgotten.
LEMMA QuietInv ==
  ASSUME CacheSound, UNCHANGED <<page, srv, cache, deleted, missed>>, Expected \subseteq Expected'
  PROVE  CacheSound'
<1>1. Kept' = Kept
  BY KeptStays
<1>2. \A q \in Queries : View(q, srv)' = View(q, srv)
  BY ViewStays
<1>3. \A q \in Kept \ (Expected \union missed) : Says(cache[q], View(q, srv))
  BY DEF CacheSound
<1>4. Kept \subseteq Queries
  BY DEF Kept, Reads, Queries
<1>5. (\A q \in Kept \ (Expected \union missed) : Says(cache[q], View(q, srv)))'
  BY <1>1, <1>2, <1>3, <1>4 DEF Says
<1> QED BY <1>1, <1>5 DEF CacheSound, Unused

\* The project changes: whatever shows the change is to be told of it, or cannot be.
LEMMA ChangeInv ==
  ASSUME CacheSound, UNCHANGED <<page, cache, deleted>>, missed \subseteq missed',
         Expected \subseteq Expected', Changed(srv, srv') \subseteq Expected' \union missed'
  PROVE  CacheSound'
<1>1. Kept' = Kept
  BY KeptStays
<1>2. \A q \in Kept \ (Expected \union missed) : Says(cache[q], View(q, srv))
  BY DEF CacheSound
<1>3. \A q \in Kept : View(q, srv) = View(q, srv') \/ q \in Expected' \union missed'
  BY DEF Changed
<1>4. \A q \in Kept : View(q, srv)' = View(q, srv')
  BY DEF View, ProjectView, BoardView, QueueView, MineView, HasWork
<1>5. (\A q \in Kept \ (Expected \union missed) : Says(cache[q], View(q, srv)))'
  BY <1>1, <1>2, <1>3, <1>4 DEF Says
<1> QED BY <1>1, <1>5 DEF CacheSound, Unused

\* The queries of S are asked for again or flagged, over the entries seen.
LEMMA RenewInv ==
  ASSUME CacheSound, ScreensTypeOK, UNCHANGED <<page, srv, deleted>>, NEW S \in SUBSET Queries, NEW seen,
         \A q \in Queries : /\ seen[q] \in Entry(Views(q))
                            /\ q \notin S => seen[q] = cache[q]
                            /\ Unused(cache[q]) => Unused(seen[q]),
         cache' = [q \in Queries |-> IF q \in S THEN Invalidated(seen[q], Active(q)) ELSE seen[q]],
         missed' = missed \union {q \in S \intersect Kept : Forgotten(seen[q], Active(q))},
         Expected \subseteq Expected' \union S
  PROVE  /\ CacheSound' /\ missed' \subseteq Queries
         /\ \A q \in Queries : cache'[q] \in Entry(Views(q))
<1>1. /\ Kept' = Kept /\ Kept \subseteq Queries /\ missed \subseteq Queries
      /\ \A q \in Queries : Active(q) => q \in Kept
      /\ \A q \in Queries : View(q, srv)' = View(q, srv)
  BY KeptStays, PagesAre, ViewStays DEF ScreensTypeOK
<1>2. ASSUME NEW q \in Queries
      PROVE  /\ cache'[q] = IF q \in S THEN Invalidated(seen[q], Active(q)) ELSE cache[q]
             /\ seen[q] \in Entry(Views(q)) /\ (Unused(cache[q]) => Unused(seen[q]))
             /\ Invalidated(seen[q], Active(q)) \in Entry(Views(q))
             /\ Unused(seen[q]) /\ ~Active(q) => Unused(Invalidated(seen[q], Active(q)))
  <2>1. seen[q] \in Entry(Views(q)) /\ (q \notin S => seen[q] = cache[q])
        /\ (Unused(cache[q]) => Unused(seen[q]))
    OBVIOUS
  <2>2. cache'[q] = IF q \in S THEN Invalidated(seen[q], Active(q)) ELSE seen[q]
    BY Zenon
  <2> QED BY <2>1, <2>2, InvalidatedIs
<1>3. \A q \in Queries : cache'[q] \in Entry(Views(q))
  BY <1>2 DEF ScreensTypeOK
<1>4. \A q \in Queries \ Kept : Unused(cache'[q])
  BY <1>1, <1>2 DEF CacheSound
<1>5. deleted' => Unused(cache'["project"])
  <2>1. deleted => ~Active("project") /\ Unused(cache["project"])
    BY DEF Active, CacheSound
  <2>2. "project" \in Queries
    BY DEF Queries
  <2> QED BY <1>2, <2>1, <2>2
<1>6. ASSUME NEW q \in Kept, q \notin Expected' \union missed'
      PROVE  Says(cache'[q], View(q, srv))
  <2>1. CASE q \in S
    <3>1. ~Forgotten(seen[q], Active(q))
      BY <1>6, <2>1
    <3> QED BY <1>1, <1>2, <2>1, <3>1, InvalidatedIs
  <2>2. CASE q \notin S
    <3>1. q \notin Expected \union missed
      BY <1>6, <2>2
    <3>2. cache'[q] = cache[q]
      BY <1>1, <1>2, <2>2
    <3> QED BY <3>1, <3>2 DEF CacheSound
  <2> QED BY <2>1, <2>2
<1>7. DOMAIN cache' = Queries
  OBVIOUS
<1>8. (\A q \in Queries \ Kept : Unused(cache[q]))'
  BY <1>1, <1>4 DEF Unused
<1>9. (\A q \in Kept \ (Expected \union missed) : Says(cache[q], View(q, srv)))'
  BY <1>1, <1>6 DEF Says
<1>10. (deleted => Unused(cache["project"]))'
  BY <1>5 DEF Unused
<1>11. missed' \subseteq Queries
  BY <1>1
<1> QED BY <1>3, <1>7, <1>8, <1>9, <1>10, <1>11 DEF CacheSound

\* One query moves on.
LEMMA EntryInv ==
  ASSUME CacheSound, ScreensTypeOK, UNCHANGED <<page, srv, deleted>>, NEW q \in Queries,
         NEW e \in Entry(Views(q)), cache' = [cache EXCEPT ![q] = e], ~Unused(cache[q]),
         missed \ {q} \subseteq missed', Expected \subseteq Expected',
         q \notin Expected' \union missed' => Says(e, View(q, srv))
  PROVE  /\ CacheSound'
         /\ \A p \in Queries : cache'[p] \in Entry(Views(p))
<1>1. /\ Kept' = Kept /\ Kept \subseteq Queries
      /\ \A p \in Queries : View(p, srv)' = View(p, srv)
  BY KeptStays, PagesAre, ViewStays
<1>2. /\ DOMAIN cache' = Queries /\ cache'[q] = e
      /\ \A p \in Queries \ {q} : cache'[p] = cache[p]
  BY DEF CacheSound
<1>3. \A p \in Queries : cache'[p] \in Entry(Views(p))
  BY <1>2 DEF ScreensTypeOK
<1>4. q \in Kept /\ (deleted => q # "project")
  BY DEF CacheSound
<1>5. (\A p \in Queries \ Kept : Unused(cache[p]))'
  BY <1>1, <1>2, <1>4 DEF CacheSound, Unused
<1>6. "project" \in Queries
  BY DEF Queries
<1>7. (deleted => Unused(cache["project"]))'
  BY <1>2, <1>4, <1>6 DEF CacheSound, Unused
<1>8. ASSUME NEW p \in Kept, p \notin Expected' \union missed'
      PROVE  Says(cache'[p], View(p, srv))
  BY <1>1, <1>2, <1>8 DEF CacheSound
<1>9. (\A p \in Kept \ (Expected \union missed) : Says(cache[p], View(p, srv)))'
  BY <1>1, <1>8 DEF Says
<1> QED BY <1>2, <1>3, <1>5, <1>7, <1>9 DEF CacheSound
-----------------------------------------------------------------------------
(* What is still to come, by what became of the request.                   *)

LEMMA ExpectedIs ==
  /\ request.stage \in {"none", "sent"} => Expected = Covered(inbox)
  /\ request.stage = "accepted" =>
       Expected = Covered(inbox) \union OnSuccess(request.op)
                    \union (IF request.op = "delete" THEN {"project"} ELSE {})
  /\ request.stage \in {"refused", "broken"} => Expected = Covered(inbox) \union OnError(request.op)
<1>1. CASE request.stage \in {"none", "sent"}
  BY <1>1 DEF Expected
<1>2. CASE request.stage = "accepted"
  BY <1>2 DEF Expected
<1>3. CASE request.stage \in {"refused", "broken"}
  BY <1>3 DEF Expected
<1>4. CASE request.stage \notin {"none", "sent", "accepted", "refused", "broken"}
  BY <1>4
<1> QED BY <1>1, <1>2, <1>3, <1>4

LEMMA ExpectedWill ==
  /\ request'.stage \in {"none", "sent"} => Expected' = Covered(inbox')
  /\ request'.stage = "accepted" =>
       Expected' = Covered(inbox') \union OnSuccess(request'.op)
                    \union (IF request'.op = "delete" THEN {"project"} ELSE {})
  /\ request'.stage \in {"refused", "broken"} =>
       Expected' = Covered(inbox') \union OnError(request'.op)
<1>1. Covered(inbox)' = Covered(inbox')
  BY DEF Covered, Refreshes
<1>2. OnSuccess(request.op)' = OnSuccess(request'.op) /\ OnError(request.op)' = OnError(request'.op)
  BY DEF OnSuccess, OnError
<1>3. Expected' = Covered(inbox')
         \union (IF request'.stage = "accepted" THEN OnSuccess(request'.op) ELSE {})
         \union (IF request'.op = "delete" /\ request'.stage = "accepted" THEN {"project"} ELSE {})
         \union (IF request'.stage \in {"refused", "broken"} THEN OnError(request'.op) ELSE {})
  BY <1>1, <1>2 DEF Expected
<1> QED BY <1>3

LEMMA ExpectedStays ==
  ASSUME UNCHANGED <<inbox, request>>
  PROVE  Expected' = Expected
BY DEF Expected, Covered, Refreshes, OnSuccess, OnError

LEMMA NoRequestIs ==
  NoRequest.op = "none" /\ NoRequest.stage = "none"
BY DEF NoRequest

-----------------------------------------------------------------------------
(* The user's steps: what is shown does not move.                          *)

LEMMA PressInv ==
  ASSUME ScreensInv, NEW op \in Ops, PressButton(op)
  PROVE  ScreensInv'
<1>1. /\ UNCHANGED <<page, dialog, deleted, cache, missed, srv, changes, link, dropped, inbox>>
      /\ request = NoRequest /\ request' = [op |-> op, stage |-> "sent"] /\ op \in Offers
  BY DEF PressButton, SendRequest, world, wire
<1>2. UsersOps' = UsersOps /\ op \in UsersOps
  BY <1>1, KeptStays, OffersAre DEF ScreensInv
<1>3. HandsSound'
  BY <1>1, <1>2 DEF ScreensInv, HandsSound
<1>4. Expected' = Expected
  BY <1>1, ExpectedIs, ExpectedWill, NoRequestIs
<1>5. CacheSound'
  BY <1>1, <1>4, QuietInv DEF ScreensInv
<1>6. ScreensTypeOK'
  BY <1>1 DEF ScreensInv, ScreensTypeOK
<1> QED BY <1>1, <1>3, <1>5, <1>6 DEF ScreensInv, RowSound

LEMMA DialogInv ==
  ASSUME ScreensInv, Dismiss \/ \E op \in Ops : OpenDialog(op)
  PROVE  ScreensInv'
<1>1. /\ UNCHANGED <<page, request, deleted, cache, missed, srv, changes, link, dropped, inbox>>
      /\ dialog' = "none" \/ dialog' \in Offers
  BY DEF OpenDialog, Dismiss, world, wire
<1>2. UsersOps' = UsersOps /\ Offers \subseteq UsersOps /\ UsersOps \subseteq Ops
  BY <1>1, KeptStays, OffersAre DEF ScreensInv
<1>3. HandsSound'
  BY <1>1, <1>2 DEF ScreensInv, HandsSound
<1>4. CacheSound'
  BY <1>1, ExpectedStays, QuietInv DEF ScreensInv
<1>5. ScreensTypeOK'
  BY <1>1, <1>2 DEF ScreensInv, ScreensTypeOK
<1> QED BY <1>1, <1>3, <1>4, <1>5 DEF ScreensInv, RowSound

LEMMA ConfirmInv ==
  ASSUME ScreensInv, Confirm
  PROVE  ScreensInv'
<1>1. /\ UNCHANGED <<page, deleted, cache, missed, srv, changes, link, dropped, inbox>>
      /\ request = NoRequest /\ request' = [op |-> dialog, stage |-> "sent"] /\ dialog' = "none"
      /\ dialog # "none"
  BY DEF Confirm, SendRequest, world, wire
<1>2. UsersOps' = UsersOps /\ dialog \in UsersOps /\ UsersOps \subseteq Ops
  BY <1>1, KeptStays, OffersAre DEF ScreensInv, HandsSound
<1>3. HandsSound'
  BY <1>1, <1>2 DEF HandsSound
<1>4. Expected' = Expected
  BY <1>1, ExpectedIs, ExpectedWill, NoRequestIs
<1>5. CacheSound'
  BY <1>1, <1>4, QuietInv DEF ScreensInv
<1>6. ScreensTypeOK'
  BY <1>1, <1>2 DEF ScreensInv, ScreensTypeOK
<1> QED BY <1>1, <1>3, <1>5, <1>6 DEF ScreensInv, RowSound

LEMMA RefusedInv ==
  ASSUME ScreensInv, Refused
  PROVE  ScreensInv'
<1>1. /\ UNCHANGED <<page, dialog, deleted, cache, missed, srv, changes, link, dropped, inbox>>
      /\ request.stage = "sent"
      /\ \E st \in {"refused", "broken"} : request' = [request EXCEPT !.stage = st]
  BY DEF Refused, world, wire
<1>2. request \in [op : Ops \union {"none"},
                   stage : {"none", "sent", "accepted", "refused", "broken"}]
  BY DEF ScreensInv, ScreensTypeOK
<1>3. request'.op = request.op /\ request'.stage \in {"refused", "broken"}
      /\ request' \in [op : Ops \union {"none"},
                       stage : {"none", "sent", "accepted", "refused", "broken"}]
  BY <1>1, <1>2
<1>4. HandsSound'
  BY <1>1, <1>3, KeptStays DEF ScreensInv, HandsSound
<1>5. Expected \subseteq Expected'
  BY <1>1, <1>3, ExpectedIs, ExpectedWill
<1>6. CacheSound'
  BY <1>1, <1>5, QuietInv DEF ScreensInv
<1>7. ScreensTypeOK'
  BY <1>1, <1>3 DEF ScreensInv, ScreensTypeOK
<1> QED BY <1>1, <1>4, <1>6, <1>7 DEF ScreensInv, RowSound

LEMMA SubscribeInv ==
  ASSUME ScreensInv, Subscribe \/ UNCHANGED screens
  PROVE  ScreensInv'
<1>1. /\ UNCHANGED <<page, dialog, request, deleted, cache, missed, srv, changes, dropped, inbox>>
      /\ link' \in {link, "on"}
  BY DEF Subscribe, hands, world, screens
<1>2. HandsSound'
  BY <1>1, KeptStays DEF ScreensInv, HandsSound
<1>3. CacheSound'
  BY <1>1, ExpectedStays, QuietInv DEF ScreensInv
<1>4. ScreensTypeOK'
  BY <1>1 DEF ScreensInv, ScreensTypeOK
<1> QED BY <1>1, <1>2, <1>3, <1>4 DEF ScreensInv, RowSound

-----------------------------------------------------------------------------
(* The project changes.                                                    *)

\* Somebody else's change: announced to what shows it, or missed.
LEMMA ElsewhereInv ==
  ASSUME ScreensInv, NEW op \in Ops, NEW actor \in Roles, Elsewhere(op, actor)
  PROVE  ScreensInv'
<1> DEFINE s == Result(op, srv, FALSE)
<1>1. /\ UNCHANGED <<page, dialog, request, deleted, cache, link, dropped>>
      /\ changes \in 0..MaxChanges /\ changes < MaxChanges /\ changes' = changes + 1
      /\ Accepts(op, actor, srv)
  BY DEF Elsewhere, hands, ScreensInv, ScreensTypeOK
<1>2. PICK heard \in {Announces(op, srv), {}} :
        /\ srv' = s /\ inbox' = inbox \union heard
        /\ missed' = IF heard # {} THEN missed ELSE missed \union Changed(srv, s)
  BY DEF Elsewhere, Change
<1>3. srv \in RowType /\ RowSound(srv) /\ inbox \subseteq Kinds /\ missed \subseteq Queries
      /\ changes' \in 0..MaxChanges
  BY <1>1, ChangesAssumption DEF ScreensInv, ScreensTypeOK
<1>4. srv' \in RowType /\ RowSound(srv')
  BY <1>1, <1>2, <1>3, ResultIs
<1>5. heard \subseteq Kinds
  <2>1. Announces(op, srv) \in {{"portal"}, {"claimed"}, {"delivered"}, {}}
    BY DEF Announces
  <2> QED BY <2>1 DEF Kinds
<1>6. Covered(inbox') = Covered(inbox) \union Covered(heard)
  BY <1>2, RefreshesIs
<1>7. Expected' = Expected \union Covered(heard)
  BY <1>1, <1>6, ExpectedIs, ExpectedWill DEF ScreensInv, ScreensTypeOK
<1>8. Changed(srv, srv') \subseteq Expected' \union missed' /\ missed \subseteq missed'
      /\ missed' \subseteq Queries
  <2>1. Changed(srv, s) \subseteq Queries
    BY PagesAre DEF Changed, ScreensInv
  <2>2. CASE heard = {}
    BY <1>2, <1>3, <2>1, <2>2
  <2>3. CASE heard # {}
    <3>1. Changed(srv, s) \subseteq Covered(heard)
      BY <1>1, <1>2, <1>3, <2>3, AnnouncedIs DEF ScreensInv
    <3> QED BY <1>2, <1>3, <1>7, <2>3, <3>1
  <2> QED BY <2>2, <2>3
<1>9. CacheSound'
  BY <1>1, <1>7, <1>8, ChangeInv DEF ScreensInv
<1>10. HandsSound'
  BY <1>1, KeptStays DEF ScreensInv, HandsSound
<1>11. ScreensTypeOK'
  BY <1>1, <1>2, <1>3, <1>4, <1>5, <1>8 DEF ScreensInv, ScreensTypeOK
<1>12. RowSound(srv)'
  BY <1>4 DEF RowSound
<1> QED BY <1>9, <1>10, <1>11, <1>12 DEF ScreensInv

\* The user's own request is done: every query of the page is renewed with its answer,
\* or the change is missed with it.
LEMMA AcceptedInv ==
  ASSUME ScreensInv, Accepted
  PROVE  ScreensInv'
<1> DEFINE op == request.op
<1> DEFINE s == Result(op, srv, TRUE)
<1>1. /\ UNCHANGED <<page, dialog, deleted, cache, link, dropped>>
      /\ changes \in 0..MaxChanges /\ changes < MaxChanges /\ changes' = changes + 1
      /\ Accepts(op, Actor, srv) /\ request.stage = "sent"
  BY DEF Accepted, Handled, ScreensInv, ScreensTypeOK
<1>2. PICK st \in {"accepted", "broken"}, heard \in {Announces(op, srv), {}} :
        /\ request' = [request EXCEPT !.stage = st]
        /\ srv' = s /\ inbox' = inbox \union heard
        /\ missed' = IF heard # {} \/ st = "accepted" \/ OnError(op) # {} THEN missed
                     ELSE missed \union Changed(srv, s)
  BY DEF Accepted, Change
<1>3. /\ srv \in RowType /\ RowSound(srv) /\ inbox \subseteq Kinds /\ missed \subseteq Queries
      /\ request \in [op : Ops \union {"none"},
                      stage : {"none", "sent", "accepted", "refused", "broken"}]
      /\ changes' \in 0..MaxChanges
  BY <1>1, ChangesAssumption DEF ScreensInv, ScreensTypeOK
<1>4. op \in UsersOps /\ op \in Ops
  <2>1. op # "none"
    <3>1. Target("none") = "none" /\ ~Accepts("none", Actor, srv)
      <4>1. Target("none") = "none"
        BY DEF Target
      <4>2. Accepts("none", Actor, srv) => Permitted(srv.status, "none", Actor, "none" \in Noted)
        BY <4>1 DEF Accepts
      <4>3. ~Permitted(srv.status, "none", Actor, FALSE)
        <5>1. Permitted(srv.status, "none", Actor, FALSE) => "none" \in Statuses
          BY MatrixIs
        <5> QED BY <5>1 DEF Statuses
      <4>4. ("none" \in Noted) = FALSE
        BY DEF Noted
      <4> QED BY <4>1, <4>2, <4>3, <4>4
    <3> QED BY <1>1, <3>1
  <2> QED BY <1>3, <2>1 DEF ScreensInv, HandsSound
<1>5. srv' \in RowType /\ RowSound(srv')
  BY <1>1, <1>2, <1>3, <1>4, ResultIs
<1>6. heard \subseteq Kinds /\ (page # "portal" => heard = {})
  <2>1. Announces(op, srv) \in {{"portal"}, {"claimed"}, {"delivered"}, {}}
    BY DEF Announces
  <2>2. page # "portal" => Announces(op, srv) = {}
    BY <1>4 DEF Announces, UsersOps, ManagersOps
  <2> QED BY <2>1, <2>2 DEF Kinds
<1>7. /\ request'.op = op /\ request'.stage = st
      /\ request' \in [op : Ops \union {"none"},
                       stage : {"none", "sent", "accepted", "refused", "broken"}]
  BY <1>2, <1>3
<1>8. Covered(inbox') = Covered(inbox) \union Covered(heard)
  BY <1>2, RefreshesIs
<1>9. /\ Expected = Covered(inbox) /\ Expected \subseteq Expected'
      /\ Covered(heard) \subseteq Expected'
      /\ st = "accepted" => OnSuccess(op) \subseteq Expected' /\ (op = "delete" => "project" \in Expected')
      /\ st = "broken" => OnError(op) \subseteq Expected'
  BY <1>1, <1>7, <1>8, ExpectedIs, ExpectedWill
<1>10. Changed(srv, srv') \subseteq Kept /\ Kept \subseteq Queries
  BY PagesAre DEF Changed, ScreensInv
<1>11. Changed(srv, srv') \subseteq Expected' \union missed' /\ missed \subseteq missed'
       /\ missed' \subseteq Queries
  <2>1. missed \subseteq missed' /\ missed' \subseteq Queries
    BY <1>2, <1>3, <1>10
  <2>2. CASE page # "portal"
    <3>1. op \in ManagersOps /\ OnError(op) = {} /\ heard = {} /\ Kept = {"project", "projects"}
      BY <1>4, <1>6, <2>2, RenewedIs, PagesAre DEF UsersOps, ScreensInv
    <3>2. CASE st = "accepted"
      <4>1. Kept \subseteq Expected'
        BY <1>9, <3>1, <3>2, RenewedIs
      <4> QED BY <1>10, <2>1, <4>1
    <3>3. CASE st = "broken"
      BY <1>2, <2>1, <3>1, <3>3
    <3> QED BY <3>2, <3>3
  <2>3. CASE page = "portal"
    <3>1. op \in TranslatorsOps /\ Kept = {"queue", "mine"}
      BY <1>4, <2>3, PagesAre DEF UsersOps, ScreensInv
    <3>2. CASE st = "accepted" \/ op \in {"claim", "amend"}
      <4>1. Kept \subseteq Expected'
        BY <1>9, <3>1, <3>2, RenewedIs
      <4> QED BY <1>10, <2>1, <4>1
    <3>3. CASE st = "broken" /\ op = "deliver"
      <4>1. Announces(op, srv) = {} /\ OnError(op) = {}
        BY <2>3, <3>3, RenewedIs DEF Announces
      <4> QED BY <1>2, <2>1, <3>3, <4>1
    <3> QED BY <3>1, <3>2, <3>3 DEF TranslatorsOps
  <2> QED BY <2>2, <2>3
<1>12. CacheSound'
  BY <1>1, <1>9, <1>11, ChangeInv DEF ScreensInv
<1>13. HandsSound'
  BY <1>1, <1>7, KeptStays DEF ScreensInv, HandsSound
<1>14. ScreensTypeOK'
  BY <1>1, <1>2, <1>3, <1>5, <1>6, <1>7, <1>11 DEF ScreensInv, ScreensTypeOK
<1>15. RowSound(srv)'
  BY <1>5 DEF RowSound
<1> QED BY <1>12, <1>13, <1>14, <1>15 DEF ScreensInv
-----------------------------------------------------------------------------
(* The answer to the user's own request.                                   *)

LEMMA SucceedInv ==
  ASSUME ScreensInv, Succeed
  PROVE  ScreensInv'
<1> DEFINE op == request.op
<1>1. /\ UNCHANGED <<page, dialog, srv, changes, link, dropped, inbox>>
      /\ request.stage = "accepted" /\ request' = NoRequest
  BY DEF Succeed, world, wire
<1>2. /\ op \in Ops \union {"none"} /\ OnSuccess(op) \in SUBSET Queries
      /\ NoRequest \in [op : Ops \union {"none"},
                        stage : {"none", "sent", "accepted", "refused", "broken"}]
  BY RenewedIs DEF ScreensInv, ScreensTypeOK, NoRequest
<1>3. /\ Expected = Covered(inbox) \union OnSuccess(op)
                      \union (IF op = "delete" THEN {"project"} ELSE {})
      /\ Expected' = Covered(inbox)
  BY <1>1, ExpectedIs, ExpectedWill, NoRequestIs
<1>4. /\ CacheSound' /\ missed' \subseteq Queries /\ deleted' \in BOOLEAN
      /\ \A q \in Queries : cache'[q] \in Entry(Views(q))
  <2>1. CASE op # "delete"
    <3>1. Invalidate(OnSuccess(op)) /\ deleted' = deleted
      BY <2>1 DEF Succeed
    <3>2. Expected \subseteq Expected' \union OnSuccess(op)
      BY <1>3, <2>1
    <3>3. /\ CacheSound' /\ missed' \subseteq Queries
          /\ \A q \in Queries : cache'[q] \in Entry(Views(q))
      BY <1>1, <1>2, <3>1, <3>2, RenewInv DEF Invalidate, ScreensInv, ScreensTypeOK
    <3> QED BY <3>1, <3>3 DEF ScreensInv, ScreensTypeOK
  <2>2. CASE op = "delete"
    <3> DEFINE old == cache["projects"]
    <3> DEFINE new == Invalidated(cache["projects"], Active("projects"))
    <3>1. /\ cache' = [cache EXCEPT !["project"]  = Absent, !["projects"] = new]
          /\ missed' = missed \union {q \in {"projects"} : Forgotten(cache[q], Active(q))}
          /\ deleted' = TRUE
      BY <2>2 DEF Succeed, Removed
    <3>2. DOMAIN cache = Queries /\ missed \subseteq Queries /\ old \in Entry(Views("projects"))
      BY DEF ScreensInv, CacheSound, ScreensTypeOK, Queries
    <3>3. /\ DOMAIN cache' = Queries /\ cache'["project"] = Absent /\ cache'["projects"] = new
          /\ \A q \in Queries \ {"project", "projects"} : cache'[q] = cache[q]
      BY <3>1, <3>2 DEF Queries
    <3>4. /\ new \in Entry(Views("projects"))
          /\ "projects" \notin missed' => Says(new, View("projects", srv))
          /\ Unused(old) /\ ~Active("projects") => Unused(new)
      <4>1. "projects" \notin missed' => ~Forgotten(old, Active("projects"))
        BY <3>1
      <4> QED BY <3>2, <4>1, InvalidatedIs
    <3>5. \A q \in Queries : cache'[q] \in Entry(Views(q))
      BY <3>3, <3>4, AbsentIs DEF ScreensInv, ScreensTypeOK
    <3>6. missed \subseteq missed' /\ missed' \subseteq Queries
      BY <3>1, <3>2 DEF Queries
    <3>7. /\ Kept' = Kept /\ Kept \subseteq Queries /\ \A q \in Queries : View(q, srv)' = View(q, srv)
          /\ "projects" \notin Kept => ~Active("projects")
      BY <1>1, KeptStays, ViewStays, PagesAre DEF ScreensInv, Queries
    <3>8. \A q \in Queries \ Kept : Unused(cache'[q])
      BY <3>3, <3>4, <3>7, AbsentIs DEF ScreensInv, CacheSound
    <3>9. ASSUME NEW q \in Kept, q \notin Expected' \union missed'
          PROVE  Says(cache'[q], View(q, srv))
      <4>1. CASE q = "project"
        BY <3>3, <4>1, AbsentIs
      <4>2. CASE q = "projects"
        BY <3>3, <3>4, <3>9, <4>2
      <4>3. CASE q \notin {"project", "projects"}
        <5>1. q \notin OnSuccess(op) /\ cache'[q] = cache[q]
          BY <2>2, <3>3, <3>7, <4>3, RenewedIs
        <5>2. q \notin Expected \union missed
          BY <1>3, <3>6, <3>9, <4>3, <5>1
        <5> QED BY <5>1, <5>2 DEF ScreensInv, CacheSound
      <4> QED BY <4>1, <4>2, <4>3
    <3>10. (\A q \in Queries \ Kept : Unused(cache[q]))'
      BY <3>7, <3>8 DEF Unused
    <3>11. (\A q \in Kept \ (Expected \union missed) : Says(cache[q], View(q, srv)))'
      BY <3>7, <3>9 DEF Says
    <3>12. (deleted => Unused(cache["project"]))'
      BY <3>3, AbsentIs DEF Unused
    <3>13. CacheSound'
      BY <3>3, <3>10, <3>11, <3>12 DEF CacheSound
    <3> QED BY <3>1, <3>5, <3>6, <3>13
  <2> QED BY <2>1, <2>2
<1>5. HandsSound'
  BY <1>1, KeptStays, NoRequestIs DEF ScreensInv, HandsSound
<1>6. ScreensTypeOK'
  BY <1>1, <1>2, <1>4 DEF ScreensInv, ScreensTypeOK
<1> QED BY <1>1, <1>4, <1>5, <1>6 DEF ScreensInv, RowSound

LEMMA GiveUpInv ==
  ASSUME ScreensInv, GiveUp
  PROVE  ScreensInv'
<1> DEFINE op == request.op
<1>1. /\ UNCHANGED <<page, dialog, deleted, srv, changes, link, dropped, inbox>>
      /\ request.stage \in {"refused", "broken"} /\ request' = NoRequest /\ Invalidate(OnError(op))
  BY DEF GiveUp, world, wire
<1>2. /\ op \in Ops \union {"none"} /\ OnError(op) \in SUBSET Queries
      /\ NoRequest \in [op : Ops \union {"none"},
                        stage : {"none", "sent", "accepted", "refused", "broken"}]
  BY RenewedIs DEF ScreensInv, ScreensTypeOK, NoRequest
<1>3. Expected \subseteq Expected' \union OnError(op)
  BY <1>1, ExpectedIs, ExpectedWill, NoRequestIs
<1>4. /\ CacheSound' /\ missed' \subseteq Queries
      /\ \A q \in Queries : cache'[q] \in Entry(Views(q))
  BY <1>1, <1>2, <1>3, RenewInv DEF Invalidate, ScreensInv, ScreensTypeOK
<1>5. HandsSound'
  BY <1>1, KeptStays, NoRequestIs DEF ScreensInv, HandsSound
<1>6. ScreensTypeOK'
  BY <1>1, <1>2, <1>4 DEF ScreensInv, ScreensTypeOK
<1> QED BY <1>1, <1>4, <1>5, <1>6 DEF ScreensInv, RowSound

-----------------------------------------------------------------------------
(* The browser and its socket.                                             *)

\* What one query's step leaves of the rest.
LEMMA QueryFrame ==
  ASSUME ScreensInv, UNCHANGED <<page, request, deleted, srv, changes, link, dropped, inbox>>,
         dialog' \in {dialog, "none"}, CacheSound', missed' \subseteq Queries,
         \A q \in Queries : cache'[q] \in Entry(Views(q))
  PROVE  ScreensInv'
<1>1. HandsSound'
  BY KeptStays DEF ScreensInv, HandsSound
<1>2. ScreensTypeOK'
  BY DEF ScreensInv, ScreensTypeOK
<1> QED BY <1>1, <1>2 DEF ScreensInv, RowSound

LEMMA AnswerInv ==
  ASSUME ScreensInv, NEW q \in Queries, Answer(q) \/ Land(q) \/ LoseAnswer(q)
  PROVE  ScreensInv'
<1> DEFINE e == cache[q]
<1> DEFINE v == View(q, srv)
<1>1. /\ UNCHANGED <<page, request, deleted, srv, changes, link, dropped, inbox>>
      /\ dialog' \in {dialog, "none"}
  BY DEF Answer, Land, LoseAnswer, hands, world, wire
<1>2. e \in Entry(Views(q)) /\ v \in Views(q) /\ missed \subseteq Queries
  BY ViewIs DEF ScreensInv, ScreensTypeOK
<1>3. e.fetch \in {"asked", "answered"} /\ ~Unused(e)
  BY DEF Answer, Land, LoseAnswer, Unused
<1>4. Expected' = Expected
  BY <1>1, ExpectedStays
<1>5. q \in Kept
  BY <1>3 DEF ScreensInv, CacheSound
<1>6. PICK n \in Entry(Views(q)) :
        /\ cache' = [cache EXCEPT ![q] = n]
        /\ missed' \in {missed, missed \ {q}}
        /\ q \notin Expected' \union missed' => Says(n, v)
  <2>1. CASE Answer(q)
    <3>1. cache' = [cache EXCEPT ![q] = Answered(e, v)] /\ missed' = missed \ {q}
      BY <2>1 DEF Answer
    <3> QED BY <1>2, <3>1, AnsweredIs
  <2>2. CASE Land(q)
    <3>1. missed' = missed /\ e.fetch = "answered"
          /\ \/ cache' = [cache EXCEPT ![q] = Failed(e)]
             \/ cache' = [cache EXCEPT ![q] = Landed(e)]
      BY <2>2 DEF Land
    <3>2. q \notin Expected' \union missed' => Says(e, v)
      BY <1>4, <1>5, <3>1 DEF ScreensInv, CacheSound
    <3> QED BY <1>2, <3>1, <3>2, FailedIs, LandedIs
  <2>3. CASE LoseAnswer(q)
    <3>1. cache' = [cache EXCEPT ![q] = Failed(e)] /\ missed' = missed
      BY <2>3 DEF LoseAnswer
    <3> QED BY <1>2, <3>1, FailedIs
  <2> QED BY <2>1, <2>2, <2>3
<1>7. missed \ {q} \subseteq missed' /\ missed' \subseteq Queries
  BY <1>2, <1>6
<1>8. CacheSound' /\ \A p \in Queries : cache'[p] \in Entry(Views(p))
  BY <1>1, <1>3, <1>4, <1>6, <1>7, EntryInv DEF ScreensInv
<1> QED BY <1>1, <1>7, <1>8, QueryFrame

LEMMA NavigateInv ==
  ASSUME ScreensInv, Navigate
  PROVE  ScreensInv'
<1>1. /\ UNCHANGED <<dialog, request, missed, srv, changes, link, dropped, inbox>>
      /\ page # "portal" /\ page' \in {"project", "board"} /\ deleted' = FALSE
  BY DEF Navigate, world, wire
<1>2. PICK young \in BOOLEAN :
        cache' = [q \in Queries |-> IF q \in Reads(page') THEN Mounted(cache[q], young)
                                    ELSE cache[q]]
  BY DEF Navigate
<1>3. /\ Kept' = Kept /\ Kept = {"project", "projects"} /\ Kept \subseteq Queries
      /\ UsersOps' = UsersOps /\ Reads(page') \subseteq Kept
      /\ \A q \in Queries : View(q, srv)' = View(q, srv)
  BY <1>1, PagesAre, ViewStays DEF Kept, Reads, UsersOps, ScreensInv
<1>4. Expected' = Expected
  BY <1>1, ExpectedStays
<1>5. ASSUME NEW q \in Queries
      PROVE  /\ cache'[q] \in {cache[q], Mounted(cache[q], young)} /\ cache'[q] \in Entry(Views(q))
             /\ q \notin Kept => cache'[q] = cache[q]
             /\ Says(cache[q], View(q, srv)) => Says(cache'[q], View(q, srv))
  <2>1. cache'[q] = IF q \in Reads(page') THEN Mounted(cache[q], young) ELSE cache[q]
    BY <1>2, Zenon
  <2>2. cache[q] \in Entry(Views(q))
    BY DEF ScreensInv, ScreensTypeOK
  <2> QED BY <1>3, <2>1, <2>2, MountedIs
<1>6. (\A q \in Queries \ Kept : Unused(cache[q]))'
  BY <1>3, <1>5 DEF ScreensInv, CacheSound, Unused
<1>7. \A q \in Kept \ (Expected \union missed) : Says(cache'[q], View(q, srv))
  BY <1>3, <1>5 DEF ScreensInv, CacheSound
<1>8. (\A q \in Kept \ (Expected \union missed) : Says(cache[q], View(q, srv)))'
  BY <1>1, <1>3, <1>4, <1>7 DEF Says
<1>9. CacheSound'
  BY <1>1, <1>2, <1>6, <1>8 DEF CacheSound
<1>10. HandsSound'
  BY <1>1, <1>3 DEF ScreensInv, HandsSound
<1>11. ScreensTypeOK'
  BY <1>1, <1>5 DEF ScreensInv, ScreensTypeOK
<1> QED BY <1>1, <1>9, <1>10, <1>11 DEF ScreensInv, RowSound

LEMMA HearInv ==
  ASSUME ScreensInv, NEW k \in Kinds, Hear(k)
  PROVE  ScreensInv'
<1> DEFINE seen == [cache EXCEPT !["queue"] = IF k = "claimed" THEN Patched(@, FALSE) ELSE @]
<1> DEFINE S == Refreshes(k)
<1>1. /\ UNCHANGED <<page, dialog, request, deleted, srv, changes, link, dropped>>
      /\ k \in inbox /\ inbox' = inbox \ {k}
      /\ cache' = [q \in Queries |-> IF q \in S THEN Invalidated(seen[q], Active(q)) ELSE seen[q]]
      /\ missed' = missed \union {q \in S \intersect Kept : Forgotten(seen[q], Active(q))}
  BY DEF Hear, hands, world
<1>2. S \in SUBSET Queries /\ (k = "claimed" => S = {"queue"})
  BY RefreshesIs DEF Kinds, Queries
<1>3. DOMAIN cache = Queries /\ Views("queue") = BOOLEAN /\ "queue" \in Queries
      /\ \A q \in Queries : cache[q] \in Entry(Views(q))
  BY DEF ScreensInv, CacheSound, ScreensTypeOK, Views, Queries
<1>4. \A q \in Queries : /\ seen[q] \in Entry(Views(q))
                         /\ q \notin S => seen[q] = cache[q]
                         /\ Unused(cache[q]) => Unused(seen[q])
  <2>1. CASE k # "claimed"
    <3>1. \A q \in Queries : seen[q] = cache[q]
      BY <1>3, <2>1
    <3> QED BY <1>3, <3>1
  <2>2. CASE k = "claimed"
    <3>1. seen["queue"] = Patched(cache["queue"], FALSE)
          /\ \A q \in Queries \ {"queue"} : seen[q] = cache[q]
      BY <1>3, <2>2
    <3>2. /\ Patched(cache["queue"], FALSE) \in Entry(Views("queue"))
          /\ Unused(cache["queue"]) => Unused(Patched(cache["queue"], FALSE))
      BY <1>3, PatchedIs
    <3> QED BY <1>2, <1>3, <2>2, <3>1, <3>2
  <2> QED BY <2>1, <2>2
<1> HIDE DEF seen
<1>5. Covered(inbox) \subseteq Covered(inbox') \union S
  BY <1>1 DEF Covered
<1>6. Expected \subseteq Expected' \union S
  BY <1>1, <1>5, ExpectedIs, ExpectedWill DEF ScreensInv, ScreensTypeOK
<1>7. /\ CacheSound' /\ missed' \subseteq Queries
      /\ \A q \in Queries : cache'[q] \in Entry(Views(q))
  BY <1>1, <1>2, <1>4, <1>6, RenewInv DEF ScreensInv
<1>8. HandsSound'
  BY <1>1, KeptStays DEF ScreensInv, HandsSound
<1>9. ScreensTypeOK'
  BY <1>1, <1>7 DEF ScreensInv, ScreensTypeOK
<1> QED BY <1>1, <1>7, <1>8, <1>9 DEF ScreensInv, RowSound

LEMMA DropInv ==
  ASSUME ScreensInv, Drop
  PROVE  ScreensInv'
<1>1. /\ UNCHANGED <<page, dialog, request, deleted, cache, srv, changes>>
      /\ link' = "down" /\ dropped' \in BOOLEAN /\ inbox' = {}
      /\ missed' = missed \union (Covered(inbox) \intersect Kept)
  BY DEF Drop, hands, world, ScreensInv, ScreensTypeOK
<1>2. /\ Kept' = Kept /\ Kept \subseteq Queries /\ missed' \subseteq Queries
      /\ \A q \in Queries : View(q, srv)' = View(q, srv)
  BY <1>1, KeptStays, ViewStays, PagesAre DEF ScreensInv, ScreensTypeOK
<1>3. Expected \subseteq Expected' \union Covered(inbox)
  BY <1>1, ExpectedIs, ExpectedWill DEF ScreensInv, ScreensTypeOK
<1>4. \A q \in Kept \ (Expected' \union missed') : q \notin Expected \union missed
  BY <1>1, <1>3
<1>5. \A q \in Kept \ (Expected' \union missed') : Says(cache[q], View(q, srv))
  BY <1>4 DEF ScreensInv, CacheSound
<1>6. (\A q \in Kept \ (Expected \union missed) : Says(cache[q], View(q, srv)))'
  BY <1>1, <1>2, <1>5 DEF Says
<1>7. CacheSound'
  BY <1>1, <1>2, <1>6 DEF ScreensInv, CacheSound, Unused
<1>8. HandsSound'
  BY <1>1, KeptStays DEF ScreensInv, HandsSound
<1>9. ScreensTypeOK'
  BY <1>1, <1>2 DEF ScreensInv, ScreensTypeOK
<1> QED BY <1>1, <1>7, <1>8, <1>9 DEF ScreensInv, RowSound

LEMMA ReconnectInv ==
  ASSUME ScreensInv, Reconnect
  PROVE  ScreensInv'
<1>1. /\ UNCHANGED <<page, dialog, request, deleted, srv, changes, dropped, inbox>>
      /\ link' = "joining"
      /\ Invalidate(Reconciled) \/ UNCHANGED <<cache, missed>>
  BY DEF Reconnect, hands, world
<1>2. Expected' = Expected /\ Reconciled \in SUBSET Queries
  BY <1>1, ExpectedStays, RefreshesIs DEF Reconciled, Queries
<1>3. /\ CacheSound' /\ missed' \subseteq Queries
      /\ \A q \in Queries : cache'[q] \in Entry(Views(q))
  <2>1. CASE Invalidate(Reconciled)
    BY <1>1, <1>2, <2>1, RenewInv DEF Invalidate, ScreensInv, ScreensTypeOK
  <2>2. CASE UNCHANGED <<cache, missed>>
    BY <1>1, <1>2, <2>2, QuietInv DEF ScreensInv, ScreensTypeOK
  <2> QED BY <1>1, <2>1, <2>2
<1>4. HandsSound'
  BY <1>1, KeptStays DEF ScreensInv, HandsSound
<1>5. ScreensTypeOK'
  BY <1>1, <1>3 DEF ScreensInv, ScreensTypeOK
<1> QED BY <1>1, <1>3, <1>4, <1>5 DEF ScreensInv, RowSound
-----------------------------------------------------------------------------
(* The invariant, and what the pages promise by it.                        *)

LEMMA ScreensInitInv ==
  ASSUME ScreensInit
  PROVE  ScreensInv
<1>1. /\ page \in {"board", "portal"} /\ link = "down" /\ dropped = FALSE /\ inbox = {}
      /\ dialog = "none" /\ request = NoRequest /\ deleted = FALSE /\ missed = {} /\ changes = 0
      /\ cache = [q \in Queries |-> IF q \in Reads(page) THEN Asked(Absent) ELSE Absent]
  BY DEF ScreensInit
<1>2. PICK mine \in BOOLEAN : srv \in Rows(mine)
  BY DEF ScreensInit
<1>3. srv \in RowType /\ RowSound(srv)
  <2>1. \/ srv = Row("claimed", "active", mine, FALSE)
        \/ srv = Row("approved", "delivered", mine, TRUE)
        \/ \E s \in {"draft", "available", "cancelled"} : srv = Row(s, "none", FALSE, FALSE)
        \/ \E s \in {"available", "cancelled"} : srv = Row(s, "withdrawn", FALSE, FALSE)
        \/ \E a \in {"active", "delivered"} : srv = Row("cancelled", a, mine, FALSE)
        \/ \E s \in HandedOver : srv = Row(s, "delivered", mine, FALSE)
    BY <1>2 DEF Rows
  <2>2. \E s \in Statuses, a \in Asgs, m \in BOOLEAN, f \in BOOLEAN :
          /\ srv = [status |-> s, asg |-> a, mine |-> m, failed |-> f]
          /\ a = "active" => s \in {"claimed", "cancelled"}
          /\ s \in {"draft", "available"} => m = FALSE
    BY <1>2, <2>1 DEF Row, HandedOver, Statuses, Asgs
  <2> QED BY <2>2 DEF RowType, RowSound
<1>4. \A q \in Queries : /\ Asked(Absent) \in Entry(Views(q)) /\ Absent \in Entry(Views(q))
                         /\ Says(Asked(Absent), View(q, srv)) /\ Says(Absent, View(q, srv))
  BY AbsentIs, AskedIs
<1>5. \A q \in Queries : /\ cache[q] \in {Asked(Absent), Absent}
                         /\ q \notin Reads(page) => cache[q] = Absent
  BY <1>1, Zenon
<1>6. ScreensTypeOK
  <2>1. \A q \in Queries : cache[q] \in Entry(Views(q))
    BY <1>4, <1>5
  <2>2. request \in [op : Ops \union {"none"},
                    stage : {"none", "sent", "accepted", "refused", "broken"}]
    BY <1>1 DEF NoRequest
  <2>3. changes \in 0..MaxChanges
    BY <1>1, ChangesAssumption
  <2> QED BY <1>1, <1>3, <2>1, <2>2, <2>3 DEF ScreensTypeOK
<1>7. HandsSound
  BY <1>1, NoRequestIs DEF HandsSound
<1>8. \A q \in Queries \ Kept : Unused(cache[q])
  <2>1. Reads(page) \subseteq Kept
    BY <1>1 DEF Kept, Reads
  <2> QED BY <1>5, <2>1, AbsentIs
<1>9. \A q \in Kept : Says(cache[q], View(q, srv))
  BY <1>4, <1>5, <1>6, PagesAre
<1> QED BY <1>1, <1>3, <1>6, <1>7, <1>8, <1>9 DEF ScreensInv, CacheSound

LEMMA ScreensNextInv ==
  ASSUME ScreensInv, [ScreensNext]_screens
  PROVE  ScreensInv'
<1>1. CASE \E op \in Ops : PressButton(op)
  BY <1>1, PressInv
<1>2. CASE Dismiss \/ \E op \in Ops : OpenDialog(op)
  BY <1>2, DialogInv
<1>3. CASE \E op \in Ops, actor \in Roles : Elsewhere(op, actor)
  BY <1>3, ElsewhereInv
<1>4. CASE Confirm
  BY <1>4, ConfirmInv
<1>5. CASE Navigate
  BY <1>5, NavigateInv
<1>6. CASE Drop
  BY <1>6, DropInv
<1>7. CASE \E q \in Queries : Answer(q) \/ Land(q) \/ LoseAnswer(q)
  BY <1>7, AnswerInv
<1>8. CASE \E k \in Kinds : Hear(k)
  BY <1>8, HearInv
<1>9. CASE Accepted
  BY <1>9, AcceptedInv
<1>10. CASE Refused
  BY <1>10, RefusedInv
<1>11. CASE Succeed
  BY <1>11, SucceedInv
<1>12. CASE GiveUp
  BY <1>12, GiveUpInv
<1>13. CASE Reconnect
  BY <1>13, ReconnectInv
<1>14. CASE Subscribe \/ UNCHANGED screens
  BY <1>14, SubscribeInv
<1> QED
  BY <1>1, <1>2, <1>3, <1>4, <1>5, <1>6, <1>7, <1>8, <1>9, <1>10, <1>11, <1>12, <1>13, <1>14
  DEF ScreensNext, Arrivals

\* The invariant of the screens holds throughout.
THEOREM ScreensInvariance == ScreensSpec => []ScreensInv
<1>1. ScreensInit => ScreensInv
  BY ScreensInitInv
<1>2. ScreensInv /\ [ScreensNext]_screens => ScreensInv'
  BY ScreensNextInv
<1> QED BY <1>1, <1>2, PTL DEF ScreensSpec

\* Every variable of the screens holds what the code keeps there (ScreensTypeOK).
THEOREM ScreensTypeCorrect == ScreensSpec => []ScreensTypeOK
<1>1. ScreensInv => ScreensTypeOK
  BY DEF ScreensInv
<1> QED BY <1>1, ScreensInvariance, PTL

\* A page at rest shows the project as it is, unless nobody could have told it, and a
\* deleted project's copy does not come back (RealtimeProvider, invalidate(),
\* invalidateAll(), the delete's removeQueries()).
THEOREM PagesKeepUp == ScreensSpec => []NotBehind
<1>1. ASSUME ScreensInv PROVE NotBehind
  <2>1. ASSUME NEW q \in Queries, Settled(q), q \notin missed
        PROVE  Shows(q, View(q, srv))
    <3>1. q \in Kept
      BY <1>1, <2>1, PagesAre DEF ScreensInv, Settled
    <3>2. Says(cache[q], View(q, srv))
      BY <1>1, <2>1, <3>1 DEF ScreensInv, CacheSound, Settled
    <3> QED BY <2>1, <3>2 DEF Says, Settled, Shows
  <2>2. deleted => cache["project"].data = {}
    BY <1>1 DEF ScreensInv, CacheSound, Unused
  <2> QED BY <2>1, <2>2 DEF NotBehind
<1> QED BY <1>1, ScreensInvariance, PTL

LEMMA RuleAllows ==
  ASSUME NEW from, NEW to, NEW who, NEW note, NEW actor \in who, NEW noted,
         Rule(from, to, who, note) \in Matrix, note => noted
  PROVE  Permitted(from, to, actor, noted)
<1> DEFINE r == Rule(from, to, who, note)
<1>1. r.from = from /\ r.to = to /\ r.who = who /\ r.note = note
  BY DEF Rule
<1> HIDE DEF r
<1> QED BY <1>1 DEF r, Permitted

\* What the matrix lets a manager and a translator do, each from the status the page shows.
LEMMA AllowedIs ==
  /\ Permitted("draft", "available", "project_manager", FALSE)
  /\ Permitted("delivered", "in_review", "project_manager", FALSE)
  /\ Permitted("in_review", "approved", "project_manager", FALSE)
  /\ Permitted("in_review", "revision_requested", "project_manager", TRUE)
  /\ Permitted("claimed", "available", "project_manager", TRUE)
  /\ Permitted("completed", "archived", "project_manager", FALSE)
  /\ Permitted("draft", "cancelled", "project_manager", TRUE)
  /\ Permitted("available", "cancelled", "project_manager", TRUE)
  /\ Permitted("available", "claimed", "translator", FALSE)
  /\ Permitted("claimed", "delivered", "translator", FALSE)
  /\ Permitted("revision_requested", "delivered", "translator", FALSE)
<1>1. "project_manager" \in Managers /\ "translator" \in PortalUsers
  BY DEF Managers, PortalUsers
<1>2. /\ Rule("draft", "available", Managers, FALSE) \in Matrix
      /\ Rule("delivered", "in_review", Managers, FALSE) \in Matrix
      /\ Rule("in_review", "approved", Managers, FALSE) \in Matrix
      /\ Rule("in_review", "revision_requested", Managers, TRUE) \in Matrix
      /\ Rule("claimed", "available", Managers, TRUE) \in Matrix
      /\ Rule("completed", "archived", Managers, FALSE) \in Matrix
      /\ Rule("draft", "cancelled", Managers, TRUE) \in Matrix
      /\ Rule("available", "cancelled", Managers, TRUE) \in Matrix
      /\ Rule("available", "claimed", PortalUsers, FALSE) \in Matrix
      /\ Rule("claimed", "delivered", PortalUsers, FALSE) \in Matrix
      /\ Rule("revision_requested", "delivered", PortalUsers, FALSE) \in Matrix
  BY DEF Matrix, Rules
<1> QED BY <1>1, <1>2, RuleAllows

\* What a request on row r needs, for the requests the pages offer.
LEMMA AcceptsIs ==
  ASSUME NEW op \in Ops, NEW actor, NEW r, r.status # "gone"
  PROVE  /\ op \in {"publish", "claim", "open", "approve", "archive", "deliver"} =>
              (Accepts(op, actor, r) <=> Permitted(r.status, Target(op), actor, FALSE))
         /\ op \in {"cancel", "withdraw", "revise"} =>
              (Accepts(op, actor, r) <=> Permitted(r.status, Target(op), actor, TRUE))
         /\ op = "delete" => (Accepts(op, actor, r) <=> r.asg = "none")
         /\ op = "retry"  => (Accepts(op, actor, r) <=> r.status = "approved")
         /\ op = "amend"  => (Accepts(op, actor, r) <=> r.status = "delivered")
<1>1. /\ op = "delete" => (Accepts(op, actor, r) <=> r.asg = "none")
      /\ op = "retry"  => (Accepts(op, actor, r) <=> r.status = "approved")
      /\ op = "amend"  => (Accepts(op, actor, r) <=> r.status = "delivered")
  BY DEF Accepts
<1>2. op \notin {"delete", "retry", "fail", "amend"} =>
        (Accepts(op, actor, r) <=> Permitted(r.status, Target(op), actor, op \in Noted))
  BY DEF Accepts
<1>3. CASE op \in {"publish", "claim", "open", "approve", "archive", "deliver"}
  <2>1. (op \in Noted) = FALSE
    BY <1>3 DEF Noted
  <2> QED BY <1>1, <1>2, <1>3, <2>1
<1>4. CASE op \in {"cancel", "withdraw", "revise"}
  <2>1. (op \in Noted) = TRUE
    BY <1>4 DEF Noted
  <2> QED BY <1>1, <1>2, <1>4, <2>1
<1> QED BY <1>1, <1>3, <1>4

LEMMA TargetIs ==
  /\ Target("publish") = "available" /\ Target("withdraw") = "available"
  /\ Target("cancel") = "cancelled" /\ Target("claim") = "claimed"
  /\ Target("deliver") = "delivered" /\ Target("open") = "in_review"
  /\ Target("revise") = "revision_requested" /\ Target("approve") = "approved"
  /\ Target("archive") = "archived"
BY DEF Target

\* A page that shows the project as it is offers nothing the API would refuse, but for
\* the delivery of a project cancelled under its translator (the buttons of
\* ProjectDetailPage and PortalPage against ProjectTransitionService's matrix).
THEOREM OffersHonest == ScreensSpec => []OffersAreHonest
<1>1. ASSUME ScreensInv, \A q \in Reads(page) : Shows(q, View(q, srv)), NEW op \in Offers
      PROVE  Handled(op, srv) \/ (op = "deliver" /\ srv.status = "cancelled")
  <2>1. /\ page \in {"board", "project", "portal"} /\ srv \in RowType /\ RowSound(srv) /\ op \in Ops
        /\ Reads("project") = {"project"} /\ Reads("portal") = {"queue", "mine"}
    BY <1>1, OffersAre DEF ScreensInv, ScreensTypeOK, Reads
  <2>2. CASE page = "board"
    BY <1>1, <2>2 DEF Offers
  <2>3. CASE page = "project"
    <3> DEFINE r == ProjectView(srv)
    <3>1. cache["project"].data = {r}
      BY <1>1, <2>1, <2>3 DEF Shows, View
    <3>2. r.status = srv.status /\ r.asg = srv.asg /\ r.failed = srv.failed
      BY <2>1 DEF ProjectView, RowType
    <3> HIDE DEF r
    <3>3. op \in ProjectOffers(r) \union FailureOffers(r)
      BY <1>1, <2>3, <3>1 DEF Offers
    <3>4. /\ op \in ManagersOps \ {"deliver", "amend"} /\ Actor = "project_manager"
      BY <2>3, <3>3 DEF ProjectOffers, FailureOffers, ManagersOps, Actor
    <3>5. Accepts(op, "project_manager", srv)
      <4>1. CASE op = "publish"
        <5>1. srv.status = "draft"
          BY <3>2, <3>3, <4>1 DEF ProjectOffers, FailureOffers
        <5> QED BY <2>1, <4>1, <5>1, AcceptsIs, AllowedIs, TargetIs
      <4>2. CASE op = "open"
        <5>1. srv.status = "delivered"
          BY <3>2, <3>3, <4>2 DEF ProjectOffers, FailureOffers
        <5> QED BY <2>1, <4>2, <5>1, AcceptsIs, AllowedIs, TargetIs
      <4>3. CASE op \in {"approve", "revise"}
        <5>1. srv.status = "in_review"
          BY <3>2, <3>3, <4>3 DEF ProjectOffers, FailureOffers
        <5> QED BY <2>1, <4>3, <5>1, AcceptsIs, AllowedIs, TargetIs
      <4>4. CASE op = "withdraw"
        <5>1. srv.status = "claimed"
          BY <3>2, <3>3, <4>4 DEF ProjectOffers, FailureOffers
        <5> QED BY <2>1, <4>4, <5>1, AcceptsIs, AllowedIs, TargetIs
      <4>5. CASE op = "archive"
        <5>1. srv.status = "completed"
          BY <3>2, <3>3, <4>5 DEF ProjectOffers, FailureOffers
        <5> QED BY <2>1, <4>5, <5>1, AcceptsIs, AllowedIs, TargetIs
      <4>6. CASE op = "cancel"
        <5>1. srv.status \in {"draft", "available"}
          BY <3>2, <3>3, <4>6 DEF ProjectOffers, FailureOffers
        <5> QED BY <2>1, <4>6, <5>1, AcceptsIs, AllowedIs, TargetIs
      <4>7. CASE op = "delete"
        <5>1. srv.asg = "none" /\ srv.status \in {"draft", "available", "cancelled"}
          BY <3>2, <3>3, <4>7 DEF ProjectOffers, FailureOffers
        <5> QED BY <2>1, <4>7, <5>1, AcceptsIs
      <4>8. CASE op = "retry"
        <5>1. srv.status = "approved"
          BY <3>2, <3>3, <4>8 DEF ProjectOffers, FailureOffers
        <5> QED BY <2>1, <4>8, <5>1, AcceptsIs
      <4> QED BY <3>4, <4>1, <4>2, <4>3, <4>4, <4>5, <4>6, <4>7, <4>8 DEF ManagersOps
    <3> QED BY <3>4, <3>5 DEF Handled
  <2>4. CASE page = "portal"
    <3>1. Shows("queue", QueueView(srv)) /\ Shows("mine", MineView(srv)) /\ Actor = "translator"
      BY <1>1, <2>1, <2>4 DEF View, Actor
    <3>2. op \in QueueOffers \union CurrentOffers \union DeliveryOffers
      BY <1>1, <2>4 DEF Offers
    <3>3. \A q, v, w : Shows(q, v) /\ Shows(q, w) => v = w
      BY DEF Shows
    <3>4. CASE op \in QueueOffers
      <4>1. op = "claim" /\ QueueView(srv) = TRUE
        BY <3>1, <3>3, <3>4 DEF QueueOffers
      <4>2. srv.status = "available"
        BY <4>1 DEF QueueView
      <4>3. Accepts("claim", "translator", srv)
        BY <2>1, <4>1, <4>2, AcceptsIs, AllowedIs, TargetIs
      <4> QED BY <3>1, <4>1, <4>3 DEF Handled
    <3>5. CASE op \in CurrentOffers
      <4>1. op = "deliver" /\ MineView(srv) = "current"
        BY <3>1, <3>3, <3>5 DEF CurrentOffers
      <4>2. HasWork(srv)
        BY <4>1 DEF MineView
      <4>3. srv.status \in {"claimed", "cancelled", "revision_requested"}
        BY <2>1, <4>2 DEF HasWork, RowSound
      <4>4. srv.status # "cancelled" => Accepts("deliver", "translator", srv)
        BY <2>1, <4>1, <4>3, AcceptsIs, AllowedIs, TargetIs
      <4> QED BY <3>1, <4>1, <4>2, <4>4 DEF Handled
    <3>6. CASE op \in DeliveryOffers
      <4>1. op = "amend" /\ MineView(srv) = "delivery"
        BY <3>1, <3>3, <3>6 DEF DeliveryOffers
      <4>2. srv.mine /\ srv.status = "delivered"
        BY <4>1 DEF MineView
      <4>3. Accepts("amend", "translator", srv)
        BY <2>1, <4>1, <4>2, AcceptsIs
      <4> QED BY <3>1, <4>1, <4>2, <4>3 DEF Handled
    <3> QED BY <3>2, <3>4, <3>5, <3>6
  <2> QED BY <2>1, <2>2, <2>3, <2>4
<1>2. ScreensInv => OffersAreHonest
  BY <1>1 DEF OffersAreHonest
<1> QED BY <1>2, ScreensInvariance, PTL
=============================================================================
