---------------------------- MODULE PortalProofs ----------------------------
(***************************************************************************)
(* For any users, requests in flight, retry limit and number of faults: no *)
(* user is locked without cause, a link to reset a password works once, no *)
(* browser is thrown out, and whoever has to set up his account has a link *)
(* to it, however the steps of the requests overlap.                       *)
(***************************************************************************)
EXTENDS Portal, FiniteSetTheorems, TLAPS

-----------------------------------------------------------------------------
(* The inductive invariant.                                                  *)

(* What may be left of the plan of a request. *)
Rest(kind) ==
  CASE kind = "invite" ->
         {<<"read", "insert", "revoke", "create", "mail">>, <<"insert", "revoke", "create", "mail">>,
          <<"revoke", "create", "mail">>, <<"create", "mail">>, <<"mail">>, <<>>}
    [] kind = "resend" ->
         {<<"read", "revoke", "revoke", "create", "mail">>, <<"revoke", "revoke", "create", "mail">>,
          <<"revoke", "create", "mail">>, <<"create", "mail">>, <<"mail">>, <<>>}
    [] kind = "reset_otp" ->
         {<<"read", "clear", "revoke", "create", "mail">>, <<"clear", "revoke", "create", "mail">>,
          <<"revoke", "create", "mail">>, <<"create", "mail">>, <<"mail">>, <<>>}
    [] kind = "forgot" ->
         {<<"read", "revoke", "create", "mail">>, <<"revoke", "create", "mail">>,
          <<"create", "mail">>, <<"mail">>, <<>>}
    [] kind = "reset_password" ->
         {<<"consume", "read", "password">>, <<"read", "password">>, <<"password">>, <<>>}
    [] kind = "verify" ->
         {<<"verify", "read", "show">>, <<"read", "show">>, <<"show">>, <<>>}
    [] kind = "complete" ->
         {<<"verify", "read", "activate", "drop">>, <<"read", "activate", "drop">>,
          <<"activate", "drop">>, <<"drop">>, <<>>}
    [] kind \in {"block", "unblock"} -> {<<"read", "status">>, <<"status">>, <<>>}
    [] kind = "wrong_password" ->
         {<<"read", "mark", "count", "recount">>, <<"mark", "count", "recount">>,
          <<"count", "recount">>, <<"recount">>, <<>>}
    [] kind = "password" ->
         {<<"read", "mark", "setmark">>, <<"mark", "setmark">>, <<"setmark">>, <<>>}
    [] kind = "otp" ->
         {<<"read", "mark", "unmark", "create">>, <<"mark", "unmark", "create">>,
          <<"unmark", "create">>, <<"create">>, <<>>}
    [] kind = "call"    -> {<<"verify">>, <<>>}
    [] kind = "refresh" -> {<<"verify", "create">>, <<"create">>, <<>>}

Steps ==
  /\ todo \in [Process -> UNION {Rest(kind) : kind \in Kind}]
  /\ \A p \in Process :
       IF req[p] = None THEN todo[p] = <<>> ELSE todo[p] \in Rest(req[p].kind)

(* The token a request creates is new, and the mail follows it. *)
BeforeIssue ==
  {<<"read", "insert", "revoke", "create", "mail">>,
   <<"insert", "revoke", "create", "mail">>,
   <<"read", "revoke", "revoke", "create", "mail">>,
   <<"revoke", "revoke", "create", "mail">>,
   <<"read", "clear", "revoke", "create", "mail">>,
   <<"clear", "revoke", "create", "mail">>, <<"read", "revoke", "create", "mail">>,
   <<"revoke", "create", "mail">>, <<"create", "mail">>,
   <<"read", "mark", "unmark", "create">>, <<"mark", "unmark", "create">>,
   <<"unmark", "create">>, <<"verify", "create">>, <<"create">>}
Unissued(p) == todo[p] \in BeforeIssue
Issues(t, u) == tokens[t] # None /\ tokens[t].user = u
Issued ==
  \A p \in Process :
    /\ req[p] = None \/ Unissued(p) => tokens[p] = None
    /\ todo[p] = <<"mail">> => Issues(p, req[p].user)

(* Links are received and sent by the users they were issued to. *)
Links ==
  /\ \A u \in User : \A t \in inbox[u] : Issues(t, u)
  /\ \A m \in mail : Issues(m.token, m.user)
  /\ \A p \in Process :
       req[p] # None /\ req[p].kind \in LinkKinds =>
         /\ req[p].token \in Token
         /\ Issues(req[p].token, req[p].user)
         /\ tokens[req[p].token].type \in Accepts(req[p].kind)

(* A session that a browser holds or a call brings is live until it expires. *)
Lasts(t) ==
  /\ t \in Token /\ tokens[t] # None
  /\ tokens[t].type = "session" /\ (tokens[t].live \/ t \in expired)
SessionsLast ==
  /\ \A u \in User : cookie[u] # None => Lasts(cookie[u])
  /\ \A p \in Process : req[p] # None /\ req[p].kind \in SessionKinds => Lasts(req[p].token)

(* A password is set before or with the authenticator, and neither without a row. *)
SetUpInOrder ==
  \A u \in User :
    /\ user[u].status = "absent" => user[u].password = None
    /\ user[u].password = None => user[u].key = None

(* What a request has read still holds as far as it relies on it. *)
RowRead(p) ==
  LET r == req[p]  now == user[r.user] IN
  /\ r # None /\ r.row # None =>
       /\ r.row.password # None => now.password # None
       /\ r.row.key # None => r.row.password # None
  /\ \/ todo[p] = <<"password">>
     \/ /\ todo[p] # <<>> /\ Head(todo[p]) # "read"
        /\ r.kind \in SignInKinds \cup {"block", "unblock"}
     => now.password # None
  /\ todo[p] = <<"activate", "drop">> => r.row # None /\ (r.row.key = None => r.secret # None)
RowsRead == \A p \in Process : RowRead(p)

(* A link that has been consumed sets one password, or will. *)
Resetting(p) == todo[p] \in {<<"read", "password">>, <<"password">>}
ResetsCounted ==
  /\ \A p \in Process : Resetting(p) => ~tokens[req[p].token].live /\ resets[req[p].token] = 0
  /\ \A p, q \in Process : Resetting(p) /\ Resetting(q) /\ req[p].token = req[q].token => p = q
  /\ \A t \in Token : resets[t] # 0 => resets[t] = 1 /\ tokens[t] # None /\ ~tokens[t].live

(* The wrong passwords that are being counted are not in the count yet. *)
Counting(u) ==
  {p \in Process : todo[p] \in {<<"count", "recount">>, <<"recount">>} /\ req[p].user = u}
CountBounded(u) ==
  LET n == Cardinality(Counting(u)) IN
  /\ IsFiniteSet(Counting(u))
  /\ n <= wrongs[u]
  /\ retry[u] + n <= wrongs[u] + 1
  /\ \A p \in Counting(u) : todo[p] = <<"recount">> => req[p].count + n <= wrongs[u] + 1
  /\ user[u].status = "locked" => wrongs[u] >= RetryLimit
CountsBounded == \A u \in User : CountBounded(u)

(* A set-up that leaves the authenticator as it is drops its link: it is not this link
   that a user without one relies on, but another, or one that is certain to come. *)
Stale(p) ==
  \/ todo[p] = <<"activate", "drop">> /\ req[p].row.key # None
  \/ todo[p] = <<"drop">>
Firm(p) ==
  /\ todo[p] \in {<<"clear", "revoke", "create", "mail">>, <<"revoke", "revoke", "create", "mail">>,
                  <<"revoke", "create", "mail">>, <<"create", "mail">>}
  /\ req[p].kind \in {"invite", "resend", "reset_otp"}
Fresh(t) ==
  /\ tokens[t].live /\ tokens[t].type \in {"invite", "otp_reset"}
  /\ \A p \in Process : Stale(p) => req[p].token # t
LinksKept ==
  faults = 0 =>
    \A u \in User :
      user[u].key = None /\ user[u].status # "absent" =>
        \/ \E t \in Token : Issues(t, u) /\ Fresh(t)
        \/ \E p \in Process : req[p] # None /\ req[p].user = u /\ Firm(p)

Core == TypeOK /\ Steps /\ SetUpInOrder /\ RowsRead
IInv == Core /\ Issued /\ Links /\ SessionsLast /\ ResetsCounted /\ CountsBounded /\ LinksKept
-----------------------------------------------------------------------------
(* Lemmas about the plans.                                                   *)

(* The kinds of requests, one by one. *)
LEMMA KindIs ==
  Kind = {"invite", "resend", "reset_otp", "block", "unblock", "verify", "complete",
          "reset_password", "wrong_password", "password", "otp", "call", "refresh", "forgot"}
  BY DEF Kind, AdminKinds, LinkKinds, SignInKinds, SessionKinds

(* A request starts with its whole plan. *)
LEMMA PlanIsRest ==
  ASSUME NEW kind \in Kind
  PROVE  Plan(kind) \in Rest(kind)
  BY KindIs DEF Plan, Rest, InviteTeamMember, ResendInvite, ResetUserOtp, ForgotPassword,
                ResetPassword, VerifySetup, CompleteUserSetup, BlockOrUnblock, WrongPassword,
                RightPassword, OneTimePassword, GuardedCall, GuardedRefresh

(* The tail of a short sequence. *)
LEMMA Tail1 == ASSUME NEW a, NEW s, s = <<a>> PROVE Tail(s) = <<>>
  OBVIOUS

(* The tail of two steps. *)
LEMMA Tail2 == ASSUME NEW a, NEW b, NEW s, s = <<a, b>> PROVE Tail(s) = <<b>>
  OBVIOUS

(* The tail of three steps. *)
LEMMA Tail3 == ASSUME NEW a, NEW b, NEW c, NEW s, s = <<a, b, c>> PROVE Tail(s) = <<b, c>>
  OBVIOUS

(* The tail of four steps. *)
LEMMA Tail4 ==
  ASSUME NEW a, NEW b, NEW c, NEW d, NEW s, s = <<a, b, c, d>> PROVE Tail(s) = <<b, c, d>>
  OBVIOUS

(* The tail of five steps. *)
LEMMA Tail5 ==
  ASSUME NEW a, NEW b, NEW c, NEW d, NEW e, NEW s, s = <<a, b, c, d, e>>
  PROVE  Tail(s) = <<b, c, d, e>>
  OBVIOUS

(* What comes after each step of a plan. *)
LEMMA TailIs ==
  ASSUME NEW s
  PROVE  /\ s = <<"read", "insert", "revoke", "create", "mail">> =>
              Tail(s) = <<"insert", "revoke", "create", "mail">>
         /\ s = <<"insert", "revoke", "create", "mail">> => Tail(s) = <<"revoke", "create", "mail">>
         /\ s = <<"read", "revoke", "revoke", "create", "mail">> =>
              Tail(s) = <<"revoke", "revoke", "create", "mail">>
         /\ s = <<"revoke", "revoke", "create", "mail">> => Tail(s) = <<"revoke", "create", "mail">>
         /\ s = <<"read", "clear", "revoke", "create", "mail">> =>
              Tail(s) = <<"clear", "revoke", "create", "mail">>
         /\ s = <<"clear", "revoke", "create", "mail">> => Tail(s) = <<"revoke", "create", "mail">>
         /\ s = <<"read", "revoke", "create", "mail">> => Tail(s) = <<"revoke", "create", "mail">>
         /\ s = <<"revoke", "create", "mail">> => Tail(s) = <<"create", "mail">>
         /\ s = <<"create", "mail">> => Tail(s) = <<"mail">>
         /\ s = <<"consume", "read", "password">> => Tail(s) = <<"read", "password">>
         /\ s = <<"read", "password">> => Tail(s) = <<"password">>
         /\ s = <<"verify", "read", "show">> => Tail(s) = <<"read", "show">>
         /\ s = <<"read", "show">> => Tail(s) = <<"show">>
         /\ s = <<"verify", "read", "activate", "drop">> => Tail(s) = <<"read", "activate", "drop">>
         /\ s = <<"read", "activate", "drop">> => Tail(s) = <<"activate", "drop">>
         /\ s = <<"activate", "drop">> => Tail(s) = <<"drop">>
         /\ s = <<"read", "status">> => Tail(s) = <<"status">>
         /\ s = <<"read", "mark", "count", "recount">> => Tail(s) = <<"mark", "count", "recount">>
         /\ s = <<"mark", "count", "recount">> => Tail(s) = <<"count", "recount">>
         /\ s = <<"count", "recount">> => Tail(s) = <<"recount">>
         /\ s = <<"read", "mark", "setmark">> => Tail(s) = <<"mark", "setmark">>
         /\ s = <<"mark", "setmark">> => Tail(s) = <<"setmark">>
         /\ s = <<"read", "mark", "unmark", "create">> => Tail(s) = <<"mark", "unmark", "create">>
         /\ s = <<"mark", "unmark", "create">> => Tail(s) = <<"unmark", "create">>
         /\ s = <<"unmark", "create">> => Tail(s) = <<"create">>
         /\ s = <<"verify", "create">> => Tail(s) = <<"create">>
         /\ \A x : s = <<x>> => Tail(s) = <<>>
  <1>1. \A x : s = <<x>> => Tail(s) = <<>>
    BY Tail1
  <1>2. /\ s = <<"create", "mail">> => Tail(s) = <<"mail">>
        /\ s = <<"read", "password">> => Tail(s) = <<"password">>
        /\ s = <<"read", "show">> => Tail(s) = <<"show">>
        /\ s = <<"activate", "drop">> => Tail(s) = <<"drop">>
        /\ s = <<"read", "status">> => Tail(s) = <<"status">>
        /\ s = <<"count", "recount">> => Tail(s) = <<"recount">>
        /\ s = <<"mark", "setmark">> => Tail(s) = <<"setmark">>
        /\ s = <<"unmark", "create">> => Tail(s) = <<"create">>
        /\ s = <<"verify", "create">> => Tail(s) = <<"create">>
    BY Tail2
  <1>3. /\ s = <<"revoke", "create", "mail">> => Tail(s) = <<"create", "mail">>
        /\ s = <<"consume", "read", "password">> => Tail(s) = <<"read", "password">>
        /\ s = <<"verify", "read", "show">> => Tail(s) = <<"read", "show">>
        /\ s = <<"read", "activate", "drop">> => Tail(s) = <<"activate", "drop">>
        /\ s = <<"mark", "count", "recount">> => Tail(s) = <<"count", "recount">>
        /\ s = <<"read", "mark", "setmark">> => Tail(s) = <<"mark", "setmark">>
        /\ s = <<"mark", "unmark", "create">> => Tail(s) = <<"unmark", "create">>
    BY Tail3
  <1>4. /\ s = <<"insert", "revoke", "create", "mail">> => Tail(s) = <<"revoke", "create", "mail">>
        /\ s = <<"revoke", "revoke", "create", "mail">> => Tail(s) = <<"revoke", "create", "mail">>
        /\ s = <<"clear", "revoke", "create", "mail">> => Tail(s) = <<"revoke", "create", "mail">>
        /\ s = <<"read", "revoke", "create", "mail">> => Tail(s) = <<"revoke", "create", "mail">>
        /\ s = <<"verify", "read", "activate", "drop">> => Tail(s) = <<"read", "activate", "drop">>
        /\ s = <<"read", "mark", "count", "recount">> => Tail(s) = <<"mark", "count", "recount">>
        /\ s = <<"read", "mark", "unmark", "create">> => Tail(s) = <<"mark", "unmark", "create">>
    BY Tail4
  <1>5. /\ s = <<"read", "insert", "revoke", "create", "mail">> =>
             Tail(s) = <<"insert", "revoke", "create", "mail">>
        /\ s = <<"read", "revoke", "revoke", "create", "mail">> =>
             Tail(s) = <<"revoke", "revoke", "create", "mail">>
        /\ s = <<"read", "clear", "revoke", "create", "mail">> =>
             Tail(s) = <<"clear", "revoke", "create", "mail">>
    BY Tail5
  <1> QED
    BY <1>1, <1>2, <1>3, <1>4, <1>5

(* A request that goes on stays in its plan. *)
LEMMA TailIsRest ==
  ASSUME NEW kind \in Kind, NEW s \in Rest(kind), s # <<>>
  PROVE  Tail(s) \in Rest(kind)
  BY TailIs DEF Rest, Kind, AdminKinds, LinkKinds, SignInKinds, SessionKinds

(* What is left when a step comes up, and who takes it. *)
LEMMA HeadIs ==
  ASSUME NEW kind \in Kind, NEW s \in Rest(kind), s # <<>>
  PROVE  /\ Head(s) = "insert" =>
              kind = "invite" /\ s = <<"insert", "revoke", "create", "mail">>
         /\ Head(s) = "clear" =>
              kind = "reset_otp" /\ s = <<"clear", "revoke", "create", "mail">>
         /\ Head(s) = "revoke" =>
              /\ kind \in {"invite", "resend", "reset_otp", "forgot"}
              /\ \/ s = <<"revoke", "create", "mail">>
                 \/ s = <<"revoke", "revoke", "create", "mail">>
         /\ Head(s) = "create" =>
              \/ kind \in {"invite", "resend", "reset_otp", "forgot"} /\ s = <<"create", "mail">>
              \/ kind \in {"otp", "refresh"} /\ s = <<"create">>
         /\ Head(s) = "mail" =>
              kind \in {"invite", "resend", "reset_otp", "forgot"} /\ s = <<"mail">>
         /\ Head(s) = "consume" =>
              kind = "reset_password" /\ s = <<"consume", "read", "password">>
         /\ Head(s) = "password" => kind = "reset_password" /\ s = <<"password">>
         /\ Head(s) = "show" => kind = "verify" /\ s = <<"show">>
         /\ Head(s) = "activate" => kind = "complete" /\ s = <<"activate", "drop">>
         /\ Head(s) = "drop" => kind = "complete" /\ s = <<"drop">>
         /\ Head(s) = "status" => kind \in {"block", "unblock"} /\ s = <<"status">>
         /\ Head(s) = "count" => kind = "wrong_password" /\ s = <<"count", "recount">>
         /\ Head(s) = "recount" => kind = "wrong_password" /\ s = <<"recount">>
         /\ Head(s) = "setmark" => kind = "password" /\ s = <<"setmark">>
         /\ Head(s) = "unmark" => kind = "otp" /\ s = <<"unmark", "create">>
         /\ Head(s) = "mark" =>
              \/ kind = "wrong_password" /\ s = <<"mark", "count", "recount">>
              \/ kind = "password" /\ s = <<"mark", "setmark">>
              \/ kind = "otp" /\ s = <<"mark", "unmark", "create">>
         /\ Head(s) = "verify" =>
              \/ kind = "verify" /\ s = <<"verify", "read", "show">>
              \/ kind = "complete" /\ s = <<"verify", "read", "activate", "drop">>
              \/ kind = "call" /\ s = <<"verify">>
              \/ kind = "refresh" /\ s = <<"verify", "create">>
  BY DEF Rest, Kind, AdminKinds, LinkKinds, SignInKinds, SessionKinds

-----------------------------------------------------------------------------
(* What a step of a request leaves of the requests.                          *)
Own(p) == UserSteps(p) \/ TokenSteps(p) \/ SignInSteps(p) \/ SendMail(p) \/ Crash(p)

(* A request with something to do is one that was asked, and has the rest of its plan. *)
LEMMA Busy ==
  ASSUME TypeOK, Steps, NEW p \in Process, todo[p] # <<>>
  PROVE  /\ req[p] # None /\ req[p] \in RequestRecord
         /\ req[p].kind \in Kind /\ req[p].user \in User
         /\ todo[p] \in Rest(req[p].kind)
  BY DEF TypeOK, Steps, RequestRecord

(* A request that brings a link or a session brings one that was issued. *)
LEMMA Brought ==
  ASSUME IInv, NEW p \in Process, req[p] # None, req[p].kind \in LinkKinds \cup SessionKinds
  PROVE  /\ req[p].token \in Token /\ tokens[req[p].token] \in TokenRecord
         /\ tokens[req[p].token] # None
  BY DEF IInv, Core, Links, SessionsLast, Lasts, Issues, TypeOK

(* What a request has read is well formed. *)
LEMMA ReadType ==
  ASSUME IInv, NEW p \in Process, Read(p) \/ Verify(p) \/ ReadCount(p)
  PROVE  /\ todo[p] # <<>> /\ (Proceed(p) \/ Finish(p))
         /\ \/ req' = req
            \/ \E row \in UserRow : req' = [req EXCEPT ![p].row = row]
            \/ \E secret \in Secret \cup {None} : req' = [req EXCEPT ![p].secret = secret]
            \/ \E count \in Nat : req' = [req EXCEPT ![p].count = count]
  <1> USE DEF IInv, Core, At
  <1>1. CASE Read(p)
    <2>1. user[req[p].user] \in UserRow
      BY <1>1, Busy DEF Read, TypeOK
    <2> QED
      BY <1>1, <2>1 DEF Read
  <1>2. CASE Verify(p)
    <2>1. req[p] # None /\ req[p].kind \in LinkKinds \cup SessionKinds
      BY <1>2, Busy, HeadIs DEF Verify, LinkKinds, SessionKinds
    <2>2. tokens[req[p].token].secret \in Secret \cup {None}
      BY <2>1, Brought DEF TokenRecord
    <2> QED
      BY <1>2, <2>2 DEF Verify
  <1>3. CASE ReadCount(p)
    <2>1. Count(req[p].user) \in Nat
      BY <1>3, Busy DEF ReadCount, TypeOK, Count
    <2> QED
      BY <1>3, <2>1 DEF ReadCount
  <1> QED
    BY <1>1, <1>2, <1>3

(* A request that is made asks for something that may be asked for, and sends a link it
   has received, the session of its browser, or nothing. *)
LEMMA Started ==
  ASSUME IInv, NEW p \in Process, NEW r \in Request, Start(p, r)
  PROVE  /\ req[p] = None /\ req'[p] # None /\ req'[p] \in RequestRecord
         /\ \A q \in Process : q # p => req'[q] = req[q]
         /\ req' \in [Process -> RequestRecord \cup {None}]
         /\ req'[p].kind = r.kind /\ r.kind \in Kind
         /\ req'[p].user = r.user /\ r.user \in User
         /\ req'[p].token \in Sendable(r.kind, r.user)
         /\ req'[p].row = None
  <1> USE DEF IInv, Core
  <1>1. r.kind \in Kind /\ r.user \in User
    BY PortalAssumption
  <1>2. PICK t \in Sendable(r.kind, r.user), c \in Codes(r.kind, r.user) :
          req' = [req EXCEPT ![p] = [kind |-> r.kind, user |-> r.user, token |-> t, code |-> c,
                                     row |-> None, secret |-> None, count |-> 0]]
    BY <1>1, Zenon DEF Start
  <1>3. t \in Token \cup {None} /\ c \in Secret \cup {None}
    BY <1>1 DEF Sendable, Codes, TypeOK
  <1>4. req'[p] \in RequestRecord
    BY <1>1, <1>2, <1>3 DEF TypeOK, RequestRecord
  <1>5. req'[p] # None
    BY <1>4, PortalAssumption
  <1> QED
    BY <1>1, <1>2, <1>4, <1>5 DEF Start, TypeOK

(* A step of a request goes on in its plan or ends it. It keeps what the request asks
   for, and leaves the other requests alone. *)
LEMMA OwnStep ==
  ASSUME IInv, NEW p \in Process, Own(p)
  PROVE  /\ todo[p] # <<>>
         /\ Proceed(p) \/ Finish(p)
         /\ req' \in [Process -> RequestRecord \cup {None}]
         /\ \A q \in Process : q # p => req'[q] = req[q]
         /\ req'[p] # None
         /\ req'[p].kind = req[p].kind /\ req'[p].user = req[p].user
         /\ req'[p].token = req[p].token /\ req'[p].code = req[p].code
  <1> USE DEF IInv, Core
  <1>1. /\ todo[p] # <<>> /\ (Proceed(p) \/ Finish(p))
        /\ Read(p) \/ Verify(p) \/ ReadCount(p) \/ req' = req
    <2>1. CASE UserSteps(p)
      BY <2>1 DEF UserSteps, Read, Insert, ClearKey, Activate, SetStatus, SetPassword, At
    <2>2. CASE TokenSteps(p)
      BY <2>2 DEF TokenSteps, Verify, Consume, Drop, Revoke, Create, Show, At
    <2>3. CASE SignInSteps(p)
      BY <2>3 DEF SignInSteps, CheckMark, SetMark, ReadCount, Recount, At
    <2>4. CASE SendMail(p) \/ Crash(p)
      BY <2>4 DEF SendMail, Crash, At
    <2> QED
      BY <2>1, <2>2, <2>3, <2>4 DEF Own
  <1>2. req[p] # None /\ req[p] \in RequestRecord /\ req \in [Process -> RequestRecord \cup {None}]
    BY <1>1, Busy DEF TypeOK
  <1> DEFINE Same ==
        /\ req' \in [Process -> RequestRecord \cup {None}] /\ req'[p] \in RequestRecord
        /\ \A q \in Process : q # p => req'[q] = req[q]
        /\ req'[p].kind = req[p].kind /\ req'[p].user = req[p].user
        /\ req'[p].token = req[p].token /\ req'[p].code = req[p].code
  <1>3. ASSUME req' = req
        PROVE  Same
    BY <1>2, <1>3
  <1>4. ASSUME NEW row \in UserRow, req' = [req EXCEPT ![p].row = row]
        PROVE  Same
    BY <1>2, <1>4 DEF RequestRecord
  <1>5. ASSUME NEW secret \in Secret \cup {None}, req' = [req EXCEPT ![p].secret = secret]
        PROVE  Same
    BY <1>2, <1>5 DEF RequestRecord
  <1>6. ASSUME NEW count \in Nat, req' = [req EXCEPT ![p].count = count]
        PROVE  Same
    BY <1>2, <1>6 DEF RequestRecord
  <1>7. Same
    BY <1>1, <1>3, <1>4, <1>5, <1>6, ReadType
  <1>8. req'[p] # None
    BY <1>7, PortalAssumption
  <1> QED
    BY <1>1, <1>7, <1>8

(* The plans are kept. *)
LEMMA NextSteps ==
  ASSUME IInv, [Next]_vars
  PROVE  Steps'
  <1> USE DEF IInv, Core
  <1>1. ASSUME NEW p \in Process, NEW r \in Request, Start(p, r)
        PROVE  Steps'
    <2>1. Plan(req'[p].kind) \in Rest(req'[p].kind) /\ req'[p].kind = r.kind /\ r.kind \in Kind
      BY <1>1, Started, PlanIsRest
    <2>2. todo' = [todo EXCEPT ![p] = Plan(r.kind)] /\ todo \in [Process -> UNION {Rest(kind) : kind \in Kind}]
      BY <1>1 DEF Start, Steps
    <2>3. todo' \in [Process -> UNION {Rest(kind) : kind \in Kind}]
      BY <2>1, <2>2
    <2>4. ASSUME NEW q \in Process
          PROVE  IF req'[q] = None THEN todo'[q] = <<>> ELSE todo'[q] \in Rest(req'[q].kind)
      BY <1>1, <2>1, <2>2, Started DEF Steps
    <2> QED
      BY <2>3, <2>4 DEF Steps
  <1>2. ASSUME NEW p \in Process, Own(p)
        PROVE  Steps'
    <2>1. todo[p] \in Rest(req[p].kind) /\ req[p].kind \in Kind /\ req[p] # None
      BY <1>2, OwnStep, Busy
    <2>2. Tail(todo[p]) \in Rest(req[p].kind)
      BY <1>2, <2>1, OwnStep, TailIsRest
    <2>3. <<>> \in Rest(req[p].kind)
      BY <2>1 DEF Rest, Kind, AdminKinds, LinkKinds, SignInKinds, SessionKinds
    <2>4. /\ todo' = [todo EXCEPT ![p] = Tail(todo[p])] \/ todo' = [todo EXCEPT ![p] = <<>>]
          /\ todo \in [Process -> UNION {Rest(kind) : kind \in Kind}]
      BY <1>2, OwnStep DEF Steps, Proceed, Finish
    <2>5. todo' \in [Process -> UNION {Rest(kind) : kind \in Kind}]
      BY <2>1, <2>2, <2>3, <2>4
    <2>6. ASSUME NEW q \in Process
          PROVE  IF req'[q] = None THEN todo'[q] = <<>> ELSE todo'[q] \in Rest(req'[q].kind)
      BY <1>2, <2>1, <2>2, <2>3, <2>4, OwnStep DEF Steps
    <2> QED
      BY <2>5, <2>6 DEF Steps
  <1>3. CASE UNCHANGED <<req, todo>>
    BY <1>3 DEF Steps
  <1> QED
    BY <1>1, <1>2, <1>3 DEF Next, Own, Deliver, MailFails, LogOut, CacheExpires, TokenExpires,
       NextWindow, vars

-----------------------------------------------------------------------------
(* Which steps move what.                                                    *)

(* A step is one of a request, or nobody's. *)
LEMMA NextIs ==
  ASSUME [Next]_vars
  PROVE  \/ \E p \in Process : (\E r \in Request : Start(p, r)) \/ Own(p)
         \/ \E m \in mail : Deliver(m) \/ MailFails(m)
         \/ \E u \in User : LogOut(u) \/ CacheExpires(u)
         \/ \E t \in Token : TokenExpires(t)
         \/ NextWindow \/ UNCHANGED vars
  BY DEF Next, Own

(* The steps that write users. *)
WritesUser(p) ==
  Insert(p) \/ ClearKey(p) \/ Activate(p) \/ SetStatus(p) \/ SetPassword(p) \/ Recount(p)

(* Users move by these steps only. *)
LEMMA UserMoves ==
  ASSUME [Next]_vars
  PROVE  user' = user \/ \E p \in Process : WritesUser(p)
  <1>1. ASSUME NEW p \in Process, Own(p)
        PROVE  user' = user \/ WritesUser(p)
    BY <1>1 DEF Own, WritesUser, UserSteps, TokenSteps, SignInSteps, Read, Verify, Consume, Drop,
       Revoke, Create, Show, CheckMark, SetMark, ReadCount, SendMail, Crash, SetTokens, stores
  <1>2. ASSUME NEW p \in Process, NEW r \in Request, Start(p, r)
        PROVE  user' = user
    BY <1>2 DEF Start, stores
  <1> QED
    BY <1>1, <1>2, NextIs DEF Deliver, MailFails, LogOut, CacheExpires, TokenExpires, NextWindow,
       SetTokens, stores, vars

(* The steps that write links and sessions. *)
WritesTokens(p) == Consume(p) \/ Drop(p) \/ Revoke(p) \/ Create(p) \/ Show(p)

(* Links and sessions move by these steps, and when their time runs out. *)
LEMMA TokenMoves ==
  ASSUME [Next]_vars
  PROVE  \/ tokens' = tokens
         \/ \E p \in Process : WritesTokens(p)
         \/ \E t \in Token : TokenExpires(t)
  <1>1. ASSUME NEW p \in Process, Own(p)
        PROVE  tokens' = tokens \/ WritesTokens(p)
    BY <1>1 DEF Own, WritesTokens, UserSteps, TokenSteps, SignInSteps, Read, Insert, ClearKey,
       Activate, SetStatus, SetPassword, Verify, CheckMark, SetMark, ReadCount, Recount, SendMail,
       Crash, SetUser, stores
  <1>2. ASSUME NEW p \in Process, NEW r \in Request, Start(p, r)
        PROVE  tokens' = tokens
    BY <1>2 DEF Start, stores
  <1> QED
    BY <1>1, <1>2, NextIs DEF Deliver, MailFails, LogOut, CacheExpires, NextWindow, stores, vars

-----------------------------------------------------------------------------
(* Users.                                                                    *)

(* What a step does to a user's row: it stays well formed and in order, and a password,
   once set, stays set. *)
UserKept(u) ==
  /\ user'[u] \in UserRow
  /\ user'[u].password = None => user'[u].status \in {"absent", "pending"} /\ user'[u].key = None
  /\ user'[u].status = "absent" => user'[u].password = None
  /\ user[u].password # None => user'[u].password # None
  /\ user[u].status # "absent" => user'[u].status # "absent"

(* Every step does so to every user. *)
LEMMA NextUsers ==
  ASSUME IInv, [Next]_vars
  PROVE  /\ user' \in [User -> UserRow]
         /\ \A u \in User : UserKept(u)
  <1> USE DEF IInv, Core
  <1>1. \A u \in User : user'[u] = user[u] => UserKept(u)
    BY DEF UserKept, TypeOK, SetUpInOrder
  <1>2. ASSUME NEW p \in Process, WritesUser(p)
        PROVE  /\ todo[p] # <<>> /\ req[p] # None /\ req[p] \in RequestRecord
               /\ req[p].kind \in Kind /\ req[p].user \in User
               /\ todo[p] \in Rest(req[p].kind)
    BY <1>2, Busy DEF WritesUser, Insert, ClearKey, Activate, SetStatus, SetPassword, Recount, At
  <1>3. ASSUME NEW p \in Process, NEW row, row \in UserRow, SetUser(req[p].user, row), WritesUser(p)
        PROVE  /\ user' \in [User -> UserRow] /\ user'[req[p].user] = row
               /\ \A u \in User : u # req[p].user => user'[u] = user[u]
    BY <1>2, <1>3 DEF SetUser, TypeOK
  <1>4. ASSUME NEW p \in Process, Insert(p)
        PROVE  user' \in [User -> UserRow] /\ \A u \in User : UserKept(u)
    <2>1. CASE user' = user
      BY <1>1, <2>1 DEF TypeOK
    <2>2. CASE user' # user
      <3>1. /\ SetUser(req[p].user, [status |-> "pending", password |-> None, key |-> None])
            /\ user[req[p].user].status = "absent"
        BY <1>4, <2>2 DEF Insert, stores
      <3>2. [status |-> "pending", password |-> None, key |-> None] \in UserRow
        BY DEF UserRow, UserStatus
      <3> QED
        BY <1>1, <1>2, <1>3, <1>4, <3>1, <3>2 DEF UserKept, WritesUser, SetUpInOrder
    <2> QED
      BY <2>1, <2>2
  <1>5. ASSUME NEW p \in Process, ClearKey(p)
        PROVE  user' \in [User -> UserRow] /\ \A u \in User : UserKept(u)
    <2>1. req[p].user \in User
      BY <1>2, <1>5 DEF WritesUser
    <2>2. [user[req[p].user] EXCEPT !.key = None] \in UserRow
      <3>1. PICK row \in UserRow : row = user[req[p].user]
        BY <2>1 DEF TypeOK
      <3>2. [row EXCEPT !.key = None] \in UserRow
        BY DEF UserRow
      <3> QED
        BY <3>1, <3>2
    <2>3. /\ user' \in [User -> UserRow]
          /\ user'[req[p].user] = [user[req[p].user] EXCEPT !.key = None]
          /\ \A u \in User : u # req[p].user => user'[u] = user[u]
      BY <1>3, <1>5, <2>2 DEF ClearKey, WritesUser
    <2>4. UserKept(req[p].user)
      BY <2>1, <2>2, <2>3 DEF UserKept, SetUpInOrder, TypeOK, UserRow
    <2> QED
      BY <1>1, <2>3, <2>4
  <1>6. ASSUME NEW p \in Process, Activate(p)
        PROVE  user' \in [User -> UserRow] /\ \A u \in User : UserKept(u)
    <2> DEFINE row == req[p].row  new == Activated(req[p], user[req[p].user], p)
    <2>1. req[p].user \in User /\ req[p] \in RequestRecord /\ user[req[p].user] \in UserRow
      BY <1>2, <1>6 DEF WritesUser, TypeOK
    <2>2. todo[p] = <<"activate", "drop">>
      BY <1>2, <1>6, HeadIs DEF WritesUser, Activate, At
    <2>3. /\ row # None /\ (row.key = None => req[p].secret # None)
          /\ row.password # None => user[req[p].user].password # None
          /\ row.key # None => row.password # None
      BY <1>2, <1>6, <2>2 DEF RowsRead, RowRead, WritesUser
    <2>4. p # None /\ p \in Secret /\ req[p].secret \in Secret \cup {None}
      BY <2>1, PortalAssumption DEF Secret, RequestRecord
    <2>5. new \in UserRow /\ new.status = "active" /\ new.password # None
      BY <2>1, <2>3, <2>4 DEF Activated, UserRow, UserStatus
    <2> QED
      BY <1>1, <1>3, <1>6, <2>1, <2>5 DEF Activate, UserKept, WritesUser
  <1>7. ASSUME NEW p \in Process, SetStatus(p)
        PROVE  user' \in [User -> UserRow] /\ \A u \in User : UserKept(u)
    <2> DEFINE status == IF req[p].kind = "block" THEN "blocked" ELSE "active"
    <2>1. req[p].user \in User /\ user[req[p].user] \in UserRow
      BY <1>2, <1>7 DEF WritesUser, TypeOK
    <2>2. todo[p] # <<>> /\ Head(todo[p]) = "status" /\ req[p].kind \in {"block", "unblock"}
      BY <1>2, <1>7, HeadIs DEF WritesUser, SetStatus, At
    <2>3. user[req[p].user].password # None
      BY <1>2, <1>7, <2>2 DEF RowsRead, RowRead, WritesUser
    <2>4. [user[req[p].user] EXCEPT !.status = status] \in UserRow
      BY <2>1 DEF UserRow, UserStatus
    <2> QED
      BY <1>1, <1>3, <1>7, <2>1, <2>3, <2>4 DEF SetStatus, UserKept, WritesUser, UserRow
  <1>8. ASSUME NEW p \in Process, SetPassword(p)
        PROVE  user' \in [User -> UserRow] /\ \A u \in User : UserKept(u)
    <2>1. req[p].user \in User /\ user[req[p].user] \in UserRow
      BY <1>2, <1>8 DEF WritesUser, TypeOK
    <2>2. p # None /\ [user[req[p].user] EXCEPT !.password = p] \in UserRow
      BY <2>1, PortalAssumption DEF UserRow, Secret
    <2>3. user[req[p].user].password # None
      <3>1. todo[p] = <<"password">>
        BY <1>2, <1>8, HeadIs DEF WritesUser, SetPassword, At
      <3> QED
        BY <3>1 DEF RowsRead, RowRead
    <2>4. /\ user' \in [User -> UserRow]
          /\ user'[req[p].user] = [user[req[p].user] EXCEPT !.password = p]
          /\ \A u \in User : u # req[p].user => user'[u] = user[u]
      BY <1>3, <1>8, <2>2 DEF SetPassword, WritesUser
    <2>5. UserKept(req[p].user)
      BY <2>1, <2>2, <2>3, <2>4 DEF UserKept, SetUpInOrder, TypeOK, UserRow
    <2> QED
      BY <1>1, <2>4, <2>5
  <1>9. ASSUME NEW p \in Process, Recount(p)
        PROVE  user' \in [User -> UserRow] /\ \A u \in User : UserKept(u)
    <2>1. CASE user' = user
      BY <1>1, <2>1 DEF TypeOK
    <2>2. CASE user' # user
      <3>1. SetUser(req[p].user, [user[req[p].user] EXCEPT !.status = "locked"])
        BY <1>9, <2>2 DEF Recount
      <3>2. req[p].user \in User /\ user[req[p].user] \in UserRow
        BY <1>2, <1>9 DEF WritesUser, TypeOK
      <3>3. todo[p] = <<"recount">> /\ req[p].kind \in SignInKinds
        BY <1>2, <1>9, HeadIs DEF WritesUser, Recount, At, SignInKinds
      <3>4. user[req[p].user].password # None
        BY <1>2, <1>9, <3>3 DEF RowsRead, RowRead, WritesUser
      <3>5. [user[req[p].user] EXCEPT !.status = "locked"] \in UserRow
        BY <3>2 DEF UserRow, UserStatus
      <3> QED
        BY <1>1, <1>3, <1>9, <3>1, <3>2, <3>4, <3>5 DEF UserKept, WritesUser, UserRow
    <2> QED
      BY <2>1, <2>2
  <1> QED
    BY <1>1, <1>4, <1>5, <1>6, <1>7, <1>8, <1>9, UserMoves DEF WritesUser, TypeOK

-----------------------------------------------------------------------------
(* Links and sessions.                                                       *)

(* What a step does to a token: once issued it stays what it is, and never comes back to
   life; it is issued by the request it is named after; a session dies of age only. *)
TokenKept(t) ==
  /\ tokens'[t] \in TokenRecord \cup {None}
  /\ tokens[t] # None =>
       /\ tokens'[t] # None
       /\ tokens'[t].type = tokens[t].type /\ tokens'[t].user = tokens[t].user
       /\ tokens'[t].live => tokens[t].live
       /\ tokens[t].type = "session" /\ tokens[t].live => tokens'[t].live \/ t \in expired'
  /\ tokens[t] = None /\ tokens'[t] # None => t \in Process /\ Create(t)

(* Every step does so to every token. *)
LEMMA NextTokens ==
  ASSUME IInv, [Next]_vars
  PROVE  /\ tokens' \in [Token -> TokenRecord \cup {None}]
         /\ \A t \in Token : TokenKept(t)
  <1> USE DEF IInv, Core
  <1>1. tokens \in [Token -> TokenRecord \cup {None}]
    BY DEF TypeOK
  <1>2. \A t \in Token : tokens'[t] = tokens[t] => TokenKept(t)
    BY <1>1 DEF TokenKept
  <1>3. ASSUME NEW p \in Process, WritesTokens(p)
        PROVE  /\ todo[p] # <<>> /\ req[p] # None /\ req[p] \in RequestRecord
               /\ req[p].kind \in Kind /\ req[p].user \in User
               /\ todo[p] \in Rest(req[p].kind)
    BY <1>3, Busy DEF WritesTokens, Consume, Drop, Revoke, Create, Show, At
  <1>4. ASSUME NEW t \in Token, tokens' = Deleted(t), tokens[t] # None,
               tokens[t].type # "session" \/ t \in expired'
        PROVE  /\ tokens' \in [Token -> TokenRecord \cup {None}]
               /\ \A k \in Token : TokenKept(k)
    <2>1. tokens'[t] = [tokens[t] EXCEPT !.live = FALSE] /\ tokens[t] \in TokenRecord
      BY <1>1, <1>4 DEF Deleted
    <2>2. tokens'[t] \in TokenRecord /\ tokens'[t].type = tokens[t].type
            /\ tokens'[t].user = tokens[t].user /\ ~tokens'[t].live
      BY <2>1 DEF TokenRecord
    <2>3. TokenKept(t)
      BY <1>4, <2>2, PortalAssumption DEF TokenKept
    <2>4. \A k \in Token : k # t => tokens'[k] = tokens[k]
      BY <1>1, <1>4 DEF Deleted
    <2> QED
      BY <1>1, <1>2, <1>4, <2>2, <2>3, <2>4 DEF Deleted
  <1>5. ASSUME NEW p \in Process, Consume(p) \/ Drop(p)
        PROVE  /\ tokens' \in [Token -> TokenRecord \cup {None}]
               /\ \A k \in Token : TokenKept(k)
    <2>1. CASE tokens' = tokens
      BY <1>1, <1>2, <2>1
    <2>2. CASE tokens' # tokens
      <3>1. req[p].kind \in LinkKinds
        BY <1>3, <1>5, HeadIs DEF WritesTokens, Consume, Drop, At, LinkKinds
      <3>2. req[p].token \in Token /\ tokens[req[p].token] # None
              /\ tokens[req[p].token].type # "session"
        BY <1>3, <1>5, <3>1 DEF WritesTokens, Links, Issues, Accepts, LinkKinds
      <3>3. tokens' = Deleted(req[p].token)
        BY <1>5, <2>2 DEF Consume, Drop, SetTokens, Consumed, stores
      <3> QED
        BY <1>4, <3>2, <3>3
    <2> QED
      BY <2>1, <2>2
  <1>6. ASSUME NEW p \in Process, Revoke(p)
        PROVE  /\ tokens' \in [Token -> TokenRecord \cup {None}]
               /\ \A k \in Token : TokenKept(k)
    <2>1. TypeOf(req[p].kind) # "session"
      BY <1>3, <1>6, HeadIs DEF WritesTokens, Revoke, At, TypeOf
    <2>2. ASSUME NEW t \in Token
          PROVE  tokens'[t] \in TokenRecord \cup {None} /\ TokenKept(t)
      <3>1. CASE t \in ToRevoke(req[p])
        <4>1. tokens'[t] = [tokens[t] EXCEPT !.live = FALSE] /\ tokens[t] \in TokenRecord
                /\ tokens[t].type # "session"
          BY <1>1, <1>6, <2>1, <3>1 DEF Revoke, SetTokens, ToRevoke
        <4>2. tokens'[t] \in TokenRecord /\ tokens'[t].type = tokens[t].type
                /\ tokens'[t].user = tokens[t].user /\ ~tokens'[t].live
          BY <4>1 DEF TokenRecord
        <4> QED
          BY <3>1, <4>1, <4>2, PortalAssumption DEF TokenKept, ToRevoke
      <3>2. CASE t \notin ToRevoke(req[p])
        BY <1>1, <1>2, <1>6, <3>2 DEF Revoke, SetTokens
      <3> QED
        BY <3>1, <3>2
    <2>3. tokens' = [t \in Token |-> tokens'[t]]
      BY <1>6 DEF Revoke, SetTokens
    <2> QED
      BY <2>2, <2>3
  <1>7. ASSUME NEW p \in Process, Create(p)
        PROVE  /\ tokens' \in [Token -> TokenRecord \cup {None}]
               /\ \A k \in Token : TokenKept(k)
    <2> DEFINE type == TypeOf(req[p].kind)
               new == [type |-> type, user |-> req[p].user, live |-> TRUE,
                       secret |-> IF type = "otp_reset" THEN p ELSE None]
    <2>1. tokens[p] = None /\ p \in Token
      BY <1>3, <1>7, HeadIs DEF WritesTokens, Create, At, Issued, Unissued, BeforeIssue, Token
    <2>2. type \in TokenType
      BY DEF TypeOf, TokenType
    <2>3. new \in TokenRecord
      BY <1>3, <1>7, <2>2 DEF WritesTokens, TokenRecord, Secret
    <2>4. tokens' = [tokens EXCEPT ![p] = new]
      BY <1>7 DEF Create, SetTokens
    <2>5. TokenKept(p)
      BY <1>1, <1>7, <2>1, <2>3, <2>4 DEF TokenKept
    <2> HIDE DEF new
    <2> QED
      BY <1>1, <1>2, <2>1, <2>3, <2>4, <2>5
  <1>8. ASSUME NEW p \in Process, Show(p)
        PROVE  /\ tokens' \in [Token -> TokenRecord \cup {None}]
               /\ \A k \in Token : TokenKept(k)
    <2> DEFINE t == req[p].token
               shown == IF req[p].secret = None THEN p ELSE req[p].secret
    <2>1. CASE tokens' = tokens
      BY <1>1, <1>2, <2>1
    <2>2. CASE tokens' # tokens
      <3>1. t \in Token /\ tokens[t] # None /\ tokens[t] \in TokenRecord
        BY <1>3, <1>8, HeadIs, Brought DEF WritesTokens, Show, At, LinkKinds
      <3>2. shown \in Secret
        BY <1>3, <1>8 DEF WritesTokens, RequestRecord, Secret
      <3>3. tokens' = [tokens EXCEPT ![t].secret = shown]
        BY <1>8, <2>2 DEF Show, SetTokens, stores
      <3>4. tokens'[t] = [tokens[t] EXCEPT !.secret = shown]
        BY <1>1, <3>1, <3>3
      <3>5. tokens'[t] \in TokenRecord /\ tokens'[t].type = tokens[t].type
              /\ tokens'[t].user = tokens[t].user /\ tokens'[t].live = tokens[t].live
        BY <3>1, <3>2, <3>4 DEF TokenRecord
      <3>6. TokenKept(t)
        BY <3>1, <3>5, PortalAssumption DEF TokenKept
      <3>7. \A k \in Token : k # t => tokens'[k] = tokens[k]
        BY <1>1, <3>3
      <3>8. tokens' \in [Token -> TokenRecord \cup {None}]
        BY <1>1, <3>1, <3>3, <3>4, <3>5
      <3> QED
        BY <1>2, <3>6, <3>7, <3>8
    <2> QED
      BY <2>1, <2>2
  <1>9. ASSUME NEW t \in Token, TokenExpires(t)
        PROVE  /\ tokens' \in [Token -> TokenRecord \cup {None}]
               /\ \A k \in Token : TokenKept(k)
    BY <1>4, <1>9 DEF TokenExpires, SetTokens
  <1> QED
    BY <1>1, <1>2, <1>5, <1>6, <1>7, <1>8, <1>9, TokenMoves DEF WritesTokens

-----------------------------------------------------------------------------
(* The types of what is neither a user nor a token.                          *)
Around ==
  /\ mail \subseteq Mail
  /\ inbox \in [User -> SUBSET Token]
  /\ scanned \in [User -> SUBSET Secret]
  /\ retry \in [User -> Nat]
  /\ mark \in [User -> BOOLEAN]
  /\ cookie \in [User -> Token \cup {None}]
  /\ window \in 0..MaxWindow
  /\ faults \in 0..MaxFaults
  /\ expired \subseteq Token
  /\ wrongs \in [User -> Nat]
  /\ resets \in [Token -> Nat]
  /\ signedOut \subseteq Token

(* The steps of a request keep these types. *)
LEMMA OwnTypes ==
  ASSUME IInv, NEW p \in Process, Own(p)
  PROVE  Around'
  <1> USE DEF IInv, Core
  <1>1. Around
    BY DEF TypeOK, Around
  <1>2. /\ todo[p] # <<>> /\ req[p] # None /\ req[p] \in RequestRecord
        /\ req[p].kind \in Kind /\ req[p].user \in User
        /\ todo[p] \in Rest(req[p].kind)
    BY OwnStep, Busy
  <1>3. CASE SetPassword(p)
    <2>1. req[p].kind = "reset_password"
      BY <1>2, <1>3, HeadIs DEF SetPassword, At
    <2>2. req[p].token \in Token
      BY <1>2, <2>1, Brought DEF LinkKinds
    <2>3. resets' \in [Token -> Nat]
      BY <1>1, <1>3, <2>2 DEF SetPassword, Around
    <2> QED
      BY <1>1, <1>3, <2>3 DEF SetPassword, SetUser, Around, outside
  <1>4. CASE Create(p)
    <2>1. cookie' \in [User -> Token \cup {None}]
      BY <1>1, <1>2, <1>4 DEF Create, Around, Token
    <2> QED
      BY <1>1, <1>4, <2>1 DEF Create, SetTokens, Around, history
  <1>5. CASE Show(p)
    <2>1. (IF req[p].secret = None THEN p ELSE req[p].secret) \in Secret
      BY <1>2 DEF RequestRecord, Secret
    <2>2. scanned' \in [User -> SUBSET Secret]
      <3>1. PICK shown \in Secret :
              \/ scanned' = scanned
              \/ scanned' = [scanned EXCEPT ![req[p].user] = scanned[req[p].user] \cup {shown}]
        BY <1>5, <2>1 DEF Show
      <3>2. /\ scanned[req[p].user] \cup {shown} \in SUBSET Secret
            /\ scanned \in [User -> SUBSET Secret]
        BY <1>1, <1>2 DEF Around
      <3> QED
        BY <3>1, <3>2
    <2> QED
      BY <1>1, <1>5, <2>2 DEF Show, SetTokens, Around, history, stores
  <1>6. CASE CheckMark(p)
    <2>1. wrongs' \in [User -> Nat]
      <3>1. wrongs' = wrongs \/ wrongs' = [wrongs EXCEPT ![req[p].user] = wrongs[req[p].user] + 1]
        BY <1>6 DEF CheckMark
      <3>2. wrongs[req[p].user] + 1 \in Nat
        BY <1>1, <1>2 DEF Around
      <3> QED
        BY <1>1, <3>1, <3>2 DEF Around
    <2> QED
      BY <1>1, <1>6, <2>1 DEF CheckMark, Around, stores, outside
  <1>7. CASE SetMark(p)
    <2>1. mark' \in [User -> BOOLEAN]
      BY <1>1, <1>2, <1>7 DEF SetMark, At, Around
    <2> QED
      BY <1>1, <1>7, <2>1 DEF SetMark, Around, outside, history
  <1>8. CASE Recount(p)
    <2>1. req[p].count \in Nat
      BY <1>2 DEF RequestRecord
    <2>2. retry' \in [User -> Nat]
      <3>1. retry' = retry \/ retry' = [retry EXCEPT ![req[p].user] = req[p].count + 1]
        BY <1>8 DEF Recount, SetUser
      <3>2. retry \in [User -> Nat] /\ req[p].count + 1 \in Nat
        BY <1>1, <2>1 DEF Around
      <3> QED
        BY <3>1, <3>2
    <2> QED
      BY <1>1, <1>8, <2>2 DEF Recount, SetUser, Around, outside, history
  <1>9. CASE SendMail(p)
    <2>1. TypeOf(req[p].kind) \in TokenType
      BY DEF TypeOf, TokenType
    <2>2. MailOf(p) \in Mail
      BY <1>1, <1>2, <2>1 DEF MailOf, Mail, Token, Around
    <2> QED
      BY <1>1, <1>9, <2>2 DEF SendMail, Around, outside, history
  <1>10. CASE Crash(p)
    <2>1. faults' \in 0..MaxFaults
      BY <1>1, <1>10, PortalAssumption DEF Crash, Around
    <2> QED
      BY <1>1, <1>10, <2>1 DEF Crash, Around, stores, outside
  <1>11. CASE Read(p) \/ Insert(p) \/ ClearKey(p) \/ Activate(p) \/ SetStatus(p)
    BY <1>1, <1>11 DEF Read, Insert, ClearKey, Activate, SetStatus, SetUser, Around, stores,
       outside, history
  <1>12. CASE Verify(p) \/ Consume(p) \/ Drop(p) \/ Revoke(p) \/ ReadCount(p)
    BY <1>1, <1>12 DEF Verify, Consume, Drop, Revoke, ReadCount, SetTokens, Around, stores,
       outside, history
  <1> QED
    BY <1>3, <1>4, <1>5, <1>6, <1>7, <1>8, <1>9, <1>10, <1>11, <1>12
       DEF Own, UserSteps, TokenSteps, SignInSteps

(* So do mails, time and the browser. *)
LEMMA NextAround ==
  ASSUME IInv, [Next]_vars
  PROVE  Around'
  <1> USE DEF IInv, Core
  <1>1. Around
    BY DEF TypeOK, Around
  <1>2. ASSUME NEW p \in Process, NEW r \in Request, Start(p, r)
        PROVE  Around'
    BY <1>1, <1>2 DEF Start, Around, stores, outside, history
  <1>3. ASSUME NEW m \in mail, Deliver(m)
        PROVE  Around'
    <2>1. m.user \in User /\ m.token \in Token
      BY <1>1 DEF Around, Mail
    <2>2. inbox' \in [User -> SUBSET Token]
      BY <1>1, <1>3, <2>1 DEF Deliver, Around
    <2> QED
      BY <1>1, <1>3, <2>2 DEF Deliver, Around, history
  <1>4. ASSUME NEW m \in mail, MailFails(m)
        PROVE  Around'
    <2>1. m \in Mail /\ [m EXCEPT !.failed = TRUE] \in Mail
      BY <1>1 DEF Around, Mail
    <2>2. mail' \subseteq Mail
      BY <1>1, <1>4, <2>1 DEF MailFails, Around
    <2>3. faults' \in 0..MaxFaults
      BY <1>1, <1>4, PortalAssumption DEF MailFails, Around
    <2> QED
      BY <1>1, <1>4, <2>2, <2>3 DEF MailFails, Around, outside
  <1>5. ASSUME NEW u \in User, LogOut(u) \/ CacheExpires(u)
        PROVE  Around'
    <2>1. retry' \in [User -> Nat]
      BY <1>1, <1>5 DEF LogOut, CacheExpires, Around, stores
    <2>2. mark' \in [User -> BOOLEAN]
      <3>1. mark' = mark \/ mark' = [mark EXCEPT ![u] = FALSE]
        BY <1>5 DEF LogOut, CacheExpires, stores
      <3> QED
        BY <1>1, <3>1 DEF Around
    <2>3. cookie' \in [User -> Token \cup {None}]
      BY <1>1, <1>5 DEF LogOut, CacheExpires, Around, outside
    <2>4. signedOut' \subseteq Token
      <3>1. LogOut(u) => cookie[u] \in Token
        BY <1>1 DEF LogOut, Around
      <3>2. signedOut' = signedOut \/ (LogOut(u) /\ signedOut' = signedOut \cup {cookie[u]})
        BY <1>5 DEF LogOut, CacheExpires, history
      <3> QED
        BY <1>1, <3>1, <3>2 DEF Around
    <2> QED
      BY <1>1, <1>5, <2>1, <2>2, <2>3, <2>4
         DEF LogOut, CacheExpires, Around, stores, outside, history
  <1>6. ASSUME NEW t \in Token, TokenExpires(t)
        PROVE  Around'
    <2>1. faults' \in 0..MaxFaults
      BY <1>1, <1>6, PortalAssumption DEF TokenExpires, Around
    <2> QED
      BY <1>1, <1>6, <2>1 DEF TokenExpires, SetTokens, Around, outside
  <1>7. CASE NextWindow
    <2>1. window' \in 0..MaxWindow
      BY <1>1, <1>7, PortalAssumption DEF NextWindow, Around
    <2> QED
      BY <1>1, <1>7, <2>1 DEF NextWindow, Around, stores, history
  <1>8. CASE UNCHANGED vars
    BY <1>1, <1>8 DEF Around, vars, stores, outside, history
  <1> QED
    BY <1>2, <1>3, <1>4, <1>5, <1>6, <1>7, <1>8, OwnTypes, NextIs

-----------------------------------------------------------------------------
(* What requests have read.                                                  *)

(* A request that goes on had something to do, and a new one has its plan. *)
LEMMA NextRequests ==
  ASSUME IInv, [Next]_vars
  PROVE  req' \in [Process -> RequestRecord \cup {None}]
  <1>1. ASSUME NEW p \in Process, NEW r \in Request, Start(p, r)
        PROVE  req' \in [Process -> RequestRecord \cup {None}]
    BY <1>1, Started
  <1>2. ASSUME NEW p \in Process, Own(p)
        PROVE  req' \in [Process -> RequestRecord \cup {None}]
    BY <1>2, OwnStep
  <1>3. CASE UNCHANGED req
    BY <1>3 DEF IInv, Core, TypeOK
  <1> QED
    BY <1>1, <1>2, <1>3, NextIs DEF Deliver, MailFails, LogOut, CacheExpires, TokenExpires,
       NextWindow, vars

(* What a request has read still holds after a step of another, or of nobody. *)
LEMMA OthersRowRead ==
  ASSUME IInv, [Next]_vars, NEW q \in Process, req'[q] = req[q], todo'[q] = todo[q]
  PROVE  RowRead(q)'
  <1> USE DEF IInv, Core
  <1>1. CASE req[q] = None
    <2>1. todo'[q] = <<>> /\ req'[q] = None
      BY <1>1 DEF Steps
    <2> QED
      BY <2>1 DEF RowRead
  <1>2. CASE req[q] # None
    <2>1. req[q].user \in User
      BY <1>2 DEF TypeOK, RequestRecord
    <2>2. user[req[q].user].password # None => user'[req[q].user].password # None
      BY <2>1, NextUsers DEF UserKept
    <2> QED
      BY <2>2 DEF RowsRead, RowRead
  <1> QED
    BY <1>1, <1>2

(* A password is set, and a set-up done, right after the user was read. *)
LEMMA AfterRead ==
  ASSUME NEW kind \in Kind, NEW s \in Rest(kind), s # <<>>,
         Tail(s) \in {<<"password">>, <<"activate", "drop">>}
  PROVE  Head(s) = "read"
  BY TailIs DEF Rest, Kind, AdminKinds, LinkKinds, SignInKinds, SessionKinds

(* A step other than a read has another name. *)
LEMMA ReadIs ==
  ASSUME NEW p \in Process, Own(p), Head(todo[p]) = "read"
  PROVE  Read(p) \/ Crash(p)
  BY DEF Own, UserSteps, TokenSteps, SignInSteps, Insert, ClearKey, Activate, SetStatus,
     SetPassword, Verify, Consume, Drop, Revoke, Create, Show, CheckMark, SetMark, ReadCount,
     Recount, SendMail, At

(* Only a read changes the row a request has. *)
LEMMA RowIs ==
  ASSUME IInv, NEW p \in Process, Own(p), ~Read(p)
  PROVE  req'[p].row = req[p].row
  <1>1. req[p] \in RequestRecord /\ req \in [Process -> RequestRecord \cup {None}]
    BY OwnStep, Busy DEF IInv, Core, TypeOK
  <1>2. CASE Verify(p)
    BY <1>1, <1>2 DEF Verify, RequestRecord
  <1>3. CASE ReadCount(p)
    BY <1>1, <1>3 DEF ReadCount, RequestRecord
  <1>4. CASE req' = req
    BY <1>4
  <1> QED
    BY <1>2, <1>3, <1>4 DEF Own, UserSteps, TokenSteps, SignInSteps, Insert, ClearKey, Activate,
       SetStatus, SetPassword, Consume, Drop, Revoke, Create, Show, CheckMark, SetMark, Recount,
       SendMail, Crash

(* A user that passes the checks of a request has what the request relies on. *)
LEMMA OwnRowRead ==
  ASSUME IInv, [Next]_vars, NEW p \in Process, Own(p)
  PROVE  RowRead(p)'
  <1> USE DEF IInv, Core
  <1> DEFINE r == req[p]  u == req[p].user
  <1>1. /\ todo[p] # <<>> /\ r # None /\ r \in RequestRecord
        /\ r.kind \in Kind /\ u \in User /\ user[u] \in UserRow
        /\ todo[p] \in Rest(r.kind)
    BY OwnStep, Busy DEF TypeOK
  <1>2. /\ req'[p] # None /\ req'[p].kind = r.kind /\ req'[p].user = u /\ req'[p].code = r.code
        /\ todo \in [Process -> UNION {Rest(kind) : kind \in Kind}]
    BY OwnStep DEF Steps
  <1>3. user[u].password # None => user'[u].password # None
    BY <1>1, NextUsers DEF UserKept
  <1>4. CASE Read(p) /\ Refused(r, user[u])
    <2>1. todo'[p] = <<>> /\ req'[p] = r
      BY <1>2, <1>4 DEF Read, Finish
    <2> QED
      BY <1>3, <2>1 DEF RowsRead, RowRead
  <1>5. CASE Read(p) /\ ~Refused(r, user[u])
    <2>1. /\ todo'[p] = Tail(todo[p]) /\ Head(todo[p]) = "read"
          /\ req'[p] = [r EXCEPT !.row = user[u]]
          /\ user' = user
      BY <1>1, <1>2, <1>5 DEF Read, Proceed, At, TypeOK, stores
    <2>2. req'[p].row = user[u] /\ req'[p].secret = r.secret /\ user[u] # None
      BY <1>1, <2>1, PortalAssumption DEF RequestRecord
    <2>3. user[u].key # None => user[u].password # None
      BY <1>1 DEF SetUpInOrder
    <2>4. r.kind \in SignInKinds \cup {"block", "unblock", "reset_password"} => user[u].password # None
      BY <1>1, <1>5 DEF Refused, SignInKinds, TypeOK
    <2>5. todo'[p] = <<"password">> => r.kind = "reset_password"
      BY <1>1, <2>1, TailIs DEF Rest, Kind, AdminKinds, LinkKinds, SignInKinds, SessionKinds
    <2>6. todo'[p] = <<"activate", "drop">> => r.kind = "complete"
      BY <1>1, <2>1, TailIs DEF Rest, Kind, AdminKinds, LinkKinds, SignInKinds, SessionKinds
    <2>7. r.kind = "complete" => user[u].key # None \/ r.secret # None
      BY <1>5 DEF Refused, SetupRefused, AdminKinds, SignInKinds
    <2> QED
      BY <1>2, <2>1, <2>2, <2>3, <2>4, <2>5, <2>6, <2>7 DEF RowRead
  <1>6. CASE Crash(p)
    <2>1. todo'[p] = <<>> /\ req'[p] = r
      BY <1>2, <1>6 DEF Crash, Finish
    <2> QED
      BY <1>3, <2>1 DEF RowsRead, RowRead
  <1>7. CASE ~Read(p) /\ ~Crash(p)
    <2>1. Head(todo[p]) # "read"
      BY <1>7, ReadIs
    <2>2. req'[p].row = r.row
      BY <1>7, RowIs
    <2>3. todo'[p] \in {<<>>, Tail(todo[p])}
      BY <1>2, OwnStep DEF Proceed, Finish
    <2>4. todo'[p] # <<"password">> /\ todo'[p] # <<"activate", "drop">>
      <3>1. <<>> # <<"password">> /\ <<>> # <<"activate", "drop">>
        OBVIOUS
      <3>2. Tail(todo[p]) # <<"password">> /\ Tail(todo[p]) # <<"activate", "drop">>
        BY <1>1, <2>1, AfterRead
      <3> QED
        BY <2>3, <3>1, <3>2
    <2>5. r.kind \in SignInKinds \cup {"block", "unblock"} => user[u].password # None
      BY <1>1, <2>1 DEF RowsRead, RowRead
    <2> QED
      BY <1>1, <1>2, <1>3, <2>2, <2>4, <2>5 DEF RowsRead, RowRead
  <1> QED
    BY <1>4, <1>5, <1>6, <1>7

(* No plan begins with its end. *)
LEMMA PlanIs ==
  ASSUME NEW kind \in Kind
  PROVE  Plan(kind) \notin {<<"password">>, <<"mail">>, <<"activate", "drop">>,
                          <<"read", "password">>, <<"count", "recount">>, <<"recount">>,
                          <<"drop">>}
  <1>1. <<"verify">> \notin {<<"password">>, <<"mail">>}
    OBVIOUS
  <1> QED
    BY <1>1, KindIs DEF Plan, InviteTeamMember, ResendInvite, ResetUserOtp, ForgotPassword, ResetPassword,
       VerifySetup, CompleteUserSetup, BlockOrUnblock, WrongPassword, RightPassword,
       OneTimePassword, GuardedCall, GuardedRefresh

(* What requests rely on holds. *)
LEMMA NextRowsRead ==
  ASSUME IInv, [Next]_vars
  PROVE  RowsRead'
  <1>1. ASSUME NEW p \in Process, NEW r \in Request, Start(p, r), NEW q \in Process
        PROVE  RowRead(q)'
    <2>1. CASE q # p
      <3>1. req'[q] = req[q] /\ todo'[q] = todo[q]
        BY <1>1, <2>1, Started DEF Start, IInv, Core, Steps
      <3> QED
        BY <3>1, OthersRowRead
    <2>2. CASE q = p
      <3>1. req'[p].row = None /\ req'[p].kind = r.kind /\ r.kind \in Kind
        BY <1>1, Started
      <3>2. todo'[p] = Plan(r.kind)
        BY <1>1 DEF Start, IInv, Core, Steps
      <3>3. Plan(r.kind) \notin {<<"password">>, <<"activate", "drop">>}
        BY <3>1, PlanIs
      <3>4. r.kind \in SignInKinds \cup {"block", "unblock"} => Head(Plan(r.kind)) = "read"
        BY DEF Plan, BlockOrUnblock, WrongPassword, RightPassword, OneTimePassword, SignInKinds
      <3> QED
        BY <2>2, <3>1, <3>2, <3>3, <3>4 DEF RowRead
    <2> QED
      BY <2>1, <2>2
  <1>2. ASSUME NEW p \in Process, Own(p), NEW q \in Process
        PROVE  RowRead(q)'
    <2>1. CASE q # p
      <3>1. req'[q] = req[q] /\ todo'[q] = todo[q]
        BY <1>2, <2>1, OwnStep DEF Proceed, Finish, IInv, Core, Steps
      <3> QED
        BY <3>1, OthersRowRead
    <2>2. CASE q = p
      BY <1>2, <2>2, OwnRowRead
    <2> QED
      BY <2>1, <2>2
  <1>3. ASSUME UNCHANGED <<req, todo>>, NEW q \in Process
        PROVE  RowRead(q)'
    BY <1>3, OthersRowRead
  <1> QED
    BY <1>1, <1>2, <1>3, NextIs DEF RowsRead, Deliver, MailFails, LogOut, CacheExpires,
       TokenExpires, NextWindow, vars

-----------------------------------------------------------------------------
(* Types.                                                                    *)

(* Every step keeps the types. *)
LEMMA NextTypeOK ==
  ASSUME IInv, [Next]_vars
  PROVE  TypeOK'
  <1>1. user' \in [User -> UserRow]
        /\ \A u \in User : user'[u].password = None => user'[u].status \in {"absent", "pending"}
    BY NextUsers DEF UserKept
  <1>2. \A p \in Process : todo'[p] # <<>> => req'[p] # None
    BY NextSteps DEF Steps
  <1>3. Around'
    BY NextAround
  <1> QED
    BY <1>1, <1>2, <1>3, NextTokens, NextRequests DEF TypeOK, Around

-----------------------------------------------------------------------------
(* Links and sessions are issued to one user, who keeps them.                *)

(* A request starts, takes a step, or is left alone. *)
LEMMA Moved ==
  ASSUME IInv, [Next]_vars, NEW q \in Process
  PROVE  \/ (\E r \in Request : Start(q, r)) /\ todo'[q] = Plan(req'[q].kind)
         \/ Own(q) /\ todo'[q] \in {<<>>, Tail(todo[q])}
         \/ req'[q] = req[q] /\ todo'[q] = todo[q]
  <1> USE DEF IInv, Core
  <1>1. ASSUME NEW p \in Process, NEW r \in Request, Start(p, r)
        PROVE  \/ (\E x \in Request : Start(q, x)) /\ todo'[q] = Plan(req'[q].kind)
               \/ req'[q] = req[q] /\ todo'[q] = todo[q]
    <2>1. CASE q = p
      <3>1. req'[p].kind = r.kind
        BY <1>1, Started
      <3>2. todo'[p] = Plan(r.kind)
        BY <1>1 DEF Start, Steps
      <3> QED
        BY <1>1, <2>1, <3>1, <3>2
    <2>2. CASE q # p
      BY <1>1, <2>2, Started DEF Start, Steps
    <2> QED
      BY <2>1, <2>2
  <1>2. ASSUME NEW p \in Process, Own(p)
        PROVE  \/ Own(q) /\ todo'[q] \in {<<>>, Tail(todo[q])}
               \/ req'[q] = req[q] /\ todo'[q] = todo[q]
    BY <1>2, OwnStep DEF Proceed, Finish, Steps
  <1>3. CASE UNCHANGED <<req, todo>>
    BY <1>3
  <1> QED
    BY <1>1, <1>2, <1>3, NextIs DEF Deliver, MailFails, LogOut, CacheExpires, TokenExpires,
       NextWindow, vars

(* What a request asks for stays. *)
LEMMA Asked ==
  ASSUME IInv, [Next]_vars, NEW q \in Process, req[q] # None
  PROVE  /\ req'[q] # None /\ req'[q].kind = req[q].kind /\ req'[q].user = req[q].user
         /\ req'[q].token = req[q].token
  BY Moved, OwnStep DEF Start

(* What comes before the token of a request is issued, and after. *)
LEMMA IssueIs ==
  ASSUME NEW kind \in Kind, NEW s \in Rest(kind), s # <<>>
  PROVE  /\ Tail(s) \in BeforeIssue => s \in BeforeIssue /\ Head(s) # "create"
         /\ Tail(s) = <<"mail">> => Head(s) = "create"
  <1>1. Tail(s) \in BeforeIssue => s \in BeforeIssue
    <2>1. CASE s \in BeforeIssue
      BY <2>1
    <2>2. CASE s \notin BeforeIssue
      <3>1. Tail(s) \in {<<"password">>, <<"read", "password">>, <<"show">>, <<"read", "show">>,
                        <<"read", "activate", "drop">>, <<"activate", "drop">>, <<"drop">>,
                        <<"status">>, <<"mark", "count", "recount">>, <<"count", "recount">>,
                        <<"recount">>, <<"mark", "setmark">>, <<"setmark">>, <<>>}
        BY <2>2, TailIs DEF Rest, Kind, AdminKinds, LinkKinds, SignInKinds, SessionKinds, BeforeIssue
      <3>2. <<>> \notin BeforeIssue
        BY DEF BeforeIssue
      <3>3. /\ <<"password">> \notin BeforeIssue
            /\ <<"show">> \notin BeforeIssue
            /\ <<"drop">> \notin BeforeIssue
            /\ <<"status">> \notin BeforeIssue
            /\ <<"recount">> \notin BeforeIssue
            /\ <<"setmark">> \notin BeforeIssue
        BY DEF BeforeIssue
      <3>4. /\ <<"read", "password">> \notin BeforeIssue
            /\ <<"read", "show">> \notin BeforeIssue
            /\ <<"activate", "drop">> \notin BeforeIssue
            /\ <<"count", "recount">> \notin BeforeIssue
            /\ <<"mark", "setmark">> \notin BeforeIssue
        BY DEF BeforeIssue
      <3>5. /\ <<"read", "activate", "drop">> \notin BeforeIssue
            /\ <<"mark", "count", "recount">> \notin BeforeIssue
        BY DEF BeforeIssue
      <3> QED
        BY <3>1, <3>2, <3>3, <3>4, <3>5
    <2> QED
      BY <2>1, <2>2
  <1>2. Tail(s) \in BeforeIssue => Head(s) # "create"
    BY TailIs DEF Rest, Kind, AdminKinds, LinkKinds, SignInKinds, SessionKinds, BeforeIssue
  <1>3. Tail(s) = <<"mail">> => Head(s) = "create"
    BY TailIs DEF Rest, Kind, AdminKinds, LinkKinds, SignInKinds, SessionKinds
  <1> QED
    BY <1>1, <1>2, <1>3

(* A step that is called create creates, unless the handler dies. *)
LEMMA CreateIs ==
  ASSUME NEW p \in Process, Own(p), Head(todo[p]) = "create"
  PROVE  Create(p) \/ Crash(p)
  BY DEF Own, UserSteps, TokenSteps, SignInSteps, Read, Insert, ClearKey, Activate, SetStatus,
     SetPassword, Verify, Consume, Drop, Revoke, Show, CheckMark, SetMark, ReadCount,
     Recount, SendMail, At

(* What a request creates. *)
LEMMA Created ==
  ASSUME IInv, NEW p \in Process, Create(p)
  PROVE  /\ tokens[p] = None /\ todo'[p] \notin BeforeIssue
         /\ req' = req /\ req[p] # None /\ req[p].user \in User /\ req[p].kind \in Kind
         /\ tokens'[p] # None /\ tokens'[p].live
         /\ tokens'[p].type = TypeOf(req[p].kind) /\ tokens'[p].user = req[p].user
         /\ todo[p] \in Rest(req[p].kind) /\ todo[p] # <<>> /\ Head(todo[p]) = "create"
  <1> USE DEF IInv, Core
  <1>1. /\ todo[p] # <<>> /\ Head(todo[p]) = "create" /\ req[p] # None
        /\ req[p].kind \in Kind /\ req[p].user \in User
        /\ todo[p] \in Rest(req[p].kind)
    BY Busy DEF Create, At
  <1>2. tokens[p] = None
    BY <1>1, HeadIs DEF Issued, Unissued, BeforeIssue
  <1>3. todo'[p] \notin BeforeIssue
    <2>1. todo'[p] = Tail(todo[p])
      BY DEF Create, Proceed, Steps
    <2> QED
      BY <1>1, <2>1, IssueIs
  <1> DEFINE new == [type |-> TypeOf(req[p].kind), user |-> req[p].user, live |-> TRUE,
                     secret |-> IF TypeOf(req[p].kind) = "otp_reset" THEN p ELSE None]
  <1>4. tokens' = [tokens EXCEPT ![p] = new] /\ req' = req
    BY DEF Create, SetTokens
  <1>5. new \in TokenRecord
    BY <1>1 DEF TokenRecord, TokenType, TypeOf, Secret
  <1>6. tokens'[p] = new /\ new # None
    BY <1>4, <1>5, PortalAssumption DEF TypeOK, Token
  <1> QED
    BY <1>1, <1>2, <1>3, <1>4, <1>6

(* Whoever was issued a token keeps it. *)
LEMMA IssuesKept ==
  ASSUME IInv, [Next]_vars, NEW t \in Token, NEW u, Issues(t, u)
  PROVE  Issues(t, u)' /\ tokens'[t].type = tokens[t].type
  BY NextTokens DEF Issues, TokenKept

(* Tokens are issued once, and before the mail goes out. *)
LEMMA NextIssued ==
  ASSUME IInv, [Next]_vars
  PROVE  Issued'
  <1> USE DEF IInv, Core
  <1> SUFFICES ASSUME NEW q \in Process
               PROVE  /\ req'[q] = None \/ Unissued(q)' => tokens'[q] = None
                      /\ todo'[q] = <<"mail">> => Issues(q, req[q].user)'
    BY DEF Issued
  <1>1. q \in Token /\ (tokens[q] = None /\ tokens'[q] # None => Create(q))
    BY NextTokens DEF TokenKept, Token
  <1>2. ASSUME NEW r \in Request, Start(q, r)
        PROVE  /\ req'[q] # None /\ tokens'[q] = None /\ todo'[q] # <<"mail">>
    <2>1. req[q] = None /\ req'[q] # None /\ r.kind \in Kind /\ tokens' = tokens
      BY <1>2, Started DEF Start, stores
    <2>2. todo'[q] = Plan(r.kind)
      BY <1>2 DEF Start, Steps
    <2>3. Plan(r.kind) # <<"mail">>
      BY <2>1, PlanIs
    <2> QED
      BY <2>1, <2>2, <2>3 DEF Issued
  <1>3. ASSUME Own(q), todo'[q] \in {<<>>, Tail(todo[q])}
        PROVE  /\ req'[q] = None \/ Unissued(q)' => tokens'[q] = None
               /\ todo'[q] = <<"mail">> => Issues(q, req[q].user)'
    <2>1. /\ todo[q] # <<>> /\ req[q] # None /\ req'[q] # None /\ req'[q].user = req[q].user
          /\ req[q].kind \in Kind /\ todo[q] \in Rest(req[q].kind)
      BY <1>3, OwnStep, Busy
    <2>2. <<>> \notin BeforeIssue /\ <<>> # <<"mail">>
      BY DEF BeforeIssue
    <2>3. Unissued(q)' => tokens'[q] = None
      <3> SUFFICES ASSUME todo'[q] \in BeforeIssue
                   PROVE  tokens'[q] = None
        BY DEF Unissued
      <3>1. todo'[q] = Tail(todo[q])
        BY <1>3, <2>2
      <3>2. todo[q] \in BeforeIssue
        BY <2>1, <3>1, IssueIs
      <3>3. tokens[q] = None
        BY <3>2 DEF Issued, Unissued
      <3>4. ~Create(q)
        BY Created
      <3> QED
        BY <1>1, <3>3, <3>4
    <2>4. todo'[q] = <<"mail">> => Create(q)
      <3>1. todo'[q] = <<"mail">> => Head(todo[q]) = "create"
        BY <1>3, <2>1, <2>2, IssueIs
      <3>2. Crash(q) => todo'[q] = <<>>
        BY DEF Crash, Finish, Steps
      <3> QED
        BY <1>3, <2>2, <3>1, <3>2, CreateIs
    <2>5. Create(q) => Issues(q, req[q].user)'
      BY <2>1, Created DEF Issues
    <2> QED
      BY <2>1, <2>3, <2>4, <2>5
  <1>4. ASSUME req'[q] = req[q], todo'[q] = todo[q]
        PROVE  /\ req'[q] = None \/ Unissued(q)' => tokens'[q] = None
               /\ todo'[q] = <<"mail">> => Issues(q, req[q].user)'
    <2>1. req[q] = None \/ Unissued(q) => tokens'[q] = None
      <3>1. Create(q) => ~Unissued(q)' /\ req[q] # None
        BY Created DEF Unissued
      <3> QED
        BY <1>1, <1>4, <3>1 DEF Issued, Unissued
    <2>2. todo[q] = <<"mail">> => Issues(q, req[q].user)'
      BY <1>1, IssuesKept, <1>4 DEF Issued, Issues
    <2> QED
      BY <1>4, <2>1, <2>2 DEF Unissued
  <1> QED
    BY <1>2, <1>3, <1>4, Moved

(* Who puts what into the mailboxes, the queue and the browsers. *)
LEMMA OutsideMoves ==
  ASSUME [Next]_vars
  PROVE  /\ inbox' = inbox \/ \E m \in mail : Deliver(m)
         /\ mail' = mail \/ (\E m \in mail : Deliver(m) \/ MailFails(m)) \/ \E p \in Process : SendMail(p)
         /\ cookie' = cookie \/ (\E u \in User : LogOut(u)) \/ \E p \in Process : Create(p)
  <1>1. ASSUME NEW p \in Process, Own(p)
        PROVE  /\ inbox' = inbox
               /\ mail' = mail \/ SendMail(p)
               /\ cookie' = cookie \/ Create(p)
    <2>1. CASE UserSteps(p)
      BY <2>1 DEF UserSteps, Read, Insert, ClearKey, Activate, SetStatus, SetPassword, SetUser,
         stores, outside
    <2>2. CASE TokenSteps(p)
      BY <2>2 DEF TokenSteps, Verify, Consume, Drop, Revoke, Create, Show, SetTokens, stores, outside
    <2>3. CASE SignInSteps(p)
      BY <2>3 DEF SignInSteps, CheckMark, SetMark, ReadCount, Recount, SetUser, stores, outside
    <2>4. CASE SendMail(p) \/ Crash(p)
      BY <2>4 DEF SendMail, Crash, stores, outside
    <2> QED
      BY <1>1, <2>1, <2>2, <2>3, <2>4 DEF Own
  <1>2. ASSUME NEW p \in Process, NEW r \in Request, Start(p, r)
        PROVE  UNCHANGED <<inbox, mail, cookie>>
    BY <1>2 DEF Start, stores, outside
  <1> QED
    BY <1>1, <1>2, NextIs DEF Deliver, MailFails, LogOut, CacheExpires, TokenExpires, NextWindow,
       SetTokens, stores, outside, vars

(* Time that ran out does not come back. *)
LEMMA ExpiredGrows ==
  ASSUME [Next]_vars
  PROVE  expired \subseteq expired'
  <1>1. ASSUME NEW p \in Process, Own(p)
        PROVE  expired' = expired
    BY <1>1 DEF Own, UserSteps, TokenSteps, SignInSteps, Read, Insert, ClearKey, Activate,
       SetStatus, SetPassword, Verify, Consume, Drop, Revoke, Create, Show, CheckMark, SetMark,
       ReadCount, Recount, SendMail, Crash, history
  <1> QED
    BY <1>1, NextIs DEF Start, Deliver, MailFails, LogOut, CacheExpires, TokenExpires, NextWindow,
       history, vars

(* Mails and links stay with the user they are for. *)
LEMMA NextLinks ==
  ASSUME IInv, [Next]_vars
  PROVE  Links'
  <1> USE DEF IInv, Core
  <1>1. \A m \in mail : m \in Mail /\ m.token \in Token /\ m.user \in User
    BY DEF TypeOK, Mail
  <1>2. ASSUME NEW u \in User, NEW t \in inbox'[u]
        PROVE  Issues(t, u)'
    <2>1. CASE t \in inbox[u]
      BY <2>1, IssuesKept DEF Links, TypeOK
    <2>2. CASE t \notin inbox[u]
      <3>1. PICK m \in mail : Deliver(m)
        BY <2>2, OutsideMoves
      <3>2. t = m.token /\ u = m.user
        BY <1>1, <2>2, <3>1 DEF Deliver, TypeOK
      <3> QED
        BY <1>1, <3>2, IssuesKept DEF Links
    <2> QED
      BY <2>1, <2>2
  <1>3. ASSUME NEW n \in mail'
        PROVE  Issues(n.token, n.user)'
    <2>1. ASSUME NEW m \in mail, n.token = m.token, n.user = m.user
          PROVE  Issues(n.token, n.user)'
      BY <1>1, <2>1, IssuesKept DEF Links
    <2>2. ASSUME NEW p \in Process, SendMail(p), n \notin mail
          PROVE  Issues(n.token, n.user)'
      <3>1. n.token = p /\ n.user = req[p].user
        BY <2>2 DEF SendMail, MailOf
      <3>2. todo[p] = <<"mail">>
        BY <2>2, Busy, HeadIs DEF SendMail, At
      <3> QED
        BY <3>1, <3>2, IssuesKept DEF Issued, Token
    <2>3. ASSUME NEW m \in mail, Deliver(m) \/ MailFails(m), n \notin mail
          PROVE  n.token = m.token /\ n.user = m.user
      BY <1>1, <2>3 DEF Deliver, MailFails, Mail
    <2> QED
      BY <2>1, <2>2, <2>3, OutsideMoves
  <1>4. ASSUME NEW q \in Process, req'[q] # None, req'[q].kind \in LinkKinds
        PROVE  /\ req'[q].token \in Token
               /\ Issues(req[q].token, req[q].user)'
               /\ tokens'[req'[q].token].type \in Accepts(req'[q].kind)
    <2>1. ASSUME NEW r \in Request, Start(q, r)
          PROVE  /\ req'[q].token \in Token
                 /\ Issues(req[q].token, req[q].user)'
                 /\ tokens'[req'[q].token].type \in Accepts(req'[q].kind)
      <3>1. /\ req'[q].token \in Sendable(r.kind, r.user) /\ req'[q].kind = r.kind
            /\ req'[q].user = r.user /\ r.user \in User
        BY <2>1, Started
      <3>2. /\ req'[q].token \in inbox[r.user]
            /\ tokens[req'[q].token].type \in Accepts(r.kind)
        BY <1>4, <3>1 DEF Sendable
      <3>3. req'[q].token \in Token /\ Issues(req'[q].token, r.user)
        BY <3>1, <3>2 DEF Links, TypeOK
      <3>4. tokens' = tokens
        BY <2>1 DEF Start, stores
      <3> QED
        BY <3>1, <3>2, <3>3, <3>4 DEF Issues
    <2>2. CASE req[q] # None
      <3>1. req'[q].kind = req[q].kind /\ req'[q].user = req[q].user /\ req'[q].token = req[q].token
        BY <2>2, Asked
      <3>2. /\ req[q].token \in Token /\ Issues(req[q].token, req[q].user)
            /\ tokens[req[q].token].type \in Accepts(req[q].kind)
        BY <1>4, <2>2, <3>1 DEF Links
      <3>3. Issues(req[q].token, req[q].user)' /\ tokens'[req[q].token].type = tokens[req[q].token].type
        <4>1. tokens'[req[q].token] # None /\ tokens'[req[q].token].user = req[q].user
                /\ tokens'[req[q].token].type = tokens[req[q].token].type
          BY <3>2, NextTokens DEF Issues, TokenKept
        <4> QED
          BY <3>1, <4>1 DEF Issues
      <3> QED
        BY <3>1, <3>2, <3>3
    <2> QED
      BY <1>4, <2>1, <2>2, Moved, OwnStep, Busy
  <1> QED
    BY <1>2, <1>3, <1>4 DEF Links

(* A session lasts until its time is over. *)
LEMMA LastsKept ==
  ASSUME IInv, [Next]_vars, NEW t, Lasts(t)
  PROVE  t \in Token /\ tokens'[t] # None /\ tokens'[t].type = "session"
         /\ (tokens'[t].live \/ t \in expired')
  BY NextTokens, ExpiredGrows DEF Lasts, TokenKept

(* Browsers and calls hold sessions that last. *)
LEMMA NextSessionsLast ==
  ASSUME IInv, [Next]_vars
  PROVE  SessionsLast'
  <1> USE DEF IInv, Core
  <1>1. ASSUME NEW u \in User, cookie'[u] # None
        PROVE  /\ cookie'[u] \in Token /\ tokens'[cookie'[u]] # None
               /\ tokens'[cookie'[u]].type = "session"
               /\ tokens'[cookie'[u]].live \/ cookie'[u] \in expired'
    <2>1. CASE cookie'[u] = cookie[u]
      BY <1>1, <2>1, LastsKept DEF SessionsLast
    <2>2. ASSUME NEW v \in User, LogOut(v), cookie'[u] # cookie[u]
          PROVE  FALSE
      BY <1>1, <2>2 DEF LogOut, TypeOK
    <2>3. ASSUME NEW p \in Process, Create(p), cookie'[u] # cookie[u]
          PROVE  cookie'[u] = p /\ TypeOf(req[p].kind) = "session"
      BY <2>3 DEF Create, TypeOK
    <2> QED
      BY <2>1, <2>2, <2>3, OutsideMoves, Created DEF Token
  <1>2. ASSUME NEW q \in Process, req'[q] # None, req'[q].kind \in SessionKinds
        PROVE  /\ req'[q].token \in Token /\ tokens'[req'[q].token] # None
               /\ tokens'[req'[q].token].type = "session"
               /\ tokens'[req'[q].token].live \/ req'[q].token \in expired'
    <2>1. ASSUME NEW r \in Request, Start(q, r)
          PROVE  Lasts(req'[q].token)
      <3>1. /\ req'[q].token \in Sendable(r.kind, r.user) /\ req'[q].kind = r.kind
            /\ r.user \in User
        BY <2>1, Started
      <3>2. req'[q].token = cookie[r.user] /\ cookie[r.user] # None
        BY <1>2, <3>1 DEF Sendable, SessionKinds, LinkKinds
      <3> QED
        BY <3>1, <3>2 DEF SessionsLast
    <2>2. CASE req[q] # None
      <3>1. req'[q].kind = req[q].kind /\ req'[q].token = req[q].token
        BY <2>2, Asked
      <3> QED
        BY <1>2, <2>2, <3>1, LastsKept DEF SessionsLast
    <2> QED
      BY <1>2, <2>1, <2>2, Moved, OwnStep, Busy, LastsKept
  <1> QED
    BY <1>1, <1>2 DEF SessionsLast, Lasts

-----------------------------------------------------------------------------
(* A link sets one password.                                                 *)

(* A request that is about to set a password has a link that was issued. *)
LEMMA ResettingIs ==
  ASSUME IInv, NEW p \in Process, Resetting(p)
  PROVE  /\ req[p] # None /\ req[p].kind = "reset_password" /\ todo[p] # <<>>
         /\ req[p].token \in Token /\ tokens[req[p].token] # None
  <1> USE DEF IInv, Core
  <1>1. todo[p] # <<>>
    BY DEF Resetting
  <1>2. req[p] # None /\ req[p].kind \in Kind /\ todo[p] \in Rest(req[p].kind)
    BY <1>1, Busy
  <1>3. Head(todo[p]) \in {"read", "password"}
    BY DEF Resetting
  <1>4. req[p].kind = "reset_password"
    BY <1>2 DEF Resetting, Rest, Kind, AdminKinds, LinkKinds, SignInKinds, SessionKinds
  <1> QED
    BY <1>1, <1>2, <1>4 DEF Links, Issues, LinkKinds

(* What comes before a password is set. *)
LEMMA PasswordIs ==
  ASSUME NEW kind \in Kind, NEW s \in Rest(kind), s # <<>>
  PROVE  /\ Tail(s) = <<"password">> => s = <<"read", "password">>
         /\ Tail(s) = <<"read", "password">> => s = <<"consume", "read", "password">>
  <1>1. Tail(s) = <<"password">> => s = <<"read", "password">>
    BY TailIs DEF Rest, Kind, AdminKinds, LinkKinds, SignInKinds, SessionKinds
  <1>2. Tail(s) = <<"read", "password">> => s = <<"consume", "read", "password">>
    <2>1. kind = "reset_password" => s = <<"consume", "read", "password">> \/ Tail(s) # <<"read", "password">>
      BY TailIs DEF Rest
    <2> DEFINE others == {<<"mail">>, <<"show">>, <<"drop">>, <<"status">>, <<"recount">>, <<"setmark">>,
                          <<"read", "show">>, <<"activate", "drop">>, <<"count", "recount">>,
                          <<"mark", "setmark">>, <<"read", "activate", "drop">>,
                          <<"mark", "count", "recount">>}
    <2>2. kind # "reset_password" =>
            Tail(s) = <<>> \/ Tail(s) \in BeforeIssue \/ Tail(s) \in others
      BY TailIs DEF Rest, Kind, AdminKinds, LinkKinds, SignInKinds, SessionKinds, BeforeIssue
    <2>3. <<"read", "password">> \notin others
      OBVIOUS
    <2>4. <<"read", "password">> \notin BeforeIssue /\ <<"read", "password">> # <<>>
      BY DEF BeforeIssue
    <2> HIDE DEF others
    <2> QED
      BY <2>1, <2>2, <2>3, <2>4
  <1> QED
    BY <1>1, <1>2

(* A step that is called consume consumes, unless the handler dies. *)
LEMMA ConsumeIs ==
  ASSUME NEW p \in Process, Own(p), Head(todo[p]) = "consume"
  PROVE  Consume(p) \/ Crash(p)
  BY DEF Own, UserSteps, TokenSteps, SignInSteps, Read, Insert, ClearKey, Activate, SetStatus,
     SetPassword, Verify, Create, Drop, Revoke, Show, CheckMark, SetMark, ReadCount,
     Recount, SendMail, At

(* A request comes to set a password by consuming a link that was live. *)
LEMMA NextResetting ==
  ASSUME IInv, [Next]_vars, NEW q \in Process, Resetting(q)'
  PROVE  /\ req'[q] # None /\ req'[q].token = req[q].token
         /\ \/ Resetting(q) /\ ~SetPassword(q)
            \/ /\ Consume(q) /\ Usable(req[q]) /\ tokens' = Deleted(req[q].token)
               /\ req[q].token \in Token /\ tokens[req[q].token] \in TokenRecord
  <1> USE DEF IInv, Core
  <1>1. ASSUME NEW r \in Request, Start(q, r)
        PROVE  FALSE
    <2>1. todo'[q] = Plan(r.kind) /\ r.kind \in Kind
      BY <1>1, Started DEF Start, Steps
    <2> QED
      BY <2>1, PlanIs DEF Resetting
  <1>2. ASSUME Own(q), todo'[q] \in {<<>>, Tail(todo[q])}
        PROVE  /\ req'[q] # None /\ req'[q].token = req[q].token
               /\ \/ Resetting(q) /\ ~SetPassword(q)
                  \/ /\ Consume(q) /\ Usable(req[q]) /\ tokens' = Deleted(req[q].token)
                     /\ req[q].token \in Token /\ tokens[req[q].token] \in TokenRecord
    <2>1. /\ todo[q] # <<>> /\ req[q] # None /\ req'[q] # None /\ req'[q].token = req[q].token
          /\ req[q].kind \in Kind /\ todo[q] \in Rest(req[q].kind)
      BY <1>2, OwnStep, Busy
    <2>2. <<>> \notin {<<"read", "password">>, <<"password">>}
      OBVIOUS
    <2>3. todo'[q] = Tail(todo[q])
      BY <1>2, <2>2 DEF Resetting
    <2>4. /\ todo[q] \in {<<"consume", "read", "password">>, <<"read", "password">>}
          /\ req[q].kind = "reset_password"
      <3>1. todo'[q] = <<"password">> => todo[q] = <<"read", "password">>
        BY <2>1, <2>3, PasswordIs
      <3>2. todo'[q] = <<"read", "password">> => todo[q] = <<"consume", "read", "password">>
        BY <2>1, <2>3, PasswordIs
      <3>3. todo[q] \in {<<"consume", "read", "password">>, <<"read", "password">>}
        BY <3>1, <3>2 DEF Resetting
      <3> QED
        BY <2>1, <3>3 DEF Rest, Kind, AdminKinds, LinkKinds, SignInKinds, SessionKinds
    <2>5. CASE todo[q] = <<"read", "password">>
      BY <2>1, <2>5 DEF Resetting, SetPassword, At
    <2>6. CASE todo[q] = <<"consume", "read", "password">>
      <3>1. Crash(q) => todo'[q] = <<>>
        BY DEF Crash, Finish, Steps
      <3>2. Consume(q)
        BY <1>2, <2>2, <2>6, <3>1, ConsumeIs DEF Resetting
      <3>3. Usable(req[q])
        <4>1. ~Usable(req[q]) => todo'[q] = <<>>
          BY <3>2 DEF Consume, Finish, Steps
        <4> QED
          BY <2>2, <4>1 DEF Resetting
      <3>4. tokens' = Deleted(req[q].token)
        BY <3>2, <3>3 DEF Consume, SetTokens, Consumed
      <3> QED
        BY <2>1, <2>4, <3>2, <3>3, <3>4, Brought DEF LinkKinds
    <2> QED
      BY <2>4, <2>5, <2>6
  <1>3. ASSUME req'[q] = req[q], todo'[q] = todo[q]
        PROVE  req[q] # None /\ Resetting(q) /\ ~SetPassword(q)
    <2>1. Resetting(q)
      BY <1>3 DEF Resetting
    <2>2. SetPassword(q) => todo'[q] = <<>>
      <3>1. SetPassword(q) => todo[q] = <<"password">>
        BY <2>1, ResettingIs, HeadIs DEF SetPassword, At, Resetting
      <3>2. SetPassword(q) => todo'[q] = Tail(todo[q])
        BY DEF SetPassword, Proceed, Steps
      <3>3. todo[q] = <<"password">> => Tail(todo[q]) = <<>>
        BY Tail1
      <3> QED
        BY <3>1, <3>2, <3>3
    <2>3. todo[q] # <<>>
      BY <2>1, ResettingIs
    <2> QED
      BY <1>3, <2>1, <2>2, <2>3, ResettingIs
  <1> QED
    BY <1>1, <1>2, <1>3, Moved

(* Only setting a password counts. *)
LEMMA ResetMoves ==
  ASSUME [Next]_vars
  PROVE  resets' = resets \/ \E p \in Process : SetPassword(p)
  <1>1. ASSUME NEW p \in Process, Own(p)
        PROVE  resets' = resets \/ SetPassword(p)
    BY <1>1 DEF Own, UserSteps, TokenSteps, SignInSteps, Read, Insert, ClearKey, Activate,
       SetStatus, Verify, Consume, Drop, Revoke, Create, Show, CheckMark, SetMark,
       ReadCount, Recount, SendMail, Crash, history
  <1> QED
    BY <1>1, NextIs DEF Start, Deliver, MailFails, LogOut, CacheExpires, TokenExpires, NextWindow,
       history, vars

(* A link that has set a password, or is about to, is dead and is nobody else's. *)
LEMMA NextResetsCounted ==
  ASSUME IInv, [Next]_vars
  PROVE  ResetsCounted'
  <1> USE DEF IInv, Core
  <1>1. \A t \in Token : tokens[t] # None /\ ~tokens[t].live => tokens'[t] # None /\ ~tokens'[t].live
    BY NextTokens DEF TokenKept
  <1>2. ASSUME NEW q \in Process, Consume(q), Usable(req[q]), tokens' = Deleted(req[q].token),
               req[q].token \in Token, tokens[req[q].token] \in TokenRecord
        PROVE  /\ ~tokens'[req[q].token].live /\ resets'[req[q].token] = 0
               /\ \A p \in Process : Resetting(p) => req[p].token # req[q].token
    <2>1. ~tokens'[req[q].token].live
      BY <1>2 DEF Deleted, TypeOK, TokenRecord
    <2>2. tokens[req[q].token].live
      BY <1>2 DEF Usable
    <2>3. resets[req[q].token] = 0 /\ \A p \in Process : Resetting(p) => req[p].token # req[q].token
      BY <1>2, <2>2 DEF ResetsCounted
    <2>4. resets' = resets
      BY <1>2 DEF Consume, history
    <2> QED
      BY <2>1, <2>3, <2>4
  <1>3. ASSUME NEW p \in Process, SetPassword(p)
        PROVE  /\ Resetting(p) /\ req[p].token \in Token
               /\ resets' = [resets EXCEPT ![req[p].token] = 1]
    <2>1. Resetting(p)
      BY <1>3, Busy, HeadIs DEF SetPassword, At, Resetting
    <2>2. resets[req[p].token] = 0 /\ req[p].token \in Token
      BY <2>1, ResettingIs DEF ResetsCounted
    <2> QED
      BY <1>3, <2>1, <2>2 DEF SetPassword
  <1>4. ASSUME NEW q \in Process, Resetting(q)'
        PROVE  ~tokens'[req'[q].token].live /\ resets'[req'[q].token] = 0
    <2>1. CASE Resetting(q) /\ ~SetPassword(q)
      <3>1. /\ req'[q].token = req[q].token /\ req[q].token \in Token
            /\ ~tokens'[req[q].token].live /\ resets[req[q].token] = 0
        BY <1>1, <1>4, <2>1, NextResetting, ResettingIs DEF ResetsCounted
      <3>2. resets'[req[q].token] = 0
        <4>1. ASSUME NEW p \in Process, SetPassword(p)
              PROVE  resets'[req[q].token] = 0
          <5>1. req[p].token # req[q].token
            BY <1>3, <2>1, <4>1 DEF ResetsCounted
          <5> QED
            BY <1>3, <3>1, <4>1, <5>1 DEF TypeOK
        <4> QED
          BY <3>1, <4>1, ResetMoves
      <3> QED
        BY <3>1, <3>2
    <2>2. CASE ~(Resetting(q) /\ ~SetPassword(q))
      BY <1>2, <1>4, <2>2, NextResetting
    <2> QED
      BY <2>1, <2>2
  <1>5. ASSUME NEW p \in Process, NEW q \in Process, Resetting(p)', Resetting(q)',
               req'[p].token = req'[q].token
        PROVE  p = q
    <2>1. req[p].token = req[q].token
      BY <1>5, NextResetting
    <2>2. CASE Resetting(p) /\ Resetting(q)
      BY <2>1, <2>2 DEF ResetsCounted
    <2>3. CASE ~Resetting(p) /\ Resetting(q)
      BY <1>2, <1>5, <2>1, <2>3, NextResetting
    <2>4. CASE Resetting(p) /\ ~Resetting(q)
      BY <1>2, <1>5, <2>1, <2>4, NextResetting
    <2>5. CASE ~Resetting(p) /\ ~Resetting(q)
      <3>1. Consume(p) /\ Consume(q)
        BY <1>5, <2>5, NextResetting
      <3> QED
        BY <3>1 DEF Consume, At, Proceed, Finish, Steps
    <2> QED
      BY <2>2, <2>3, <2>4, <2>5
  <1>6. ASSUME NEW t \in Token, resets'[t] # 0
        PROVE  resets'[t] = 1 /\ tokens'[t] # None /\ ~tokens'[t].live
    <2>1. CASE resets[t] # 0 /\ resets' = resets
      BY <1>1, <1>6, <2>1 DEF ResetsCounted
    <2>2. ASSUME NEW p \in Process, SetPassword(p)
          PROVE  resets'[t] = 1 /\ tokens'[t] # None /\ ~tokens'[t].live
      <3>1. CASE t = req[p].token
        <4>1. tokens[t] # None /\ ~tokens[t].live
          BY <1>3, <2>2, <3>1, ResettingIs DEF ResetsCounted
        <4> QED
          BY <1>1, <1>3, <2>2, <3>1, <4>1 DEF TypeOK
      <3>2. CASE t # req[p].token
        <4>1. resets'[t] = resets[t]
          BY <1>3, <2>2, <3>2 DEF TypeOK
        <4> QED
          BY <1>1, <1>6, <4>1 DEF ResetsCounted
      <3> QED
        BY <3>1, <3>2
    <2> QED
      BY <1>6, <2>1, <2>2, ResetMoves
  <1> QED
    BY <1>4, <1>5, <1>6 DEF ResetsCounted

-----------------------------------------------------------------------------
(* Wrong passwords are counted.                                              *)

(* What a request that counts is doing. *)
LEMMA CountingIs ==
  ASSUME IInv, NEW u \in User, NEW p \in Counting(u)
  PROVE  /\ p \in Process /\ todo[p] # <<>> /\ req[p] # None /\ req[p].user = u
         /\ req[p] \in RequestRecord /\ Head(todo[p]) \in {"count", "recount"}
  <1>1. p \in Process /\ todo[p] \in {<<"count", "recount">>, <<"recount">>} /\ req[p].user = u
    BY DEF Counting
  <1>2. todo[p] # <<>> /\ Head(todo[p]) \in {"count", "recount"}
    <2>1. CASE todo[p] = <<"count", "recount">>
      BY <2>1
    <2>2. CASE todo[p] = <<"recount">>
      BY <2>2
    <2> QED
      BY <1>1, <2>1, <2>2
  <1> QED
    BY <1>1, <1>2, Busy DEF IInv, Core

(* A request comes to count a wrong password by checking the mark. *)
LEMMA CountIs ==
  ASSUME NEW kind \in Kind, NEW s \in Rest(kind), s # <<>>
  PROVE  /\ Tail(s) = <<"recount">> => s = <<"count", "recount">>
         /\ Tail(s) = <<"count", "recount">> =>
              kind = "wrong_password" /\ s = <<"mark", "count", "recount">>
  <1> DEFINE mine == {<<"read", "mark", "count", "recount">>, <<"mark", "count", "recount">>,
                      <<"count", "recount">>, <<"recount">>, <<>>}
             ends == {<<"mail">>, <<"show">>, <<"drop">>, <<"status">>, <<"setmark">>, <<"password">>}
             pairs == {<<"read", "show">>, <<"activate", "drop">>, <<"mark", "setmark">>,
                       <<"read", "password">>}
  <1>1. kind = "wrong_password" => s \in mine
    BY DEF Rest
  <1>2. s \in mine => /\ Tail(s) = <<"recount">> => s = <<"count", "recount">>
                      /\ Tail(s) = <<"count", "recount">> => s = <<"mark", "count", "recount">>
    <2>1. CASE s = <<"read", "mark", "count", "recount">>
      <3>1. Tail(s) = <<"mark", "count", "recount">>
        BY <2>1, TailIs
      <3> QED
        BY <3>1
    <2>2. CASE s = <<"mark", "count", "recount">>
      <3>1. Tail(s) = <<"count", "recount">>
        BY <2>2, TailIs
      <3> QED
        BY <2>2, <3>1
    <2>3. CASE s = <<"count", "recount">>
      <3>1. Tail(s) = <<"recount">>
        BY <2>3, TailIs
      <3> QED
        BY <2>3, <3>1
    <2>4. CASE s = <<"recount">>
      <3>1. Tail(s) = <<>>
        BY <2>4, TailIs
      <3> QED
        BY <3>1
    <2> QED
      BY <2>1, <2>2, <2>3, <2>4
  <1>3. kind # "wrong_password" =>
          \/ Tail(s) = <<>> \/ Tail(s) \in BeforeIssue \/ Tail(s) \in ends \/ Tail(s) \in pairs
          \/ Tail(s) = <<"read", "activate", "drop">>
    BY TailIs DEF Rest, Kind, AdminKinds, LinkKinds, SignInKinds, SessionKinds, BeforeIssue
  <1>4. /\ <<"recount">> \notin ends /\ <<"recount">> \notin pairs
        /\ <<"recount">> \notin BeforeIssue /\ <<"recount">> # <<>>
        /\ <<"recount">> # <<"read", "activate", "drop">>
    BY DEF BeforeIssue
  <1>5. /\ <<"count", "recount">> \notin ends /\ <<"count", "recount">> \notin pairs
        /\ <<"count", "recount">> \notin BeforeIssue /\ <<"count", "recount">> # <<>>
        /\ <<"count", "recount">> # <<"read", "activate", "drop">>
    BY DEF BeforeIssue
  <1> HIDE DEF mine, ends, pairs
  <1> QED
    BY <1>1, <1>2, <1>3, <1>4, <1>5

(* A step that is called mark checks the mark, and so on, unless the handler dies. *)
LEMMA CountStepIs ==
  ASSUME NEW p \in Process, Own(p)
  PROVE  /\ Head(todo[p]) = "mark" => CheckMark(p) \/ Crash(p)
         /\ Head(todo[p]) = "count" => ReadCount(p) \/ Crash(p)
         /\ Head(todo[p]) = "recount" => Recount(p) \/ Crash(p)
  BY DEF Own, UserSteps, TokenSteps, SignInSteps, Read, Insert, ClearKey, Activate, SetStatus,
     SetPassword, Verify, Consume, Create, Drop, Revoke, Show, CheckMark, SetMark, ReadCount,
     Recount, SendMail, At

(* Who moves the counts. *)
LEMMA CountMoves ==
  ASSUME [Next]_vars
  PROVE  /\ retry' = retry \/ (\E u \in User : CacheExpires(u)) \/ \E p \in Process : Recount(p)
         /\ wrongs' = wrongs \/ \E p \in Process : CheckMark(p)
  <1>1. ASSUME NEW p \in Process, Own(p)
        PROVE  (retry' = retry \/ Recount(p)) /\ (wrongs' = wrongs \/ CheckMark(p))
    <2>1. CASE UserSteps(p)
      BY <2>1 DEF UserSteps, Read, Insert, ClearKey, Activate, SetStatus, SetPassword, SetUser,
         stores, history
    <2>2. CASE TokenSteps(p)
      BY <2>2 DEF TokenSteps, Verify, Consume, Drop, Revoke, Create, Show, SetTokens, stores, history
    <2>3. CASE SignInSteps(p)
      BY <2>3 DEF SignInSteps, CheckMark, SetMark, ReadCount, Recount, stores, history
    <2>4. CASE SendMail(p) \/ Crash(p)
      BY <2>4 DEF SendMail, Crash, stores, history
    <2> QED
      BY <1>1, <2>1, <2>2, <2>3, <2>4 DEF Own
  <1> QED
    BY <1>1, NextIs DEF Start, Deliver, MailFails, LogOut, CacheExpires, TokenExpires, NextWindow,
       SetTokens, stores, history, vars

(* A user is locked by a count that reached the limit. *)
LEMMA LockIs ==
  ASSUME IInv, [Next]_vars, NEW u \in User, user'[u].status = "locked", user[u].status # "locked"
  PROVE  \E p \in Process : Recount(p) /\ req[p].user = u /\ req[p].count >= RetryLimit
  <1> USE DEF IInv, Core
  <1>1. PICK p \in Process : WritesUser(p)
    BY UserMoves
  <1>2. todo[p] # <<>> /\ req[p].user \in User /\ req[p].kind \in Kind /\ user \in [User -> UserRow]
    BY <1>1, Busy DEF WritesUser, Insert, ClearKey, Activate, SetStatus, SetPassword, Recount, At, TypeOK
  <1>3. \A row : user' = [user EXCEPT ![req[p].user] = row] /\ row.status # "locked" => FALSE
    BY <1>2
  <1>4. ~Insert(p)
    BY <1>3 DEF Insert, SetUser, stores
  <1>5. ~ClearKey(p)
    <2>1. [user[req[p].user] EXCEPT !.key = None].status = user[req[p].user].status
      BY <1>2 DEF UserRow
    <2> QED
      BY <1>2, <2>1 DEF ClearKey, SetUser
  <1>6. ~Activate(p)
    <2>1. Activated(req[p], user[req[p].user], p).status = "active"
      BY <1>2 DEF Activated, UserRow
    <2> QED
      BY <1>3, <2>1 DEF Activate, SetUser
  <1>7. ~SetStatus(p)
    <2>1. \A status \in {"blocked", "active"} :
            [user[req[p].user] EXCEPT !.status = status].status # "locked"
      BY <1>2 DEF UserRow
    <2> QED
      BY <1>3, <2>1 DEF SetStatus, SetUser
  <1>8. ~SetPassword(p)
    <2>1. [user[req[p].user] EXCEPT !.password = p].status = user[req[p].user].status
      BY <1>2 DEF UserRow
    <2> QED
      BY <1>2, <2>1 DEF SetPassword, SetUser
  <1>9. Recount(p) /\ req[p].user = u /\ req[p].count >= RetryLimit
    <2>1. Recount(p)
      BY <1>1, <1>4, <1>5, <1>6, <1>7, <1>8 DEF WritesUser
    <2>2. req[p].count >= RetryLimit
      BY <2>1 DEF Recount
    <2> QED
      BY <1>2, <2>1, <2>2 DEF Recount, SetUser
  <1> QED
    BY <1>9

(* Fewer that count, and a count that is kept or forgotten, stay within bounds. *)
LEMMA StaysBounded ==
  ASSUME IInv, [Next]_vars, NEW u \in User,
         Counting(u)' \subseteq Counting(u),
         wrongs'[u] = wrongs[u],
         user'[u].status = "locked" => wrongs[u] >= RetryLimit,
         retry'[u] \in {0, retry[u]},
         \A p \in Counting(u)' :
           todo'[p] = <<"recount">> => todo[p] = <<"recount">> /\ req'[p].count = req[p].count
  PROVE  CountBounded(u)'
  <1> USE DEF IInv, Core
  <1> DEFINE n == Cardinality(Counting(u))
  <1>1. CountBounded(u)
    BY DEF CountsBounded
  <1>2. IsFiniteSet(Counting(u)) /\ n \in Nat
    BY <1>1, FS_CardinalityType DEF CountBounded
  <1>3. IsFiniteSet(Counting(u)') /\ Cardinality(Counting(u)') <= n
    BY <1>2, FS_Subset
  <1>4. Cardinality(Counting(u)') \in Nat
    BY <1>3, FS_CardinalityType
  <1>5. retry[u] \in Nat /\ wrongs[u] \in Nat
    BY DEF TypeOK
  <1>6. \A p \in Counting(u) : req[p].count \in Nat
    BY CountingIs DEF RequestRecord
  <1> QED
    BY <1>1, <1>2, <1>3, <1>4, <1>5, <1>6 DEF CountBounded

(* A wrong password that is found by the mark and will be counted. *)
Wrong(p) == CheckMark(p) /\ ~MarkRefuses(req[p]) /\ req[p].kind = "wrong_password"

(* Who counts after a step counted before it, or has just found a wrong password. *)
LEMMA NextCounting ==
  ASSUME IInv, [Next]_vars, NEW u \in User, NEW q \in Counting(u)'
  PROVE  \/ /\ q \in Counting(u) /\ ~Recount(q)
            /\ todo'[q] = <<"recount">> =>
                 \/ todo[q] = <<"recount">> /\ req'[q].count = req[q].count
                 \/ ReadCount(q)
         \/ Wrong(q) /\ req[q].user = u
  <1> USE DEF IInv, Core
  <1>1. /\ q \in Process /\ req'[q].user = u
        /\ todo'[q] \in {<<"count", "recount">>, <<"recount">>}
    BY DEF Counting
  <1>2. <<>> \notin {<<"count", "recount">>, <<"recount">>}
    OBVIOUS
  <1>3. ASSUME NEW r \in Request, Start(q, r)
        PROVE  FALSE
    <2>1. todo'[q] = Plan(r.kind) /\ r.kind \in Kind
      BY <1>1, <1>3, Started DEF Start, Steps
    <2> QED
      BY <1>1, <2>1, PlanIs
  <1>4. CASE req'[q] = req[q] /\ todo'[q] = todo[q]
    <2>1. q \in Counting(u)
      BY <1>1, <1>4 DEF Counting
    <2>2. Recount(q) => todo'[q] = <<>>
      <3>1. Recount(q) => todo[q] = <<"recount">> /\ todo'[q] = Tail(todo[q])
        BY <2>1, Busy, HeadIs, CountingIs DEF Recount, At, Proceed, Steps
      <3> QED
        BY <3>1, Tail1
    <2> QED
      BY <1>1, <1>2, <1>4, <2>1, <2>2
  <1>5. CASE Own(q) /\ todo'[q] \in {<<>>, Tail(todo[q])}
    <2>1. /\ todo[q] # <<>> /\ req[q].user = u
          /\ req[q].kind \in Kind /\ todo[q] \in Rest(req[q].kind)
      BY <1>1, <1>5, OwnStep, Busy
    <2>2. todo'[q] = Tail(todo[q]) /\ ~Crash(q)
      BY <1>1, <1>2, <1>5 DEF Crash, Finish, Steps
    <2>3. CASE todo'[q] = <<"recount">>
      <3>1. todo[q] = <<"count", "recount">>
        BY <2>1, <2>2, <2>3, CountIs
      <3>2. Head(todo[q]) = "count"
        BY <3>1
      <3>3. ReadCount(q) /\ ~Recount(q)
        BY <1>1, <1>5, <2>2, <3>2, CountStepIs DEF Recount, At
      <3> QED
        BY <1>1, <2>1, <3>1, <3>3 DEF Counting
    <2>4. CASE todo'[q] = <<"count", "recount">>
      <3>1. todo[q] = <<"mark", "count", "recount">> /\ req[q].kind = "wrong_password"
        BY <2>1, <2>2, <2>4, CountIs
      <3>2. Head(todo[q]) = "mark"
        BY <3>1
      <3>3. CheckMark(q)
        BY <1>1, <1>5, <2>2, <3>2, CountStepIs
      <3>4. MarkRefuses(req[q]) => todo'[q] = <<>>
        BY <1>1, <3>3 DEF CheckMark, Finish, Steps
      <3> QED
        BY <1>1, <1>2, <2>1, <3>1, <3>3, <3>4 DEF Wrong
    <2> QED
      BY <1>1, <2>3, <2>4
  <1> QED
    BY <1>1, <1>3, <1>4, <1>5, Moved

(* Counts stay within bounds for the user whose wrong password was found. *)
LEMMA WrongBounded ==
  ASSUME IInv, [Next]_vars, NEW p \in Process, Wrong(p)
  PROVE  CountBounded(req[p].user)'
  <1> USE DEF IInv, Core
  <1> DEFINE u == req[p].user  C == Counting(u)  n == Cardinality(C)
  <1>1. /\ todo[p] = <<"mark", "count", "recount">> /\ u \in User /\ req[p] # None
        /\ todo'[p] = Tail(todo[p]) /\ req' = req
    BY Busy, HeadIs DEF Wrong, CheckMark, At, Proceed, Steps
  <1>2. todo'[p] = <<"count", "recount">>
    BY <1>1, TailIs
  <1>3. \A q \in Process : q # p => todo'[q] = todo[q]
    BY DEF Wrong, CheckMark, Proceed, Steps
  <1>4. p \notin C
    <2>1. p \in C => Head(todo[p]) \in {"count", "recount"}
      BY <1>1, CountingIs
    <2>2. Head(todo[p]) = "mark"
      BY <1>1
    <2> QED
      BY <2>1, <2>2
  <1>5. C' = C \cup {p}
    BY <1>1, <1>2, <1>3 DEF Counting
  <1>6. CountBounded(u) /\ retry[u] \in Nat /\ wrongs[u] \in Nat /\ \A q \in C : req[q].count \in Nat
    BY <1>1, CountingIs DEF CountsBounded, TypeOK, RequestRecord
  <1>7. IsFiniteSet(C) /\ n \in Nat
    BY <1>6, FS_CardinalityType DEF CountBounded
  <1>8. IsFiniteSet(C') /\ Cardinality(C') = n + 1
    BY <1>4, <1>5, <1>7, FS_AddElement
  <1>9. wrongs'[u] = wrongs[u] + 1 /\ retry' = retry /\ user' = user
    BY <1>1 DEF Wrong, CheckMark, TypeOK, stores
  <1>10. <<"count", "recount">> # <<"recount">>
    OBVIOUS
  <1>11. \A q \in C' : todo'[q] = <<"recount">> => req'[q].count + (n + 1) <= wrongs'[u] + 1
    <2> SUFFICES ASSUME NEW q \in C', todo'[q] = <<"recount">>
                 PROVE  req[q].count + (n + 1) <= wrongs'[u] + 1
      BY <1>1
    <2>1. q \in C /\ todo[q] = <<"recount">> /\ q # p
      BY <1>2, <1>3, <1>5, <1>10 DEF Counting
    <2> QED
      BY <1>6, <1>7, <1>9, <2>1 DEF CountBounded
  <1> HIDE DEF C, n
  <1>12. /\ n + 1 <= wrongs'[u] /\ retry'[u] + (n + 1) <= wrongs'[u] + 1
         /\ user'[u].status = "locked" => wrongs'[u] >= RetryLimit
    <2>1. /\ n <= wrongs[u] /\ retry[u] + n <= wrongs[u] + 1
          /\ user[u].status = "locked" => wrongs[u] >= RetryLimit
      BY <1>6 DEF CountBounded, C, n
    <2> QED
      BY <1>6, <1>7, <1>9, <2>1, PortalAssumption
  <1>13. u' = u
    BY <1>1
  <1> QED
    BY <1>8, <1>11, <1>12, <1>13 DEF CountBounded, C, n

(* A count that is read is at most the wrong passwords found. *)
LEMMA ReadBounded ==
  ASSUME IInv, [Next]_vars, NEW p \in Process, ReadCount(p), NEW u \in User, req[p].user = u
  PROVE  CountBounded(u)'
  <1> USE DEF IInv, Core
  <1> DEFINE C == Counting(u)  n == Cardinality(C)
  <1>1. /\ todo[p] = <<"count", "recount">> /\ req[p] # None /\ req[p] \in RequestRecord
        /\ todo'[p] = Tail(todo[p]) /\ req'[p] = [req[p] EXCEPT !.count = Count(u)]
    BY Busy, HeadIs DEF ReadCount, At, Proceed, Steps, TypeOK
  <1>2. todo'[p] = <<"recount">> /\ req'[p].user = u /\ req'[p].count = Count(u)
    BY <1>1, TailIs DEF RequestRecord
  <1>3. \A q \in Process : q # p => todo'[q] = todo[q] /\ req'[q] = req[q]
    BY DEF ReadCount, Proceed, Steps, TypeOK
  <1>4. C' = C
    BY <1>1, <1>2, <1>3 DEF Counting
  <1>5. CountBounded(u) /\ retry[u] \in Nat /\ wrongs[u] \in Nat /\ \A q \in C : req[q].count \in Nat
    BY CountingIs DEF CountsBounded, TypeOK, RequestRecord
  <1>6. IsFiniteSet(C) /\ n \in Nat
    BY <1>5, FS_CardinalityType DEF CountBounded
  <1>7. wrongs' = wrongs /\ retry' = retry /\ user' = user
    BY DEF ReadCount, stores, history
  <1>8. Count(u) + n <= wrongs[u] + 1
    BY <1>5, <1>6 DEF CountBounded, Count
  <1>9. \A q \in C' : todo'[q] = <<"recount">> => req'[q].count + n <= wrongs'[u] + 1
    <2> SUFFICES ASSUME NEW q \in C', todo'[q] = <<"recount">>
                 PROVE  req'[q].count + n <= wrongs[u] + 1
      BY <1>7
    <2>1. CASE q = p
      BY <1>2, <1>8, <2>1
    <2>2. CASE q # p
      BY <1>3, <1>4, <1>5, <2>2 DEF CountBounded, Counting
    <2> QED
      BY <2>1, <2>2
  <1> QED
    BY <1>4, <1>5, <1>7, <1>9 DEF CountBounded

(* A count that is written is at most the wrong passwords found, and locks with cause. *)
LEMMA RecountBounded ==
  ASSUME IInv, [Next]_vars, NEW p \in Process, Recount(p), NEW u \in User, req[p].user = u
  PROVE  CountBounded(u)'
  <1> USE DEF IInv, Core
  <1> DEFINE C == Counting(u)  n == Cardinality(C)
  <1>1. /\ todo[p] = <<"recount">> /\ req[p] # None /\ req[p] \in RequestRecord
        /\ todo'[p] = Tail(todo[p]) /\ req' = req
    BY Busy, HeadIs DEF Recount, At, Proceed, Steps
  <1>2. todo'[p] = <<>>
    BY <1>1, Tail1
  <1>3. \A q \in Process : q # p => todo'[q] = todo[q]
    BY DEF Recount, Proceed, Steps
  <1>4. p \in C
    BY <1>1 DEF Counting
  <1>5. C' = C \ {p}
    <2>1. <<>> \notin {<<"count", "recount">>, <<"recount">>}
      OBVIOUS
    <2> QED
      BY <1>1, <1>2, <1>3, <2>1 DEF Counting
  <1>6. CountBounded(u) /\ retry[u] \in Nat /\ wrongs[u] \in Nat /\ \A q \in C : req[q].count \in Nat
    BY CountingIs DEF CountsBounded, TypeOK, RequestRecord
  <1>7. IsFiniteSet(C) /\ n \in Nat
    BY <1>6, FS_CardinalityType DEF CountBounded
  <1>8. IsFiniteSet(C') /\ Cardinality(C') = n - 1 /\ Cardinality(C') \in Nat
    <2>1. IsFiniteSet(C') /\ Cardinality(C') = n - 1
      BY <1>4, <1>5, <1>7, FS_RemoveElement
    <2> QED
      BY <2>1, FS_CardinalityType
  <1>9. wrongs' = wrongs
    BY DEF Recount, history
  <1>10. req[p].count + n <= wrongs[u] + 1 /\ req[p].count \in Nat
    BY <1>1, <1>4, <1>6 DEF CountBounded
  <1>11. \A q \in C' : todo'[q] = <<"recount">> => req'[q].count + (n - 1) <= wrongs'[u] + 1
    <2> SUFFICES ASSUME NEW q \in C', todo'[q] = <<"recount">>
                 PROVE  req[q].count + (n - 1) <= wrongs[u] + 1
      BY <1>1, <1>9
    <2>1. q \in C /\ todo[q] = <<"recount">>
      BY <1>3, <1>5 DEF Counting
    <2> QED
      BY <1>6, <1>7, <2>1 DEF CountBounded
  <1>12. n - 1 <= wrongs[u] /\ (user[u].status = "locked" => wrongs[u] >= RetryLimit)
    BY <1>6, <1>7 DEF CountBounded
  <1>13. CASE req[p].count >= RetryLimit
    <2>1. retry' = retry
      BY <1>13 DEF Recount, SetUser
    <2>2. wrongs[u] >= RetryLimit
      BY <1>6, <1>7, <1>8, <1>10, <1>13, PortalAssumption
    <2>3. retry[u] + (n - 1) <= wrongs[u] + 1
      BY <1>6, <1>7 DEF CountBounded
    <2> QED
      BY <1>8, <1>9, <1>11, <1>12, <2>1, <2>2, <2>3 DEF CountBounded
  <1>14. CASE ~(req[p].count >= RetryLimit)
    <2>1. retry'[u] = req[p].count + 1 /\ user' = user
      BY <1>14 DEF Recount, TypeOK
    <2>2. retry'[u] + (n - 1) <= wrongs[u] + 1
      BY <1>7, <1>10, <2>1
    <2> QED
      BY <1>8, <1>9, <1>11, <1>12, <2>1, <2>2 DEF CountBounded
  <1> QED
    BY <1>13, <1>14

(* Every step keeps the counts within bounds. *)
LEMMA NextCountsBounded ==
  ASSUME IInv, [Next]_vars
  PROVE  CountsBounded'
  <1> USE DEF IInv, Core
  <1> SUFFICES ASSUME NEW u \in User
               PROVE  CountBounded(u)'
    BY DEF CountsBounded
  <1>1. ASSUME NEW p \in Process, Wrong(p), req[p].user = u
        PROVE  CountBounded(u)'
    <2>1. req'[p].user = u
      BY <1>1 DEF Wrong, CheckMark
    <2> QED
      BY <1>1, <2>1, WrongBounded
  <1>2. ASSUME NEW p \in Process, ReadCount(p) \/ Recount(p), req[p].user = u
        PROVE  CountBounded(u)'
    BY <1>2, ReadBounded, RecountBounded
  <1>3. ASSUME \A p \in Process : req[p].user = u => ~Wrong(p) /\ ~ReadCount(p) /\ ~Recount(p)
        PROVE  CountBounded(u)'
    <2>1. \A q \in Counting(u)' :
            /\ q \in Counting(u)
            /\ todo'[q] = <<"recount">> => todo[q] = <<"recount">> /\ req'[q].count = req[q].count
      BY <1>3, NextCounting, CountingIs DEF Counting
    <2>2. wrongs'[u] = wrongs[u]
      <3>1. ASSUME NEW p \in Process, CheckMark(p)
            PROVE  wrongs'[u] = wrongs[u]
        <4>1. Wrong(p) \/ wrongs' = wrongs
          BY <3>1 DEF CheckMark, Wrong
        <4>2. Wrong(p) => wrongs' = [wrongs EXCEPT ![req[p].user] = @ + 1]
          BY DEF CheckMark, Wrong
        <4> QED
          BY <1>3, <4>1, <4>2 DEF TypeOK
      <3> QED
        BY <3>1, CountMoves
    <2>3. retry'[u] \in {0, retry[u]}
      <3>1. ASSUME NEW p \in Process, Recount(p)
            PROVE  retry'[u] = retry[u]
        <4>1. retry' = retry \/ retry' = [retry EXCEPT ![req[p].user] = req[p].count + 1]
          BY <3>1 DEF Recount, SetUser
        <4> QED
          BY <1>3, <3>1, <4>1 DEF TypeOK
      <3>2. ASSUME NEW v \in User, CacheExpires(v)
            PROVE  retry'[u] \in {0, retry[u]}
        BY <3>2 DEF CacheExpires, TypeOK
      <3> QED
        BY <3>1, <3>2, CountMoves
    <2>4. user'[u].status = "locked" => wrongs[u] >= RetryLimit
      BY <1>3, LockIs DEF CountsBounded, CountBounded
    <2>5. Counting(u)' \subseteq Counting(u)
      BY <2>1
    <2> QED
      BY <2>1, <2>2, <2>3, <2>4, <2>5, StaysBounded
  <1> QED
    BY <1>1, <1>2, <1>3

-----------------------------------------------------------------------------
(* A link to the set-up is kept.                                             *)

(* Without faults, nothing dies and nothing expires. *)
LEMMA FaultFree ==
  ASSUME IInv, [Next]_vars, faults' = 0
  PROVE  /\ faults = 0
         /\ \A p \in Process : ~Crash(p)
         /\ \A t \in Token : ~TokenExpires(t)
  <1>1. faults \in Nat
    BY PortalAssumption DEF IInv, Core, TypeOK
  <1>2. (\A p \in Process : ~Crash(p)) /\ \A t \in Token : ~TokenExpires(t)
    BY <1>1 DEF Crash, TokenExpires
  <1>3. ASSUME NEW p \in Process, Own(p)
        PROVE  faults' = faults
    BY <1>2, <1>3 DEF Own, UserSteps, TokenSteps, SignInSteps, Read, Insert, ClearKey, Activate,
       SetStatus, SetPassword, Verify, Consume, Drop, Revoke, Create, Show, CheckMark, SetMark,
       ReadCount, Recount, SendMail, history
  <1>4. faults' = faults \/ faults' = faults + 1
    BY <1>3, NextIs DEF Start, Deliver, MailFails, LogOut, CacheExpires, TokenExpires, NextWindow,
       history, vars
  <1> QED
    BY <1>1, <1>2, <1>4

(* What comes before a set-up and its end. *)
LEMMA SetUpIs ==
  ASSUME NEW kind \in Kind, NEW s \in Rest(kind), s # <<>>
  PROVE  /\ s \in {<<"activate", "drop">>, <<"drop">>} => kind = "complete"
         /\ Tail(s) = <<"activate", "drop">> => Head(s) = "read" /\ kind = "complete"
         /\ Tail(s) = <<"drop">> => s = <<"activate", "drop">>
  <1>1. s \in {<<"activate", "drop">>, <<"drop">>} => kind = "complete"
    BY DEF Rest, Kind, AdminKinds, LinkKinds, SignInKinds, SessionKinds
  <1>2. Tail(s) = <<"activate", "drop">> => Head(s) = "read"
    BY AfterRead
  <1>3. kind = "complete" => (Tail(s) = <<"drop">> => s = <<"activate", "drop">>)
    <2>1. kind = "complete" =>
            \/ s = <<"activate", "drop">>
            \/ Tail(s) \in {<<"read", "activate", "drop">>, <<"activate", "drop">>, <<>>}
      BY TailIs DEF Rest
    <2>2. <<"drop">> \notin {<<"read", "activate", "drop">>, <<"activate", "drop">>, <<>>}
      OBVIOUS
    <2> QED
      BY <2>1, <2>2
  <1>4. kind # "complete" => Tail(s) # <<"activate", "drop">> /\ Tail(s) # <<"drop">>
    <2> DEFINE ends == {<<"mail">>, <<"show">>, <<"recount">>, <<"status">>, <<"setmark">>,
                        <<"password">>, <<"count", "recount">>, <<"read", "show">>,
                        <<"mark", "setmark">>, <<"read", "password">>,
                        <<"mark", "count", "recount">>}
    <2>1. kind # "complete" =>
            \/ Tail(s) = <<>> \/ Tail(s) \in BeforeIssue \/ Tail(s) \in ends
      BY TailIs DEF Rest, Kind, AdminKinds, LinkKinds, SignInKinds, SessionKinds, BeforeIssue
    <2>2. /\ <<"drop">> \notin ends /\ <<"drop">> \notin BeforeIssue /\ <<"drop">> # <<>>
      BY DEF BeforeIssue
    <2>3. /\ <<"activate", "drop">> \notin ends /\ <<"activate", "drop">> \notin BeforeIssue
          /\ <<"activate", "drop">> # <<>>
      BY DEF BeforeIssue
    <2> HIDE DEF ends
    <2> QED
      BY <2>1, <2>2, <2>3
  <1> QED
    BY <1>1, <1>2, <1>3, <1>4

(* A set-up that drops its link has one. *)
LEMMA StaleIs ==
  ASSUME IInv, NEW q \in Process, Stale(q)
  PROVE  /\ todo[q] # <<>> /\ req[q] # None /\ req[q].kind = "complete"
         /\ req[q].token \in Token /\ Issues(req[q].token, req[q].user)
  <1>1. todo[q] \in {<<"activate", "drop">>, <<"drop">>} /\ todo[q] # <<>>
    <2>1. <<>> \notin {<<"activate", "drop">>, <<"drop">>}
      OBVIOUS
    <2>2. todo[q] \in {<<"activate", "drop">>, <<"drop">>}
      BY DEF Stale
    <2> QED
      BY <2>1, <2>2
  <1>2. req[q] # None /\ req[q].kind \in Kind /\ todo[q] \in Rest(req[q].kind)
    BY <1>1, Busy DEF IInv, Core
  <1>3. req[q].kind = "complete"
    BY <1>1, <1>2, SetUpIs
  <1> QED
    BY <1>1, <1>2, <1>3 DEF IInv, Links, LinkKinds

(* A step with one of these names does what it says, unless the handler dies. *)
LEMMA SetUpStepIs ==
  ASSUME NEW p \in Process, Own(p)
  PROVE  /\ Head(todo[p]) = "activate" => Activate(p) \/ Crash(p)
         /\ Head(todo[p]) = "clear" => ClearKey(p) \/ Crash(p)
         /\ Head(todo[p]) = "revoke" => Revoke(p) \/ Crash(p)
  BY DEF Own, UserSteps, TokenSteps, SignInSteps, Read, Insert, ClearKey, Activate, SetStatus,
     SetPassword, Verify, Consume, Create, Drop, Revoke, Show, CheckMark, SetMark, ReadCount,
     Recount, SendMail, At

(* A set-up comes to drop a link without setting up an authenticator by reading that there
   is one; or it has just set it up. *)
LEMMA NextStale ==
  ASSUME IInv, [Next]_vars, NEW q \in Process, Stale(q)'
  PROVE  /\ req'[q] # None /\ req'[q].kind = "complete" /\ req'[q].user = req[q].user
         /\ req'[q].token = req[q].token /\ req[q].token \in Token
         /\ Issues(req[q].token, req[q].user)
         /\ \/ Stale(q)
            \/ Read(q) /\ user[req[q].user].key # None
            \/ Activate(q) /\ req[q].row.key = None
  <1> USE DEF IInv, Core
  <1>1. /\ todo'[q] \in {<<"activate", "drop">>, <<"drop">>}
        /\ todo'[q] = <<"activate", "drop">> => req'[q].row.key # None
    <2>1. <<"activate", "drop">> # <<"drop">>
      OBVIOUS
    <2> QED
      BY <2>1 DEF Stale
  <1>2. <<>> \notin {<<"activate", "drop">>, <<"drop">>}
    OBVIOUS
  <1>3. ASSUME NEW r \in Request, Start(q, r)
        PROVE  FALSE
    <2>1. todo'[q] = Plan(r.kind) /\ r.kind \in Kind
      BY <1>3, Started DEF Start, Steps
    <2> QED
      BY <1>1, <2>1, PlanIs
  <1>4. CASE req'[q] = req[q] /\ todo'[q] = todo[q]
    <2>1. Stale(q)
      BY <1>4 DEF Stale
    <2> QED
      BY <1>4, <2>1, StaleIs
  <1>5. CASE Own(q) /\ todo'[q] \in {<<>>, Tail(todo[q])}
    <2>1. /\ todo[q] # <<>> /\ req[q] # None /\ req[q] \in RequestRecord /\ req'[q] # None
          /\ req'[q].kind = req[q].kind /\ req'[q].user = req[q].user
          /\ req'[q].token = req[q].token
          /\ req[q].kind \in Kind /\ todo[q] \in Rest(req[q].kind)
      BY <1>5, OwnStep, Busy
    <2>2. todo'[q] = Tail(todo[q]) /\ ~Crash(q)
      BY <1>1, <1>2, <1>5 DEF Crash, Finish, Steps
    <2>3. CASE todo'[q] = <<"activate", "drop">>
      <3>1. Head(todo[q]) = "read" /\ req[q].kind = "complete"
        BY <2>1, <2>2, <2>3, SetUpIs
      <3>2. Read(q)
        BY <1>5, <2>2, <3>1, ReadIs
      <3>3. Refused(req[q], user[req[q].user]) => todo'[q] = <<>>
        BY <3>2 DEF Read, Finish, Steps
      <3>4. req'[q].row = user[req[q].user]
        BY <1>1, <1>2, <2>1, <3>2, <3>3 DEF Read, TypeOK, RequestRecord
      <3> QED
        BY <1>1, <2>1, <2>3, <3>1, <3>2, <3>4 DEF Links, LinkKinds
    <2>4. CASE todo'[q] = <<"drop">>
      <3>1. todo[q] = <<"activate", "drop">>
        BY <2>1, <2>2, <2>4, SetUpIs
      <3>2. Head(todo[q]) = "activate"
        BY <3>1
      <3>3. Activate(q)
        BY <1>5, <2>2, <3>2, SetUpStepIs
      <3>4. req[q].kind = "complete"
        BY <2>1, <3>1, SetUpIs
      <3> QED
        BY <2>1, <3>1, <3>3, <3>4 DEF Links, LinkKinds, Stale
    <2> QED
      BY <1>1, <2>3, <2>4
  <1> QED
    BY <1>1, <1>3, <1>4, <1>5, Moved

(* What comes after each step of a request that will issue a link. *)
LEMMA FirmIs ==
  ASSUME IInv, NEW p \in Process, Firm(p)
  PROVE  /\ todo[p] # <<>> /\ req[p] # None
         /\ req[p].kind \in {"invite", "resend", "reset_otp"}
         /\ TypeOf(req[p].kind) \in {"invite", "otp_reset"}
         /\ \/ /\ Head(todo[p]) \in {"clear", "revoke"}
               /\ Tail(todo[p]) \in {<<"revoke", "create", "mail">>, <<"create", "mail">>}
            \/ Head(todo[p]) = "create"
  <1>1. /\ todo[p] \in {<<"clear", "revoke", "create", "mail">>, <<"revoke", "revoke", "create", "mail">>,
                        <<"revoke", "create", "mail">>, <<"create", "mail">>}
        /\ req[p].kind \in {"invite", "resend", "reset_otp"}
    BY DEF Firm
  <1>2. todo[p] # <<>>
    BY <1>1
  <1>3. req[p] # None
    BY <1>2, Busy DEF IInv, Core
  <1>4. TypeOf(req[p].kind) \in {"invite", "otp_reset"}
    BY <1>1 DEF TypeOf
  <1>5. \/ /\ Head(todo[p]) \in {"clear", "revoke"}
           /\ Tail(todo[p]) \in {<<"revoke", "create", "mail">>, <<"create", "mail">>}
        \/ Head(todo[p]) = "create"
    BY <1>1, TailIs
  <1> QED
    BY <1>1, <1>2, <1>3, <1>4, <1>5

(* A link that has just been issued is nobody's to drop. *)
LEMMA NewIsFresh ==
  ASSUME IInv, [Next]_vars, NEW p \in Process, Create(p),
         TypeOf(req[p].kind) \in {"invite", "otp_reset"}
  PROVE  Fresh(p)' /\ tokens'[p] # None /\ tokens'[p].user = req[p].user
  <1>1. /\ tokens[p] = None /\ tokens'[p] # None /\ tokens'[p].live
        /\ tokens'[p].type \in {"invite", "otp_reset"} /\ tokens'[p].user = req[p].user
    BY Created
  <1>2. ASSUME NEW q \in Process, Stale(q)'
        PROVE  req'[q].token # p
    BY <1>1, <1>2, NextStale DEF Issues
  <1> QED
    BY <1>1, <1>2 DEF Fresh

(* A request that will issue a link does so, or still will. *)
LEMMA FirmKept ==
  ASSUME IInv, [Next]_vars, faults' = 0, NEW p \in Process, Firm(p)
  PROVE  /\ req'[p] # None /\ req'[p].user = req[p].user
         /\ \/ Firm(p)'
            \/ tokens'[p] # None /\ tokens'[p].user = req[p].user /\ Fresh(p)'
  <1>1. /\ todo[p] # <<>> /\ req[p] # None
        /\ req[p].kind \in {"invite", "resend", "reset_otp"}
        /\ TypeOf(req[p].kind) \in {"invite", "otp_reset"}
        /\ \/ /\ Head(todo[p]) \in {"clear", "revoke"}
              /\ Tail(todo[p]) \in {<<"revoke", "create", "mail">>, <<"create", "mail">>}
           \/ Head(todo[p]) = "create"
    BY FirmIs
  <1>2. req'[p] # None /\ req'[p].kind = req[p].kind /\ req'[p].user = req[p].user
    BY <1>1, Asked
  <1>3. CASE req'[p] = req[p] /\ todo'[p] = todo[p]
    BY <1>2, <1>3 DEF Firm
  <1>4. CASE Own(p) /\ Head(todo[p]) = "create"
    <2>1. Create(p)
      BY <1>4, CreateIs, FaultFree
    <2> QED
      BY <1>1, <1>2, <2>1, NewIsFresh
  <1>5. CASE Own(p) /\ Head(todo[p]) \in {"clear", "revoke"}
    <2>1. ClearKey(p) \/ Revoke(p)
      BY <1>5, SetUpStepIs, FaultFree
    <2>2. todo'[p] = Tail(todo[p])
      BY <2>1 DEF ClearKey, Revoke, Proceed, IInv, Core, Steps
    <2>3. todo'[p] \in {<<"revoke", "create", "mail">>, <<"create", "mail">>}
      BY <1>1, <1>5, <2>2
    <2> QED
      BY <1>1, <1>2, <2>3 DEF Firm
  <1>6. ~(\E r \in Request : Start(p, r))
    BY <1>1 DEF Start
  <1> QED
    BY <1>1, <1>3, <1>4, <1>5, <1>6, Moved

(* A link a user relies on stays, or whoever revokes it will issue another. *)
LEMMA FreshKept ==
  ASSUME IInv, [Next]_vars, faults' = 0, NEW u \in User, NEW t \in Token,
         Issues(t, u), Fresh(t), user[u].key = None, user'[u].key = None
  PROVE  \/ Issues(t, u)' /\ Fresh(t)'
         \/ \E p \in Process : req'[p] # None /\ req'[p].user = u /\ Firm(p)'
  <1> USE DEF IInv, Core
  <1>1. Issues(t, u)' /\ tokens'[t].type = tokens[t].type
    BY IssuesKept
  <1>2. ASSUME NEW q \in Process, Stale(q)'
        PROVE  req'[q].token # t
    <2> SUFFICES ASSUME req'[q].token = t
                 PROVE  FALSE
      OBVIOUS
    <2>1. /\ req[q].token = t /\ req[q].user = u
          /\ \/ Stale(q)
             \/ Read(q) /\ user[req[q].user].key # None
             \/ Activate(q) /\ req[q].row.key = None
      BY <1>2, NextStale DEF Issues
    <2>2. ~Stale(q)
      BY <2>1 DEF Fresh
    <2>3. Activate(q) /\ req[q].row.key = None
      BY <2>1, <2>2
    <2>4. req[q].secret # None /\ user[u] \in UserRow
      <3>1. todo[q] = <<"activate", "drop">>
        BY <2>3, Busy, HeadIs DEF Activate, At
      <3> QED
        BY <2>3, <3>1 DEF RowsRead, RowRead, TypeOK
    <2>5. user'[u] = Activated(req[q], user[u], q)
      BY <2>1, <2>3 DEF Activate, SetUser, TypeOK
    <2>6. user'[u].key = req[q].secret
      BY <2>3, <2>4, <2>5 DEF Activated, UserRow
    <2> QED
      BY <2>4, <2>6
  <1>3. CASE tokens'[t].live
    BY <1>1, <1>2, <1>3 DEF Fresh
  <1>4. CASE ~tokens'[t].live
    <2>1. tokens' # tokens /\ tokens[t] \in TokenRecord /\ tokens[t].live
      BY <1>4 DEF Fresh, TypeOK, Issues
    <2>2. PICK p \in Process : WritesTokens(p)
      BY <2>1, TokenMoves, FaultFree
    <2>3. /\ todo[p] # <<>> /\ req[p] # None /\ req[p] \in RequestRecord
          /\ req[p].kind \in Kind /\ todo[p] \in Rest(req[p].kind)
      BY <2>2, Busy DEF WritesTokens, Consume, Drop, Revoke, Create, Show, At
    <2>4. ~Consume(p)
      <3>1. Consume(p) => tokens' = Deleted(req[p].token) /\ Usable(req[p]) /\ req[p].kind = "reset_password"
        BY <2>1, <2>3, HeadIs DEF Consume, SetTokens, Consumed, stores, At
      <3>2. Consume(p) => req[p].token = t
        BY <1>4, <2>1, <3>1 DEF Deleted, TypeOK
      <3> QED
        BY <3>1, <3>2 DEF Usable, Accepts, Fresh
    <2>5. ~Drop(p)
      <3>1. Drop(p) => Stale(p) /\ tokens' = Deleted(req[p].token)
        BY <2>3, HeadIs DEF Drop, SetTokens, Stale, At
      <3>2. Drop(p) => req[p].token = t
        BY <1>4, <2>1, <3>1 DEF Deleted, TypeOK
      <3> QED
        BY <3>1, <3>2 DEF Fresh
    <2>6. ~Create(p)
      <3>1. Create(p) => p # t
        BY Created DEF Issues
      <3>2. Create(p) /\ p # t => tokens'[t] = tokens[t]
        BY DEF Create, SetTokens, TypeOK
      <3> QED
        BY <1>4, <2>1, <3>1, <3>2
    <2>7. ~Show(p)
      <3> SUFFICES ASSUME Show(p)
                   PROVE  tokens'[t].live
        BY <1>4
      <3>1. \/ tokens' = tokens
            \/ \E shown : tokens' = [tokens EXCEPT ![req[p].token].secret = shown]
        BY DEF Show, SetTokens, stores
      <3>2. ASSUME NEW shown, tokens' = [tokens EXCEPT ![req[p].token].secret = shown]
            PROVE  tokens'[t].live
        <4>1. tokens'[t] = IF t = req[p].token THEN [tokens[t] EXCEPT !.secret = shown] ELSE tokens[t]
          BY <3>2 DEF TypeOK
        <4>2. [tokens[t] EXCEPT !.secret = shown].live = tokens[t].live
          BY <2>1 DEF TokenRecord
        <4> QED
          BY <2>1, <4>1, <4>2
      <3> QED
        BY <2>1, <3>1, <3>2
    <2>8. Revoke(p)
      BY <2>2, <2>4, <2>5, <2>6, <2>7 DEF WritesTokens
    <2>9. tokens[t].user = req[p].user /\ tokens[t].type = TypeOf(req[p].kind)
      <3>1. t \in ToRevoke(req[p])
        BY <1>4, <2>1, <2>8 DEF Revoke, SetTokens
      <3> QED
        BY <3>1 DEF ToRevoke
    <2>10. req[p].user = u /\ TypeOf(req[p].kind) \in {"invite", "otp_reset"}
      BY <2>9 DEF Issues, Fresh
    <2>11. req[p].kind \in {"invite", "resend", "reset_otp"}
      BY <2>3, <2>8, <2>10, HeadIs DEF Revoke, At, TypeOf
    <2>12. todo'[p] \in {<<"revoke", "create", "mail">>, <<"create", "mail">>}
      <3>1. todo[p] \in {<<"revoke", "create", "mail">>, <<"revoke", "revoke", "create", "mail">>}
        BY <2>3, <2>8, HeadIs DEF Revoke, At
      <3>2. todo'[p] = Tail(todo[p])
        BY <2>8 DEF Revoke, Proceed, Steps
      <3> QED
        BY <3>1, <3>2, TailIs
    <2>13. req' = req
      BY <2>8 DEF Revoke
    <2> QED
      BY <2>3, <2>10, <2>11, <2>12, <2>13 DEF Firm
  <1> QED
    BY <1>3, <1>4

(* A user comes to need a link by being invited, or by losing the authenticator to a request
   that will issue one. *)
LEMMA NextNeed ==
  ASSUME IInv, [Next]_vars, NEW u \in User,
         user'[u].key = None, user'[u].status # "absent",
         user[u].key # None \/ user[u].status = "absent"
  PROVE  \E p \in Process : req'[p] # None /\ req'[p].user = u /\ Firm(p)'
  <1> USE DEF IInv, Core
  <1>1. /\ user \in [User -> UserRow] /\ user[u] \in UserRow /\ user'[u] # user[u]
        /\ user[u].status = "absent" => user[u].password = None /\ user[u].key = None
    BY DEF TypeOK, SetUpInOrder
  <1>2. PICK p \in Process : WritesUser(p)
    BY <1>1, UserMoves
  <1>3. /\ todo[p] # <<>> /\ req[p] # None /\ req[p] \in RequestRecord
        /\ req[p].kind \in Kind /\ req[p].user \in User /\ todo[p] \in Rest(req[p].kind)
    BY <1>2, Busy DEF WritesUser, Insert, ClearKey, Activate, SetStatus, SetPassword, Recount, At
  <1>4. \A row : user' = [user EXCEPT ![req[p].user] = row] => req[p].user = u /\ user'[u] = row
    BY <1>1
  <1>5. CASE Insert(p) \/ ClearKey(p)
    <2>1. req[p].user = u
      <3>1. Insert(p) => user' = [user EXCEPT ![req[p].user] =
                                   [status |-> "pending", password |-> None, key |-> None]]
        BY <1>1 DEF Insert, SetUser, stores
      <3>2. ClearKey(p) => user' = [user EXCEPT ![req[p].user] = [user[req[p].user] EXCEPT !.key = None]]
        BY DEF ClearKey, SetUser
      <3> QED
        BY <1>4, <1>5, <3>1, <3>2
    <2>2. /\ todo[p] \in {<<"insert", "revoke", "create", "mail">>, <<"clear", "revoke", "create", "mail">>}
          /\ req[p].kind \in {"invite", "reset_otp"}
      BY <1>3, <1>5, HeadIs DEF Insert, ClearKey, At
    <2>3. todo'[p] = Tail(todo[p]) /\ req' = req
      <3>1. Insert(p) => Proceed(p)
        BY <1>1 DEF Insert, stores
      <3> QED
        BY <1>5, <3>1 DEF Insert, ClearKey, Proceed, Steps
    <2>4. todo'[p] = <<"revoke", "create", "mail">>
      BY <2>2, <2>3, TailIs
    <2> QED
      BY <1>3, <2>1, <2>2, <2>3, <2>4 DEF Firm
  <1>6. ~Activate(p)
    <2> SUFFICES ASSUME Activate(p)
                 PROVE  FALSE
      OBVIOUS
    <2>1. todo[p] = <<"activate", "drop">>
      BY <1>3, HeadIs DEF Activate, At
    <2>2. req[p].user = u /\ user'[u] = Activated(req[p], user[u], p)
      BY <1>4 DEF Activate, SetUser
    <2>3. user'[u].key = IF req[p].row.key = None THEN req[p].secret ELSE user[u].key
      BY <1>1, <2>2 DEF Activated, UserRow
    <2>4. /\ req[p].row # None
          /\ req[p].row.key = None => req[p].secret # None
          /\ req[p].row.password # None => user[u].password # None
          /\ req[p].row.key # None => req[p].row.password # None
      BY <1>3, <2>1, <2>2 DEF RowsRead, RowRead
    <2> QED
      BY <1>1, <2>3, <2>4
  <1>7. ~SetStatus(p)
    <2> SUFFICES ASSUME SetStatus(p)
                 PROVE  FALSE
      OBVIOUS
    <2>1. Head(todo[p]) = "status" /\ req[p].kind \in {"block", "unblock"}
      BY <1>3, HeadIs DEF SetStatus, At
    <2>2. user[req[p].user].password # None
      BY <1>3, <2>1 DEF RowsRead, RowRead
    <2>3. \E status : user' = [user EXCEPT ![req[p].user] = [user[req[p].user] EXCEPT !.status = status]]
      BY DEF SetStatus, SetUser
    <2>4. \E status : req[p].user = u /\ user'[u] = [user[u] EXCEPT !.status = status]
      BY <1>4, <2>3
    <2> QED
      BY <1>1, <2>2, <2>4 DEF UserRow
  <1>8. ~SetPassword(p)
    <2> SUFFICES ASSUME SetPassword(p)
                 PROVE  FALSE
      OBVIOUS
    <2>1. req[p].user = u /\ user'[u] = [user[u] EXCEPT !.password = p]
      BY <1>4 DEF SetPassword, SetUser
    <2> QED
      BY <1>1, <2>1 DEF UserRow
  <1>9. ~Recount(p)
    <2> SUFFICES ASSUME Recount(p)
                 PROVE  FALSE
      OBVIOUS
    <2>1. todo[p] = <<"recount">> /\ Head(todo[p]) # "read" /\ req[p].kind \in SignInKinds
      BY <1>3, HeadIs DEF Recount, At, SignInKinds
    <2>2. user[req[p].user].password # None
      BY <1>3, <2>1 DEF RowsRead, RowRead
    <2>3. user' = [user EXCEPT ![req[p].user] = [user[req[p].user] EXCEPT !.status = "locked"]]
      BY <1>1 DEF Recount, SetUser
    <2>4. req[p].user = u /\ user'[u] = [user[u] EXCEPT !.status = "locked"]
      BY <1>4, <2>3
    <2> QED
      BY <1>1, <2>2, <2>4 DEF UserRow
  <1> QED
    BY <1>2, <1>5, <1>6, <1>7, <1>8, <1>9 DEF WritesUser

(* Whoever has to set up an authenticator has a link, or will. *)
LEMMA NextLinksKept ==
  ASSUME IInv, [Next]_vars
  PROVE  LinksKept'
  <1> USE DEF IInv, Core
  <1> SUFFICES ASSUME faults' = 0, NEW u \in User, user'[u].key = None, user'[u].status # "absent"
               PROVE  \/ \E t \in Token : Issues(t, u)' /\ Fresh(t)'
                      \/ \E p \in Process : req'[p] # None /\ req'[p].user = u /\ Firm(p)'
    BY DEF LinksKept
  <1>1. CASE user[u].key # None \/ user[u].status = "absent"
    BY <1>1, NextNeed
  <1>2. CASE user[u].key = None /\ user[u].status # "absent"
    <2>1. \/ \E t \in Token : Issues(t, u) /\ Fresh(t)
          \/ \E p \in Process : req[p] # None /\ req[p].user = u /\ Firm(p)
      BY <1>2, FaultFree DEF LinksKept
    <2>2. ASSUME NEW t \in Token, Issues(t, u), Fresh(t)
          PROVE  \/ Issues(t, u)' /\ Fresh(t)'
                 \/ \E p \in Process : req'[p] # None /\ req'[p].user = u /\ Firm(p)'
      BY <1>2, <2>2, FreshKept
    <2>3. ASSUME NEW p \in Process, req[p].user = u, Firm(p)
          PROVE  \/ Issues(p, u)' /\ Fresh(p)' /\ p \in Token
                 \/ req'[p] # None /\ req'[p].user = u /\ Firm(p)'
      BY <2>3, FirmKept DEF Issues, Token
    <2> QED
      BY <2>1, <2>2, <2>3
  <1> QED
    BY <1>1, <1>2

-----------------------------------------------------------------------------
(* The theorems.                                                             *)

(* The invariant holds in the situations a portal is found in. *)
LEMMA InitIInv == Init => IInv
  <1> SUFFICES ASSUME NEW o \in Opening,
                      /\ user = o.user /\ tokens = o.tokens /\ inbox = o.inbox /\ scanned = o.scanned
                      /\ retry = o.retry /\ cookie = o.cookie
                      /\ mail = {}
                      /\ mark = [u \in User |-> FALSE]
                      /\ req = [p \in Process |-> None]
                      /\ todo = [p \in Process |-> <<>>]
                      /\ window = 0
                      /\ faults = 0
                      /\ expired = {}
                      /\ wrongs = [u \in User |-> IF o.retry[u] = 0 THEN 0 ELSE o.retry[u] - 1]
                      /\ resets = [t \in Token |-> 0]
                      /\ signedOut = {}
               PROVE  IInv
    BY DEF Init
  <1>1. /\ user \in [User -> UserRow] /\ tokens \in [Token -> TokenRecord \cup {None}]
        /\ inbox \in [User -> SUBSET Token] /\ scanned \in [User -> SUBSET Secret]
        /\ retry \in [User -> Nat] /\ cookie \in [User -> Token \cup {None}]
    BY PortalAssumption DEF OpeningState
  <1>2. /\ \A p \in Process : tokens[p] = None
        /\ \A u \in User :
             /\ user[u].status = "absent" => user[u].password = None
             /\ user[u].password = None => user[u].key = None /\ user[u].status \in {"absent", "pending"}
             /\ user[u].key = None /\ user[u].status # "absent" =>
                  \E t \in Token :
                    /\ tokens[t] # None /\ tokens[t].live
                    /\ tokens[t].user = u /\ tokens[t].type \in {"invite", "otp_reset"}
             /\ user[u].status = "locked" => retry[u] > RetryLimit
             /\ \A t \in inbox[u] : tokens[t] # None /\ tokens[t].user = u
             /\ cookie[u] # None =>
                  tokens[cookie[u]] # None /\ tokens[cookie[u]].type = "session" /\ tokens[cookie[u]].live
    BY OpeningAssumption
  <1>3. \A p \in Process : req[p] = None /\ todo[p] = <<>>
    OBVIOUS
  <1>4. wrongs \in [User -> Nat]
    BY <1>1
  <1>5. TypeOK
    <2>1. window \in 0..MaxWindow /\ faults \in 0..MaxFaults
      BY PortalAssumption
    <2> QED
      BY <1>1, <1>2, <1>3, <1>4, <2>1 DEF TypeOK
  <1>6. Steps
    <2>1. <<>> \in Rest("call") /\ "call" \in Kind
      BY DEF Rest, Kind, SessionKinds
    <2> QED
      BY <1>3, <2>1 DEF Steps
  <1>7. <<>> \notin {<<"mail">>, <<"activate", "drop">>, <<"drop">>, <<"password">>,
                     <<"read", "password">>, <<"count", "recount">>, <<"recount">>}
    OBVIOUS
  <1>8. SetUpInOrder /\ RowsRead
    BY <1>2, <1>3, <1>7 DEF SetUpInOrder, RowsRead, RowRead
  <1>9. Issued /\ Links /\ SessionsLast
    BY <1>1, <1>2, <1>3, <1>7 DEF Issued, Links, SessionsLast, Lasts, Issues
  <1>10. ResetsCounted
    BY <1>3, <1>7 DEF ResetsCounted, Resetting
  <1>11. CountsBounded
    <2> SUFFICES ASSUME NEW u \in User
                 PROVE  CountBounded(u)
      BY DEF CountsBounded
    <2>1. Counting(u) = {}
      BY <1>3, <1>7 DEF Counting
    <2>2. IsFiniteSet(Counting(u)) /\ Cardinality(Counting(u)) = 0
      BY <2>1, FS_EmptySet
    <2>3. /\ retry[u] \in Nat /\ wrongs[u] = (IF retry[u] = 0 THEN 0 ELSE retry[u] - 1)
          /\ user[u].status = "locked" => retry[u] > RetryLimit
      BY <1>1, <1>2
    <2> QED
      BY <2>1, <2>2, <2>3, PortalAssumption DEF CountBounded
  <1>12. LinksKept
    <2>1. \A p \in Process : ~Stale(p)
      BY <1>3, <1>7 DEF Stale
    <2> QED
      BY <1>2, <2>1 DEF LinksKept, Fresh, Issues
  <1> QED
    BY <1>5, <1>6, <1>8, <1>9, <1>10, <1>11, <1>12 DEF IInv, Core

(* Every step keeps the invariant. *)
LEMMA NextIInv == IInv /\ [Next]_vars => IInv'
  <1> SUFFICES ASSUME IInv, [Next]_vars
               PROVE  IInv'
    OBVIOUS
  <1>1. SetUpInOrder'
    BY NextUsers DEF UserKept, SetUpInOrder
  <1> QED
    BY <1>1, NextTypeOK, NextSteps, NextRowsRead, NextIssued, NextLinks, NextSessionsLast,
       NextResetsCounted, NextCountsBounded, NextLinksKept DEF IInv, Core

(* The invariant holds in every state. *)
LEMMA Invariance == Spec => []IInv
  BY InitIInv, NextIInv, PTL DEF Spec

(* Every store keeps its rows well formed, and whoever is past his invitation has a password:
   no handler writes a status for a user who has none. *)
THEOREM TypeCorrectness == Spec => []TypeOK
  <1>1. IInv => TypeOK
    BY DEF IInv, Core
  <1> QED
    BY <1>1, Invariance, PTL

(* However often and from however many windows a link to reset a password is sent, it sets
   one password. *)
THEOREM OneResetPerLink == Spec => []ResetLinkUsedOnce
  <1>1. IInv => ResetLinkUsedOnce
    <2> SUFFICES ASSUME IInv, NEW t \in Token
                 PROVE  resets[t] <= 1
      BY DEF ResetLinkUsedOnce
    <2>1. resets[t] = 0 \/ resets[t] = 1
      BY DEF IInv, ResetsCounted
    <2> QED
      BY <2>1
  <1> QED
    BY <1>1, Invariance, PTL

(* Nobody is locked with fewer than RetryLimit wrong passwords, whichever of them are counted
   in parallel. *)
THEOREM LocksHaveCause == Spec => []LockedForCause
  <1>1. IInv => LockedForCause
    <2> SUFFICES ASSUME IInv, NEW u \in User
                 PROVE  /\ user[u].status = "locked" => wrongs[u] >= RetryLimit
                        /\ retry[u] <= wrongs[u] + 1
      BY DEF LockedForCause
    <2>1. CountBounded(u) /\ retry[u] \in Nat /\ wrongs[u] \in Nat
      BY DEF IInv, Core, TypeOK, CountsBounded
    <2>2. Cardinality(Counting(u)) \in Nat
      BY <2>1, FS_CardinalityType DEF CountBounded
    <2> QED
      BY <2>1, <2>2 DEF CountBounded
  <1> QED
    BY <1>1, Invariance, PTL

(* Nobody is thrown out by a call in parallel, an administrator or whoever asks for a link:
   a session whose user has neither signed out nor been given another password is live until
   its time is over. *)
THEOREM SessionsAreKept == Spec => []NobodyThrownOut
  <1>1. IInv => NobodyThrownOut
    <2> SUFFICES ASSUME IInv, NEW p \in Process, At(p, "verify"), req[p].kind \in SessionKinds
                 PROVE  Usable(req[p]) \/ req[p].token \in expired
      BY DEF NobodyThrownOut
    <2>1. req[p] # None
      BY Busy DEF At, IInv, Core
    <2> QED
      BY <2>1 DEF IInv, SessionsLast, Lasts, Usable, Accepts, SessionKinds
  <1> QED
    BY <1>1, Invariance, PTL

(* As long as nothing dies or expires, whoever lacks a password or an authenticator has a
   link to the set-up, or one will be issued. *)
THEOREM SetUpStaysOpen == Spec => []NeverStranded
  <1>1. IInv => NeverStranded
    <2> SUFFICES ASSUME IInv, faults = 0, NEW u \in User, user[u].status # "absent",
                        user[u].key = None \/ user[u].password = None
                 PROVE  SetupLink(u) \/ LinkComing(u)
      BY DEF NeverStranded
    <2>1. user[u].key = None
      BY DEF IInv, Core, SetUpInOrder
    <2>2. \/ \E t \in Token : Issues(t, u) /\ Fresh(t)
          \/ \E p \in Process : req[p] # None /\ req[p].user = u /\ Firm(p)
      BY <2>1 DEF IInv, LinksKept
    <2>3. ASSUME NEW p \in Process, Firm(p)
          PROVE  Contains(todo[p], "create") /\ req[p].kind \in {"invite", "resend", "reset_otp"}
      <3>1. todo[p] \in {<<"clear", "revoke", "create", "mail">>, <<"revoke", "revoke", "create", "mail">>,
                         <<"revoke", "create", "mail">>, <<"create", "mail">>}
        BY <2>3 DEF Firm
      <3>2. \E i \in 1..Len(todo[p]) : todo[p][i] = "create"
        BY <3>1
      <3> QED
        BY <2>3, <3>2 DEF Contains, Firm
    <2> QED
      BY <2>2, <2>3 DEF SetupLink, LinkComing, Issues, Fresh
  <1> QED
    BY <1>1, Invariance, PTL

=============================================================================
