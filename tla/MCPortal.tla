------------------------------ MODULE MCPortal ------------------------------
(***************************************************************************)
(* One user and three requests, found in one of six situations.           *)
(***************************************************************************)
EXTENDS Portal, TLC, FiniteSets

CONSTANT u1

MCRequest == [kind : Kind, user : {u1}]

MCInvitations == [kind : {"invite", "resend"}, user : {u1}]

Found(status, password, key, link, got, shown, count, session) ==
  [user |-> [u \in {u1} |-> [status |-> status, password |-> password, key |-> key]],
   tokens |-> [t \in Token |->
     IF t = First /\ link # "none"
     THEN [type |-> link, user |-> u1, live |-> TRUE,
           secret |-> IF link = "otp_reset" THEN First ELSE None]
     ELSE None],
   inbox |-> [u \in {u1} |-> IF got THEN {First} ELSE {}],
   scanned |-> [u \in {u1} |-> IF shown THEN {First} ELSE {}],
   retry |-> [u \in {u1} |-> count],
   cookie |-> [u \in {u1} |-> IF session THEN First ELSE None]]

(* Not invited yet; invited; signed in; with one wrong password on record; looking at
   the code for a new authenticator; with the mail for a new password. *)
MCOpening ==
  { Found("absent", None, None, "none", FALSE, FALSE, 0, FALSE),
    Found("pending", None, None, "invite", TRUE, FALSE, 0, FALSE),
    Found("active", First, First, "session", FALSE, TRUE, 0, TRUE),
    Found("active", First, First, "none", FALSE, TRUE, 2, FALSE),
    Found("active", First, None, "otp_reset", TRUE, TRUE, 0, FALSE),
    Found("active", First, First, "password_reset", TRUE, TRUE, 0, FALSE) }

Symmetry == Permutations(Process)
=============================================================================
