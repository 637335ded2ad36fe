---------------------------- MODULE CloudProofs ----------------------------
(***************************************************************************)
(* The backends that keep tables, each one by itself and then all of them  *)
(* side by side, for any number of processes that may die between any two  *)
(* statements.                                                             *)
(*                                                                         *)
(* The auth backend, for any addresses, codes, secrets and numbers of      *)
(* accounts, tokens and links: codes have owners who exist; and, deployed  *)
(* as one process, a code is claimed by one person at a time, who was      *)
(* verified for it has it, and a box keeps its secret.                     *)
(*                                                                         *)
(* The addon backend, for any number of processes: a configuration is made *)
(* for one relation or one type, and whoever knows its number intends it   *)
(* for the same one (PInv); what a row refers to is there (KeyInv); a      *)
(* getAddon has found or installed the mandatory addons it has passed, or  *)
(* is marked as disturbed (ListInv).  Of a process that is alone, what the *)
(* running request has read is still so, and only it knows the             *)
(* configurations that nothing refers to (SoleInv).                        *)
(*                                                                         *)
(* The device control, machine-learning and monitoring backends: what is   *)
(* stored of devices, options, statistics, logs, configurations and models *)
(* is sound; a device whose models have one name only moves to a higher    *)
(* version, the next version is free, and who has an old model is told;    *)
(* and, with one process, what a watchdog is noted to have never goes back.*)
(*                                                                         *)
(* Last, types: every table holds what its columns say, and every request  *)
(* what its statements gave it.                                            *)
(***************************************************************************)
EXTENDS Cloud, FiniteSetTheorems, TLAPS

-----------------------------------------------------------------------------
(*                            The auth backend.                            *)

-----------------------------------------------------------------------------
(* The inductive invariant: first what holds for any number of processes.  *)

RegisterReq == [op : {"register"}, at : {"code", "pending", "insert"}, email : Emails, code : Codes]
VerifyReq   == [op : {"verify"}, at : {"delete", "insert"}, row : Pending]
ClaimReq    == [op : {"verify"}, at : {"claim"}, row : Pending, uid : Uids]
SecretReq   == [op : {"secret"}, code : Codes, uid : Uids, secret : Secrets]
ForgotReq   == [op : {"forgot"}, at : {"pending", "insert"}, email : Emails]

\* The requests whose statements this is about.
Concerned == RegisterReq \cup VerifyReq \cup ClaimReq \cup SecretReq \cup ForgotReq

\* A request that is not concerned.
Other(r) == "op" \in DOMAIN r /\ r.op \notin {"register", "verify", "secret", "forgot"}

Processes ==
    /\ alive \subseteq Workers /\ DOMAIN req = Workers
    /\ \A w \in Workers : req[w] \in Concerned \/ Other(req[w])
    /\ \A w \in Workers : req[w] # Idle => w \in alive

Base ==
    /\ DOMAIN wdcodes \subseteq Codes /\ \A c \in DOMAIN wdcodes : wdcodes[c] \in CodeRow
    /\ pending \subseteq Pending /\ lastUid \in Nat /\ lastLink \in Nat
    /\ \A r \in pending : r.type = "email" => r.code \in Codes

(* Then what holds for one process, whose requests follow each other.      *)

\* Nobody but the holder of a fresh link claims its code, and it has no owner.
Claims ==
    \A r \in Fresh : r.type = "email" =>
        /\ CodeFree(r.code)
        /\ \A s \in Fresh : s.code = r.code => s = r

\* What a request has found out is still so when it uses it.
Registering(w) ==
    /\ At(w, "register", "pending") \/ At(w, "register", "insert") => CodeFree(req[w].code)
    /\ At(w, "register", "insert") => ~Conflicts(req[w].email, req[w].code)

Verifying(w) ==
    /\ At(w, "verify", "delete") =>
         \A s \in Fresh : s.code = req[w].row.code => s.link = req[w].row.link
    /\ At(w, "verify", "insert") \/ At(w, "verify", "claim") =>
         \A s \in Fresh : s.code # req[w].row.code

Proving(w) ==
    req[w].op = "secret" =>
        /\ req[w].code \in DOMAIN wdcodes
        /\ OwnerOf(req[w].code) # Unclaimed /\ wdcodes[req[w].code].secret = Unset

\* Who is being asked about has no secret before he has an owner.
Secrecy == \A c \in DOMAIN wdcodes : OwnerOf(c) = Unclaimed => wdcodes[c].secret = Unset

Alone == Claims /\ Secrecy /\ \A w \in Workers : Registering(w) /\ Verifying(w) /\ Proving(w)

AInv == Processes /\ Base /\ (Sequential => Alone)

-----------------------------------------------------------------------------
(* Facts that several actions need.                                        *)

\* The one process is every process.
LEMMA TheOnlyOne ==
    ASSUME alive \subseteq Workers, Sequential, NEW v \in alive, NEW w \in alive
    PROVE  v = w
<1>1. IsFiniteSet(alive)
  BY ServiceAssumption, FS_Subset
<1>2. \E x : alive = {x}
  BY <1>1, FS_Singleton DEF Sequential
<1> QED
  BY <1>2

\* Whatever is on its way is at this process.
LEMMA OthersIdle ==
    ASSUME Processes, Sequential, NEW w \in alive, NEW v \in Workers \ {w}
    PROVE  req[v] = Idle
BY TheOnlyOne DEF Processes

\* What a request is concerned with, by the statement it is at.
LEMMA Remembers ==
    ASSUME Processes, NEW w \in Workers
    PROVE  /\ req[w].op = "register" => req[w] \in RegisterReq
           /\ req[w].op = "verify" => req[w] \in VerifyReq \cup ClaimReq
           /\ req[w].op = "secret" => req[w] \in SecretReq
           /\ req[w].op = "forgot" => req[w] \in ForgotReq
BY DEF Processes, Concerned, Other, RegisterReq, VerifyReq, ClaimReq, SecretReq, ForgotReq

\* Nothing is concerned with a process that is idle.
LEMMA IdleIsOther == Other(Idle) /\ \A w : req[w] = Idle => Registering(w) /\ Verifying(w) /\ Proving(w)
BY DEF Other, Idle, Registering, Verifying, Proving, At

\* Who is in the middle of something is alive.
LEMMA AtIsAlive ==
    ASSUME Processes, NEW w \in Workers, NEW op, NEW at, At(w, op, at), op # "idle"
    PROVE  w \in alive
BY DEF Processes, At, Idle

\* A process goes on with something that is not concerned, and what it did to
\* the table of links took some away or added one for a password.
LEMMA Unconcerned ==
    ASSUME AInv, NEW w \in alive, NEW r, Other(r), req' = [req EXCEPT ![w] = r],
           UNCHANGED <<alive, wdcodes, lastUid>>, lastLink' \in Nat,
           pending' \subseteq Pending,
           \A s \in Fresh' : s \in Fresh \/ (s.code = Unset /\ s.type = "reset"),
           \A s \in pending' : s.type = "email" => s.code \in Codes
    PROVE  AInv'
<1> USE DEF AInv
<1>1. /\ DOMAIN req' = Workers /\ req'[w] = r /\ w \in Workers
      /\ \A v \in Workers \ {w} : req'[v] = req[v]
  BY DEF Processes
<1>2. Processes'
  BY <1>1 DEF Processes
<1>3. Base'
  BY DEF Base
<1>4. ASSUME Sequential PROVE Alone'
  <2>1. Claims'
    <3> SUFFICES ASSUME NEW s \in Fresh', s.type = "email"
                 PROVE  /\ CodeFree(s.code)
                        /\ \A t \in Fresh' : t.code = s.code => t = s
      BY DEF Claims, CodeFree, OwnerOf
    <3>1. s \in Fresh /\ s.code \in Codes
      BY DEF Base, Fresh
    <3> QED
      BY <1>4, <3>1, AuthAssumption DEF Alone, Claims
  <2>2. Secrecy'
    BY <1>4 DEF Alone, Secrecy, OwnerOf
  <2>3. \A v \in Workers \ {w} : req'[v] = Idle
    BY <1>1, <1>4, OthersIdle
  <2>4. \A v \in Workers : Registering(v)' /\ Verifying(v)' /\ Proving(v)'
    BY <1>1, <2>3 DEF Other, Idle, Registering, Verifying, Proving, At
  <2> QED
    BY <2>1, <2>2, <2>4 DEF Alone
<1> QED
  BY <1>2, <1>3, <1>4 DEF Sequential

\* The same where it took no link away or added.
LEMMA SamePending ==
    ASSUME AInv, NEW w \in alive, NEW r, Other(r), req' = [req EXCEPT ![w] = r],
           UNCHANGED <<alive, wdcodes, lastUid, lastLink, pending>>
    PROVE  AInv'
<1>1. /\ pending' \subseteq Pending /\ lastLink' \in Nat
      /\ \A s \in pending' : s.type = "email" => s.code \in Codes
  BY DEF AInv, Base
<1>2. \A s \in Fresh' : s \in Fresh \/ (s.code = Unset /\ s.type = "reset")
  BY DEF Fresh
<1>3. UNCHANGED <<alive, wdcodes, lastUid>>
  OBVIOUS
<1> QED
  BY <1>1, <1>2, <1>3, Unconcerned

\* And where the rows that are too old were deleted, or some of the rows.
LEMMA FewerPending ==
    ASSUME AInv, NEW w \in alive, NEW r, Other(r), req' = [req EXCEPT ![w] = r],
           UNCHANGED <<alive, wdcodes, lastUid, lastLink>>, pending' \subseteq pending
    PROVE  AInv'
<1>1. /\ pending' \subseteq Pending /\ lastLink' \in Nat
      /\ \A s \in pending' : s.type = "email" => s.code \in Codes
  BY DEF AInv, Base
<1>2. \A s \in Fresh' : s \in Fresh \/ (s.code = Unset /\ s.type = "reset")
  BY DEF Fresh
<1>3. UNCHANGED <<alive, wdcodes, lastUid>>
  OBVIOUS
<1> QED
  BY <1>1, <1>2, <1>3, Unconcerned

LEMMA InitAInv == AuthInit => AInv
<1> SUFFICES ASSUME AuthInit PROVE AInv
  OBVIOUS
<1>1. alive \subseteq Workers /\ DOMAIN req = Workers /\ \A w \in Workers : req[w] = Idle
  BY DEF AuthInit, ServiceInit
<1>2. Processes
  BY <1>1, IdleIsOther DEF Processes
<1>3. Base
  BY DEF AuthInit, Base
<1>4. Alone
  <2>1. \A w \in Workers : Registering(w) /\ Verifying(w) /\ Proving(w)
    BY <1>1, IdleIsOther
  <2> QED
    BY <2>1 DEF Alone, AuthInit, Claims, Secrecy, Fresh
<1> QED
  BY <1>2, <1>3, <1>4 DEF AInv

-----------------------------------------------------------------------------
(* The operators and time.                                                 *)

LEMMA AddCodeAInv == ASSUME AInv, NEW c \in Codes, AddCode(c) PROVE AInv'
<1> USE DEF AInv
<1>1. /\ c \notin DOMAIN wdcodes /\ DOMAIN wdcodes' = DOMAIN wdcodes \cup {c}
      /\ wdcodes'[c] = [uid |-> Unclaimed, secret |-> Unset]
      /\ \A d \in DOMAIN wdcodes : wdcodes'[d] = wdcodes[d]
      /\ UNCHANGED <<alive, req, pending, lastUid, lastLink>>
  BY DEF AddCode, serviceVars
<1>2. Processes'
  BY <1>1 DEF Processes
<1>3. Base'
  <2>1. [uid |-> Unclaimed, secret |-> Unset] \in CodeRow
    BY DEF CodeRow
  <2> QED
    BY <1>1, <2>1 DEF Base
<1>4. ASSUME Alone PROVE Alone'
  <2>1. \A d \in DOMAIN wdcodes : CodeFree(d) => CodeFree(d)'
    BY <1>1 DEF CodeFree, OwnerOf
  <2>2. \A d : CodeFree(d) => CodeFree(d)'
    BY <2>1 DEF CodeFree
  <2>3. Fresh' = Fresh
    BY <1>1 DEF Fresh
  <2>4. Claims'
    BY <1>4, <2>2, <2>3 DEF Alone, Claims
  <2>5. Secrecy'
    BY <1>1, <1>4 DEF Alone, Secrecy, OwnerOf
  <2>6. ASSUME NEW w \in Workers PROVE Registering(w)' /\ Verifying(w)' /\ Proving(w)'
    <3>1. Registering(w) /\ Verifying(w) /\ Proving(w)
      BY <1>4 DEF Alone
    <3>2. Registering(w)'
      BY <1>1, <2>2, <2>3, <3>1 DEF Registering, At, Conflicts
    <3>3. Verifying(w)'
      BY <1>1, <2>3, <3>1 DEF Verifying, At
    <3>4. Proving(w)'
      BY <1>1, <3>1 DEF Proving, OwnerOf
    <3> QED
      BY <3>2, <3>3, <3>4
  <2> QED
    BY <2>4, <2>5, <2>6 DEF Alone
<1> QED
  BY <1>1, <1>2, <1>3, <1>4 DEF Sequential

\* A link that is no longer fresh is one claim less.
LEMMA TenMinutesAInv == ASSUME AInv, NEW r \in pending, TenMinutes(r) PROVE AInv'
<1> USE DEF AInv
<1> DEFINE old == [r EXCEPT !.fresh = FALSE]
<1>1. /\ pending' = (pending \ {r}) \cup {old}
      /\ UNCHANGED <<alive, req, wdcodes, lastUid, lastLink>>
  BY DEF TenMinutes, serviceVars
<1>2. old \in Pending /\ old.fresh = FALSE /\ old.type = r.type /\ old.code = r.code
  BY DEF Base, Pending
<1>3. Fresh' \subseteq Fresh
  BY <1>1, <1>2 DEF Fresh
<1>4. Processes'
  BY <1>1 DEF Processes
<1>5. Base'
  BY <1>1, <1>2 DEF Base
<1>6. ASSUME Alone PROVE Alone'
  <2>1. Claims'
    BY <1>1, <1>3, <1>6 DEF Alone, Claims, CodeFree, OwnerOf
  <2>2. Secrecy'
    BY <1>1, <1>6 DEF Alone, Secrecy, OwnerOf
  <2>3. ASSUME NEW w \in Workers PROVE Registering(w)' /\ Verifying(w)' /\ Proving(w)'
    <3>1. Registering(w) /\ Verifying(w) /\ Proving(w)
      BY <1>6 DEF Alone
    <3>2. Registering(w)'
      BY <1>1, <1>3, <3>1 DEF Registering, At, Conflicts, CodeFree, OwnerOf
    <3>3. Verifying(w)'
      BY <1>1, <1>3, <3>1 DEF Verifying, At
    <3>4. Proving(w)'
      BY <1>1, <3>1 DEF Proving, OwnerOf
    <3> QED
      BY <3>2, <3>3, <3>4
  <2> QED
    BY <2>1, <2>2, <2>3 DEF Alone
<1> QED
  BY <1>1, <1>4, <1>5, <1>6 DEF Sequential

LEMMA NothingOfThis ==
    ASSUME AInv, UNCHANGED <<serviceVars, wdcodes, pending, lastUid, lastLink>>
    PROVE  AInv'
BY DEF AInv, serviceVars, Processes, Base, Sequential, Alone, Claims, Secrecy, Registering,
       Verifying, Proving, At, CodeFree, OwnerOf, Conflicts, Fresh

-----------------------------------------------------------------------------
(* register.                                                               *)

\* Process w goes on with r; the tables, and what r is concerned with, are as
\* they should be.
LEMMA Concern ==
    ASSUME AInv, NEW w \in alive, NEW r, r \in Concerned \/ Other(r), req' = [req EXCEPT ![w] = r],
           UNCHANGED alive, Base',
           Sequential => Claims' /\ Secrecy' /\ Registering(w)' /\ Verifying(w)' /\ Proving(w)'
    PROVE  AInv'
<1> USE DEF AInv
<1>1. /\ DOMAIN req' = Workers /\ req'[w] = r /\ w \in Workers
      /\ \A v \in Workers \ {w} : req'[v] = req[v]
  BY DEF Processes
<1>2. Processes'
  BY <1>1 DEF Processes
<1>3. ASSUME Sequential PROVE Alone'
  <2>1. \A v \in Workers \ {w} : req'[v] = Idle
    BY <1>1, <1>3, OthersIdle
  <2>2. \A v \in Workers \ {w} : Registering(v)' /\ Verifying(v)' /\ Proving(v)'
    BY <2>1 DEF Idle, Registering, Verifying, Proving, At
  <2> QED
    BY <1>3, <2>2 DEF Alone
<1> QED
  BY <1>2, <1>3 DEF Sequential

LEMMA RegisterAInv ==
    ASSUME AInv, NEW w \in Workers,
           \/ \E e \in Emails, c \in Codes : Register(w, e, c)
           \/ RegisterCode(w) \/ RegisterPending(w) \/ RegisterInsert(w)
    PROVE  AInv'
<1> USE DEF AInv
<1>1. ASSUME NEW e \in Emails, NEW c \in Codes, Register(w, e, c) PROVE AInv'
  <2> DEFINE r == [op |-> "register", at |-> "code", email |-> e, code |-> c]
  <2>1. w \in alive /\ req' = [req EXCEPT ![w] = r] /\ UNCHANGED <<alive, wdcodes, pending, lastUid, lastLink>>
    BY <1>1 DEF Register, Receive, Free, authDb
  <2>2. r \in Concerned /\ req'[w] = r
    BY <2>1 DEF Concerned, RegisterReq, Processes
  <2>3. Base' /\ (Sequential => Claims' /\ Secrecy')
    BY <2>1 DEF Base, Alone, Claims, Secrecy, CodeFree, OwnerOf, Fresh
  <2>4. Registering(w)' /\ Verifying(w)' /\ Proving(w)'
    BY <2>2 DEF Registering, Verifying, Proving, At
  <2> HIDE DEF r
  <2> QED
    BY <2>1, <2>2, <2>3, <2>4, Concern
<1>2. ASSUME RegisterCode(w) \/ RegisterPending(w) \/ RegisterInsert(w) PROVE AInv'
  <2>1. req[w] \in RegisterReq /\ w \in alive
    BY <1>2, Remembers, AtIsAlive DEF RegisterCode, RegisterPending, RegisterInsert, At
  <2> DEFINE Next(at) == [req[w] EXCEPT !.at = at]
  <2>2. \A at \in {"code", "pending", "insert"} :
          /\ Next(at) \in RegisterReq /\ Next(at).op = "register" /\ Next(at).at = at
          /\ Next(at).code = req[w].code /\ Next(at).email = req[w].email
    BY <2>1 DEF RegisterReq
  <2>3. \A at \in {"code", "pending", "insert"} : Next(at) \in Concerned
    BY <2>2 DEF Concerned
  <2> HIDE DEF Next
  <2>4. CASE Answer(w) /\ UNCHANGED <<wdcodes, lastUid, lastLink>> /\ pending' \subseteq pending
    BY <2>1, <2>4, IdleIsOther, FewerPending DEF Answer, Continue
  <2>5. CASE RegisterCode(w) /\ CodeFree(req[w].code)
    <3>1. /\ req' = [req EXCEPT ![w] = Next("pending")]
          /\ UNCHANGED <<alive, wdcodes, pending, lastUid, lastLink>>
      BY <2>5 DEF RegisterCode, Goto, Continue, authDb, Next
    <3>2. req'[w] = Next("pending")
      BY <2>1, <3>1 DEF Processes
    <3>3. Base' /\ (Sequential => Claims' /\ Secrecy')
      BY <3>1 DEF Base, Alone, Claims, Secrecy, CodeFree, OwnerOf, Fresh
    <3>4. CodeFree(req[w].code)'
      BY <2>2, <2>5, <3>1, <3>2 DEF CodeFree, OwnerOf
    <3>5. Registering(w)' /\ Verifying(w)' /\ Proving(w)'
      BY <2>2, <3>2, <3>4 DEF Registering, Verifying, Proving, At
    <3> QED
      BY <2>1, <2>3, <3>1, <3>3, <3>5, Concern
  <2>6. CASE RegisterCode(w) /\ ~CodeFree(req[w].code)
    BY <2>4, <2>6 DEF RegisterCode, authDb
  <2>7. CASE RegisterPending(w) /\ Conflicts(req[w].email, req[w].code)
    BY <2>4, <2>7 DEF RegisterPending, Sweep, Fresh
  <2>8. CASE RegisterPending(w) /\ ~Conflicts(req[w].email, req[w].code)
    <3>1. /\ req' = [req EXCEPT ![w] = Next("insert")] /\ pending' = Fresh
          /\ UNCHANGED <<alive, wdcodes, lastUid, lastLink>>
      BY <2>8 DEF RegisterPending, Goto, Continue, Sweep, Next
    <3>2. req'[w] = Next("insert") /\ Fresh' = Fresh
      BY <2>1, <3>1 DEF Processes, Fresh
    <3>3. Base'
      BY <3>1 DEF Base, Fresh
    <3>4. ASSUME Sequential PROVE Claims' /\ Secrecy'
      BY <3>1, <3>2, <3>4 DEF Alone, Claims, Secrecy, CodeFree, OwnerOf
    <3>5. ASSUME Sequential PROVE Registering(w)'
      <4>1. CodeFree(req[w].code)
        BY <2>1, <2>8, <3>5 DEF Alone, Registering, RegisterPending
      <4>2. CodeFree(req[w].code)' /\ ~Conflicts(req[w].email, req[w].code)'
        BY <2>2, <2>8, <3>1, <3>2, <4>1 DEF CodeFree, OwnerOf, Conflicts
      <4> QED
        BY <4>2 DEF Registering
    <3>6. Verifying(w)' /\ Proving(w)'
      BY <2>2, <3>2 DEF Verifying, Proving, At
    <3> QED
      BY <2>1, <2>3, <3>1, <3>3, <3>4, <3>5, <3>6, Concern
  <2>9. CASE RegisterInsert(w)
    <3>1. req' = [req EXCEPT ![w] = Idle] /\ UNCHANGED <<alive, wdcodes, lastUid>>
      BY <2>9 DEF RegisterInsert, Answer, Continue
    <3>2. CASE UNCHANGED <<pending, lastLink>>
      BY <2>4, <2>9, <3>2 DEF RegisterInsert
    <3>3. CASE ~UNCHANGED <<pending, lastLink>>
      <4> DEFINE new == [link |-> lastLink + 1, type |-> "email", email |-> req[w].email,
                         code |-> req[w].code, fresh |-> TRUE]
      <4>1. lastLink < MaxLink /\ lastLink' = lastLink + 1 /\ pending' = pending \cup {new}
        BY <2>9, <3>3 DEF RegisterInsert, InsertPending
      <4>2. new \in Pending /\ new.code \in Codes /\ new.code = req[w].code
        BY <2>1, <4>1, AuthAssumption DEF Base, RegisterReq, Pending, Links
      <4> HIDE DEF new
      <4>3. Base'
        <5>1. lastLink' \in Nat /\ pending' \subseteq Pending
          BY <4>1, <4>2 DEF Base
        <5>2. \A s \in pending' : s.type = "email" => s.code \in Codes
          BY <4>1, <4>2 DEF Base
        <5> QED
          BY <3>1, <5>1, <5>2 DEF Base
      <4>4. Fresh' \subseteq Fresh \cup {new}
        BY <4>1 DEF Fresh
      <4>5. ASSUME Sequential PROVE Claims' /\ Secrecy'
        <5>1. CodeFree(new.code) /\ \A s \in Fresh : s.code # new.code
          BY <2>9, <4>2, <4>5 DEF Alone, Registering, RegisterInsert, Conflicts
        <5>2. Claims'
          BY <3>1, <4>4, <4>5, <5>1 DEF Alone, Claims, CodeFree, OwnerOf
        <5> QED
          BY <3>1, <4>5, <5>2 DEF Alone, Secrecy, OwnerOf
      <4>6. req'[w] = Idle
        BY <2>1, <3>1 DEF Processes
      <4>7. Registering(w)' /\ Verifying(w)' /\ Proving(w)'
        BY <4>6 DEF Registering, Verifying, Proving, At, Idle
      <4> QED
        BY <2>1, <3>1, <4>3, <4>5, <4>7, IdleIsOther, Concern
    <3> QED
      BY <3>2, <3>3
  <2> QED
    BY <1>2, <2>5, <2>6, <2>7, <2>8, <2>9
<1> QED
  BY <1>1, <1>2

-----------------------------------------------------------------------------
(* verifyEmail.                                                            *)

LEMMA VerifyAInv == ASSUME AInv, NEW w \in Workers, NEW r \in pending, Verify(w, r) PROVE AInv'
<1> USE DEF AInv
<1> DEFINE q == [op |-> "verify", at |-> "delete", row |-> r]
<1>1. /\ w \in alive /\ req' = [req EXCEPT ![w] = q] /\ r \in Fresh /\ r.type = "email"
      /\ UNCHANGED <<alive, wdcodes, pending, lastUid, lastLink>>
  BY DEF Verify, Receive, Free, authDb, Fresh
<1>2. q \in Concerned /\ req'[w] = q
  BY <1>1 DEF Concerned, VerifyReq, Processes, Base
<1>3. Base' /\ Fresh' = Fresh /\ (Sequential => Claims' /\ Secrecy')
  BY <1>1 DEF Base, Alone, Claims, Secrecy, CodeFree, OwnerOf, Fresh
<1>4. Registering(w)' /\ Proving(w)'
  BY <1>2 DEF Registering, Proving, At
<1>5. ASSUME Sequential PROVE Verifying(w)'
  <2>1. \A s \in Fresh : s.code = r.code => s = r
    BY <1>1, <1>5 DEF Alone, Claims
  <2> QED
    BY <1>2, <1>3, <2>1 DEF Verifying, At
<1> HIDE DEF q
<1> QED
  BY <1>1, <1>2, <1>3, <1>4, <1>5, Concern

LEMMA VerifyDeleteAInv == ASSUME AInv, NEW w \in Workers, VerifyDelete(w) PROVE AInv'
<1> USE DEF AInv
<1> DEFINE q == [req[w] EXCEPT !.at = "insert"]
<1>1. /\ req[w] \in VerifyReq /\ req[w].at = "delete" /\ w \in alive
      /\ req' = [req EXCEPT ![w] = q] /\ pending' = {r \in pending : r.link # req[w].row.link}
      /\ UNCHANGED <<alive, wdcodes, lastUid, lastLink>>
  BY Remembers, AtIsAlive DEF VerifyDelete, At, Goto, Continue, ClaimReq
<1>2. q \in VerifyReq /\ q.op = "verify" /\ q.at = "insert" /\ q.row = req[w].row
  BY <1>1 DEF VerifyReq
<1> HIDE DEF q
<1>3. q \in Concerned /\ req'[w] = q
  BY <1>1, <1>2 DEF Concerned, Processes
<1>4. Fresh' = {r \in Fresh : r.link # req[w].row.link}
  BY <1>1 DEF Fresh
<1>5. Base'
  BY <1>1 DEF Base
<1>6. ASSUME Sequential PROVE Claims' /\ Secrecy'
  BY <1>1, <1>4, <1>6 DEF Alone, Claims, Secrecy, CodeFree, OwnerOf
<1>7. ASSUME Sequential PROVE Verifying(w)'
  <2>1. \A s \in Fresh : s.code = req[w].row.code => s.link = req[w].row.link
    BY <1>7 DEF Alone, Verifying, VerifyDelete
  <2> QED
    BY <1>2, <1>3, <1>4, <2>1 DEF Verifying, At
<1>8. Registering(w)' /\ Proving(w)'
  BY <1>2, <1>3 DEF Registering, Proving, At
<1> QED
  BY <1>1, <1>3, <1>5, <1>6, <1>7, <1>8, Concern

LEMMA VerifyInsertAInv == ASSUME AInv, NEW w \in Workers, VerifyInsert(w) PROVE AInv'
<1> USE DEF AInv
<1>1. req[w] \in VerifyReq /\ req[w].at = "insert" /\ w \in alive
  BY Remembers, AtIsAlive DEF VerifyInsert, At, ClaimReq
<1>2. CASE HasAccount(req[w].row.email)
  <2>1. req' = [req EXCEPT ![w] = Idle] /\ UNCHANGED <<alive, wdcodes, lastUid, lastLink, pending>>
    BY <1>2 DEF VerifyInsert, Answer, Continue
  <2> QED
    BY <1>1, <2>1, IdleIsOther, SamePending
<1>3. CASE ~HasAccount(req[w].row.email)
  <2> DEFINE q == [op |-> "verify", at |-> "claim", row |-> req[w].row, uid |-> lastUid + 1]
  <2>1. /\ lastUid < MaxUid /\ lastUid' = lastUid + 1 /\ req' = [req EXCEPT ![w] = q]
        /\ UNCHANGED <<alive, wdcodes, lastLink, pending>>
    BY <1>3 DEF VerifyInsert, Continue
  <2>2. q \in Concerned /\ req'[w] = q
    BY <1>1, <2>1, AuthAssumption DEF Concerned, ClaimReq, VerifyReq, Uids, Processes, Base
  <2>3. Base' /\ Fresh' = Fresh
    BY <2>1 DEF Base, Fresh
  <2>4. ASSUME Sequential PROVE Claims' /\ Secrecy'
    BY <2>1, <2>3, <2>4 DEF Alone, Claims, Secrecy, CodeFree, OwnerOf
  <2>5. ASSUME Sequential PROVE Verifying(w)'
    <3>1. \A s \in Fresh : s.code # req[w].row.code
      BY <1>1, <2>5 DEF Alone, Verifying, VerifyInsert
    <3> QED
      BY <2>2, <2>3, <3>1 DEF Verifying, At
  <2>6. Registering(w)' /\ Proving(w)'
    BY <2>2 DEF Registering, Proving, At
  <2> HIDE DEF q
  <2> QED
    BY <1>1, <2>1, <2>2, <2>3, <2>4, <2>5, <2>6, Concern
<1> QED
  BY <1>2, <1>3

\* A table of codes in which only the row of c differs.
LEMMA RowOf ==
    ASSUME Base, NEW c, NEW row \in CodeRow, wdcodes' = [wdcodes EXCEPT ![c] = row],
           UNCHANGED <<pending, lastUid, lastLink>>
    PROVE  /\ Base' /\ DOMAIN wdcodes' = DOMAIN wdcodes
           /\ c \in DOMAIN wdcodes => wdcodes'[c] = row
           /\ \A d \in DOMAIN wdcodes : d # c => wdcodes'[d] = wdcodes[d]
BY DEF Base

\* The code gets its owner, and nobody claims it any more.
LEMMA VerifyClaimAInv == ASSUME AInv, NEW w \in Workers, VerifyClaim(w) PROVE AInv'
<1> USE DEF AInv
<1> DEFINE c == req[w].row.code
           row == [wdcodes[c] EXCEPT !.uid = req[w].uid]
<1>1. /\ req[w] \in ClaimReq /\ w \in alive /\ wdcodes' = [wdcodes EXCEPT ![c] = row]
      /\ req' = [req EXCEPT ![w] = Idle] /\ UNCHANGED <<alive, pending, lastUid, lastLink>>
  BY Remembers, AtIsAlive DEF VerifyClaim, At, Answer, Continue, VerifyReq
<1>2. req[w].uid \in Uids /\ req[w].uid # Unclaimed
  BY <1>1, AuthAssumption DEF ClaimReq, Uids, Unclaimed
<1>3. /\ DOMAIN wdcodes' = DOMAIN wdcodes
      /\ c \in DOMAIN wdcodes => wdcodes'[c] = row
      /\ \A d \in DOMAIN wdcodes : d # c => wdcodes'[d] = wdcodes[d]
  BY <1>1
<1>4. c \in DOMAIN wdcodes => row \in CodeRow /\ row.uid = req[w].uid /\ row.secret = wdcodes[c].secret
  BY <1>2 DEF Base, CodeRow
<1> HIDE DEF row
<1>5. Base'
  BY <1>1, <1>3, <1>4 DEF Base
<1>6. ASSUME Sequential PROVE Claims' /\ Secrecy'
  <2>1. \A s \in Fresh : s.code # c
    BY <1>6 DEF Alone, Verifying, VerifyClaim
  <2> HIDE DEF c
  <2>2. Fresh' = Fresh
    BY <1>1 DEF Fresh
  <2>3. Claims'
    BY <1>3, <1>6, <2>1, <2>2 DEF Alone, Claims, CodeFree, OwnerOf
  <2>4. Secrecy'
    BY <1>2, <1>3, <1>4, <1>6 DEF Alone, Secrecy, OwnerOf
  <2> QED
    BY <2>3, <2>4
<1>7. Registering(w)' /\ Verifying(w)' /\ Proving(w)'
  <2>1. req'[w] = Idle
    BY <1>1 DEF Processes
  <2> QED
    BY <2>1 DEF Registering, Verifying, Proving, At, Idle
<1> QED
  BY <1>1, <1>5, <1>6, <1>7, IdleIsOther, Concern

-----------------------------------------------------------------------------
(* authenticateWatchdog and unregister.                                    *)

LEMMA AuthenticateAInv ==
    ASSUME AInv, NEW w \in Workers, NEW c \in Codes, NEW x \in Secrets, AuthenticateWatchdog(w, c, x)
    PROVE  AInv'
<1> USE DEF AInv
<1> DEFINE q == [op |-> "secret", code |-> c, uid |-> OwnerOf(c), secret |-> x]
           t == [op |-> "token", code |-> c, id |-> OwnerOf(c), perm |-> "none"]
<1>1. /\ c \in DOMAIN wdcodes /\ OwnerOf(c) # Unclaimed /\ w \in alive
      /\ UNCHANGED <<alive, wdcodes, pending, lastUid, lastLink>>
  BY DEF AuthenticateWatchdog, Receive, Free, authDb
<1>2. CASE req' = [req EXCEPT ![w] = t]
  <2>1. Other(t)
    BY DEF Other
  <2> HIDE DEF t
  <2> QED
    BY <1>1, <1>2, <2>1, SamePending
<1>3. CASE Secretless(c) /\ req' = [req EXCEPT ![w] = q]
  <2>1. OwnerOf(c) \in Uids
    BY <1>1 DEF OwnerOf, Base, CodeRow
  <2>2. q \in Concerned /\ req'[w] = q
    BY <1>3, <2>1 DEF Concerned, SecretReq, Processes
  <2>3. Base' /\ (Sequential => Claims' /\ Secrecy')
    BY <1>1 DEF Base, Alone, Claims, Secrecy, CodeFree, OwnerOf, Fresh
  <2>4. Registering(w)' /\ Verifying(w)'
    BY <2>2 DEF Registering, Verifying, At
  <2>5. Proving(w)'
    BY <1>1, <1>3, <2>2 DEF Proving, Secretless, OwnerOf
  <2> HIDE DEF q
  <2> QED
    BY <1>1, <1>3, <2>2, <2>3, <2>4, <2>5, Concern
<1> QED
  BY <1>2, <1>3 DEF AuthenticateWatchdog, Receive

LEMMA StoreSecretAInv == ASSUME AInv, NEW w \in Workers, StoreSecret(w) PROVE AInv'
<1> USE DEF AInv
<1> DEFINE c == req[w].code
           row == [wdcodes[c] EXCEPT !.secret = req[w].secret]
           t == [op |-> "token", code |-> req[w].code, id |-> req[w].uid, perm |-> "none"]
<1>1. /\ req[w] \in SecretReq /\ w \in alive /\ wdcodes' = [wdcodes EXCEPT ![c] = row]
      /\ req' = [req EXCEPT ![w] = t] /\ UNCHANGED <<alive, pending, lastUid, lastLink>>
  BY Remembers DEF StoreSecret, Continue, Processes, Idle
<1>2. /\ DOMAIN wdcodes' = DOMAIN wdcodes
      /\ c \in DOMAIN wdcodes => wdcodes'[c] = row
      /\ \A d \in DOMAIN wdcodes : d # c => wdcodes'[d] = wdcodes[d]
  BY <1>1
<1>3. c \in DOMAIN wdcodes => row \in CodeRow /\ row.uid = OwnerOf(c)
  BY <1>1 DEF Base, CodeRow, SecretReq, OwnerOf
<1>4. Other(t) /\ req'[w] = t
  BY <1>1 DEF Other, Processes
<1>5. Registering(w)' /\ Verifying(w)' /\ Proving(w)'
  BY <1>4 DEF Registering, Verifying, Proving, At
<1>6. ASSUME Sequential PROVE OwnerOf(c) # Unclaimed
  BY <1>6 DEF Alone, Proving, StoreSecret
<1> HIDE DEF row, c, t
<1>7. Base'
  BY <1>1, <1>2, <1>3 DEF Base
<1>8. ASSUME Sequential PROVE Claims' /\ Secrecy'
  <2>1. \A d \in DOMAIN wdcodes : OwnerOf(d)' = OwnerOf(d)
    BY <1>2, <1>3 DEF OwnerOf
  <2>2. Fresh' = Fresh
    BY <1>1 DEF Fresh
  <2>3. Claims'
    BY <1>2, <1>8, <2>1, <2>2 DEF Alone, Claims, CodeFree
  <2>4. Secrecy'
    BY <1>2, <1>6, <1>8, <2>1 DEF Alone, Secrecy
  <2> QED
    BY <2>3, <2>4
<1> QED
  BY <1>1, <1>4, <1>5, <1>7, <1>8, Concern

LEMMA UnregisterCodeAInv ==
    ASSUME AInv, NEW w \in Workers, NEW c \in Codes, UnregisterCode(w, c)
    PROVE  AInv'
<1> USE DEF AInv
<1> DEFINE row == [uid |-> Unclaimed, secret |-> Unset]
           q == [req[w] EXCEPT !.left = @ \ {c}]
<1>1. /\ w \in alive /\ req[w].op = "unregister" /\ wdcodes' = [wdcodes EXCEPT ![c] = row]
      /\ UNCHANGED <<alive, pending, lastUid, lastLink>>
      /\ req' = [req EXCEPT ![w] = Idle] \/ req' = [req EXCEPT ![w] = q]
  BY AtIsAlive DEF UnregisterCode, At, Answer, Continue
<1>2. Other(req[w])
  BY <1>1 DEF Processes, Concerned, RegisterReq, VerifyReq, ClaimReq, SecretReq, ForgotReq
<1>3. Other(q)
  BY <1>2 DEF Other
<1> HIDE DEF q
<1>4. PICK r : Other(r) /\ req' = [req EXCEPT ![w] = r]
  BY <1>1, <1>3, IdleIsOther
<1>5. row \in CodeRow /\ row.uid = Unclaimed /\ row.secret = Unset
  BY DEF CodeRow
<1> HIDE DEF row
<1>6. /\ Base' /\ DOMAIN wdcodes' = DOMAIN wdcodes
      /\ c \in DOMAIN wdcodes => wdcodes'[c] = row
      /\ \A d \in DOMAIN wdcodes : d # c => wdcodes'[d] = wdcodes[d]
  BY <1>1, <1>5, RowOf
<1>7. ASSUME Sequential PROVE Claims' /\ Secrecy'
  <2>1. Fresh' = Fresh
    BY <1>1 DEF Fresh
  <2>2. \A d : CodeFree(d) => CodeFree(d)'
    BY <1>5, <1>6 DEF CodeFree, OwnerOf
  <2>3. Claims'
    BY <1>7, <2>1, <2>2 DEF Alone, Claims
  <2>4. Secrecy'
    BY <1>5, <1>6, <1>7 DEF Alone, Secrecy, OwnerOf
  <2> QED
    BY <2>3, <2>4
<1>8. req'[w] = r
  BY <1>4 DEF Processes
<1>9. Registering(w)' /\ Verifying(w)' /\ Proving(w)'
  BY <1>4, <1>8 DEF Registering, Verifying, Proving, At, Other
<1> QED
  BY <1>1, <1>4, <1>6, <1>7, <1>9, Concern

-----------------------------------------------------------------------------
(* The requests that are not concerned.                                    *)

LEMMA ForgotAInv ==
    ASSUME AInv, NEW w \in Workers,
           (\E e \in Emails : Forgot(w, e)) \/ ForgotPending(w) \/ ForgotInsert(w)
    PROVE  AInv'
<1> USE DEF AInv
<1>1. ASSUME NEW r \in ForgotReq, w \in alive, req' = [req EXCEPT ![w] = r],
             UNCHANGED <<alive, wdcodes, lastUid, lastLink>>, pending' \subseteq pending
      PROVE  AInv'
  <2>1. r \in Concerned /\ req'[w] = r /\ r.op = "forgot"
    BY <1>1 DEF Concerned, ForgotReq, Processes
  <2>2. Base' /\ Fresh' \subseteq Fresh
    BY <1>1 DEF Base, Fresh
  <2>3. Sequential => Claims' /\ Secrecy'
    BY <1>1, <2>2 DEF Alone, Claims, Secrecy, CodeFree, OwnerOf
  <2>4. Registering(w)' /\ Verifying(w)' /\ Proving(w)'
    BY <2>1 DEF Registering, Verifying, Proving, At
  <2> QED
    BY <1>1, <2>1, <2>2, <2>3, <2>4, Concern
<1>2. ASSUME NEW e \in Emails, Forgot(w, e) PROVE AInv'
  <2> DEFINE r == [op |-> "forgot", at |-> "pending", email |-> e]
  <2>1. w \in alive /\ req' = [req EXCEPT ![w] = r] /\ UNCHANGED <<alive, wdcodes, lastUid, lastLink, pending>>
    BY <1>2 DEF Forgot, Receive, Free, authDb
  <2>2. r \in ForgotReq
    BY DEF ForgotReq
  <2> HIDE DEF r
  <2> QED
    BY <1>1, <2>1, <2>2
<1>3. ASSUME ForgotPending(w) \/ ForgotInsert(w)
      PROVE  w \in alive /\ req[w] \in ForgotReq
  BY <1>3, AtIsAlive, Remembers DEF ForgotPending, ForgotInsert, At
<1>4. CASE ForgotPending(w)
  <2> DEFINE r == [req[w] EXCEPT !.at = "insert"]
  <2>1. /\ UNCHANGED <<alive, wdcodes, lastUid, lastLink>> /\ pending' \subseteq pending
        /\ req' = [req EXCEPT ![w] = Idle] \/ req' = [req EXCEPT ![w] = r]
    BY <1>4 DEF ForgotPending, Answer, Goto, Continue, Sweep, Fresh
  <2>2. r \in ForgotReq
    BY <1>3, <1>4 DEF ForgotReq
  <2> HIDE DEF r
  <2> QED
    BY <1>1, <1>3, <1>4, <2>1, <2>2, IdleIsOther, FewerPending
<1>5. CASE ForgotInsert(w)
  <2>1. req' = [req EXCEPT ![w] = Idle] /\ UNCHANGED <<alive, wdcodes, lastUid>>
    BY <1>5 DEF ForgotInsert, Answer, Continue
  <2>2. CASE UNCHANGED <<pending, lastLink>>
    BY <1>3, <1>5, <2>1, <2>2, IdleIsOther, SamePending
  <2>3. CASE ~UNCHANGED <<pending, lastLink>>
    <3> DEFINE new == [link |-> lastLink + 1, type |-> "reset", email |-> req[w].email,
                       code |-> Unset, fresh |-> TRUE]
    <3>1. lastLink < MaxLink /\ lastLink' = lastLink + 1 /\ pending' = pending \cup {new}
      BY <1>5, <2>3 DEF ForgotInsert, InsertPending
    <3>2. new \in Pending /\ new.code = Unset /\ new.type = "reset"
      BY <1>3, <1>5, <3>1, AuthAssumption DEF Base, ForgotReq, Pending, Links
    <3> HIDE DEF new
    <3>3. pending' \subseteq Pending /\ \A s \in pending' : s.type = "email" => s.code \in Codes
      BY <3>1, <3>2 DEF Base
    <3>4. \A s \in Fresh' : s \in Fresh \/ (s.code = Unset /\ s.type = "reset")
      BY <3>1, <3>2 DEF Fresh
    <3>5. lastLink' \in Nat
      BY <3>1 DEF Base
    <3> QED
      BY <1>3, <1>5, <2>1, <3>3, <3>4, <3>5, IdleIsOther, Unconcerned
  <2> QED
    BY <2>2, <2>3
<1> QED
  BY <1>2, <1>4, <1>5

\* resetPassword and the requests for tokens leave the codes and the claims alone.
LEMMA ResetAInv ==
    ASSUME AInv, NEW w \in Workers,
           \/ \E r \in pending : Reset(w, r)
           \/ \E b \in bodies, accepted \in BOOLEAN : ResetBody(w, b, accepted)
           \/ ResetUpdate(w)
    PROVE  AInv'
<1>1. ASSUME NEW r \in pending, Reset(w, r) PROVE AInv'
  BY <1>1, IdleIsOther, SamePending DEF Reset, Receive, Free, authDb
<1>2. ASSUME NEW b \in bodies, NEW accepted \in BOOLEAN, ResetBody(w, b, accepted) PROVE AInv'
  <2> DEFINE r == [op |-> "reset", at |-> "update", email |-> b.email, link |-> b.link]
  <2>1. CASE accepted
    <3>1. /\ w \in alive /\ req' = [req EXCEPT ![w] = r] /\ pending' \subseteq pending
          /\ UNCHANGED <<alive, wdcodes, lastUid, lastLink>>
      BY <1>2, <2>1 DEF ResetBody, Free, Continue
    <3>2. Other(r)
      BY DEF Other
    <3> HIDE DEF r
    <3> QED
      BY <3>1, <3>2, FewerPending
  <2>2. CASE ~accepted
    BY <1>2, <2>2, NothingOfThis DEF ResetBody
  <2> QED
    BY <2>1, <2>2
<1>3. CASE ResetUpdate(w)
  <2>1. w \in alive /\ req' = [req EXCEPT ![w] = Idle] /\ UNCHANGED <<alive, wdcodes, lastUid, lastLink, pending>>
    BY <1>3, AtIsAlive DEF AInv, ResetUpdate, Answer, Continue, At
  <2> QED
    BY <2>1, IdleIsOther, SamePending
<1> QED
  BY <1>1, <1>2, <1>3

LEMMA TokenAInv ==
    ASSUME AInv, NEW w \in Workers,
           \/ \E u \in users : Login(w, u)
           \/ \E t \in issued : RequestToken(w, t) \/ Unregister(w, t)
           \/ GenerateToken(w)
    PROVE  AInv'
<1>1. ASSUME NEW u \in users, Login(w, u) PROVE AInv'
  <2> DEFINE r == [op |-> "token", code |-> u.email, id |-> u.uid, perm |-> "user"]
  <2>1. w \in alive /\ req' = [req EXCEPT ![w] = r] /\ UNCHANGED <<alive, wdcodes, lastUid, lastLink, pending>>
    BY <1>1 DEF Login, Receive, Free, authDb
  <2>2. Other(r)
    BY DEF Other
  <2> HIDE DEF r
  <2> QED
    BY <2>1, <2>2, SamePending
<1>2. ASSUME NEW t \in issued, RequestToken(w, t) PROVE AInv'
  <2> DEFINE r == [op |-> "token", code |-> t.code, id |-> t.id, perm |-> "none"]
  <2>1. w \in alive /\ req' = [req EXCEPT ![w] = r] /\ UNCHANGED <<alive, wdcodes, lastUid, lastLink, pending>>
    BY <1>2 DEF RequestToken, Receive, Free, authDb
  <2>2. Other(r)
    BY DEF Other
  <2> HIDE DEF r
  <2> QED
    BY <2>1, <2>2, SamePending
<1>3. ASSUME NEW t \in issued, Unregister(w, t) PROVE AInv'
  <2> DEFINE r == [op |-> "unregister", at |-> "pending", token |-> t]
  <2>1. w \in alive /\ req' = [req EXCEPT ![w] = r] /\ UNCHANGED <<alive, wdcodes, lastUid, lastLink, pending>>
    BY <1>3 DEF Unregister, Receive, Free, authDb
  <2>2. Other(r)
    BY DEF Other
  <2> HIDE DEF r
  <2> QED
    BY <2>1, <2>2, SamePending
<1>4. CASE GenerateToken(w)
  <2>1. w \in alive
    BY <1>4 DEF AInv, Processes, GenerateToken, Idle
  <2>2. req' = [req EXCEPT ![w] = Idle] /\ UNCHANGED <<alive, wdcodes, lastUid, lastLink, pending>>
    BY <1>4 DEF GenerateToken, Answer, Continue, authDb
  <2> QED
    BY <2>1, <2>2, IdleIsOther, SamePending
<1> QED
  BY <1>1, <1>2, <1>3, <1>4

LEMMA UnregisterAInv ==
    ASSUME AInv, NEW w \in Workers, UnregisterPending(w) \/ UnregisterDelete(w)
    PROVE  AInv'
<1> DEFINE go == [req[w] EXCEPT !.at = "users"]
           on == [op |-> "unregister", at |-> "codes", token |-> req[w].token,
                  left |-> req[w].token.belongs]
<1>1. w \in alive /\ Other(req[w])
  BY AtIsAlive DEF AInv, UnregisterPending, UnregisterDelete, At, Processes, Concerned, RegisterReq,
                   VerifyReq, ClaimReq, SecretReq, ForgotReq
<1>2. Other(go) /\ Other(on)
  BY <1>1 DEF Other
<1>3. /\ req' \in {[req EXCEPT ![w] = Idle], [req EXCEPT ![w] = go], [req EXCEPT ![w] = on]}
      /\ UNCHANGED <<alive, wdcodes, lastUid, lastLink>> /\ pending' \subseteq pending
  BY DEF UnregisterPending, UnregisterDelete, Answer, Goto, Continue, Sweep, Fresh
<1> HIDE DEF go, on
<1> QED
  BY <1>1, <1>2, <1>3, IdleIsOther, FewerPending

LEMMA CrashAInv == ASSUME AInv, NEW w \in Workers, AuthCrash(w) PROVE AInv'
<1>1. w \in alive /\ req' = [req EXCEPT ![w] = Idle] /\ UNCHANGED <<alive, wdcodes, lastUid, lastLink, pending>>
  BY DEF AuthCrash, Answer, Continue, authDb
<1> QED
  BY <1>1, IdleIsOther, SamePending

-----------------------------------------------------------------------------
(* Every step.                                                             *)

LEMMA NextAInv == AInv /\ [AuthNext]_authVars => AInv'
<1> SUFFICES ASSUME AInv, [AuthNext]_authVars PROVE AInv'
  OBVIOUS
<1>1. CASE UNCHANGED authVars
  BY <1>1, NothingOfThis DEF authVars, authDb
<1>2. ASSUME NEW t \in issued, TokenExpires(t) PROVE AInv'
  BY <1>2, NothingOfThis DEF TokenExpires, authDb
<1>3. ASSUME NEW w \in Workers,
             \/ \E e \in Emails, c \in Codes : Register(w, e, c)
             \/ RegisterCode(w) \/ RegisterPending(w) \/ RegisterInsert(w)
             \/ \E r \in pending : Verify(w, r)
             \/ VerifyDelete(w) \/ VerifyInsert(w) \/ VerifyClaim(w)
      PROVE  AInv'
  BY <1>3, RegisterAInv, VerifyAInv, VerifyDeleteAInv, VerifyInsertAInv, VerifyClaimAInv
<1>4. ASSUME NEW w \in Workers,
             \/ \E e \in Emails : Forgot(w, e)
             \/ ForgotPending(w) \/ ForgotInsert(w)
             \/ \E r \in pending : Reset(w, r)
             \/ \E b \in bodies, accepted \in BOOLEAN : ResetBody(w, b, accepted)
             \/ ResetUpdate(w)
      PROVE  AInv'
  BY <1>4, ForgotAInv, ResetAInv
<1>5. ASSUME NEW w \in Workers,
             \/ \E u \in users : Login(w, u)
             \/ \E t \in issued : RequestToken(w, t) \/ Unregister(w, t)
             \/ \E c \in Codes, s \in Secrets : AuthenticateWatchdog(w, c, s)
             \/ StoreSecret(w) \/ GenerateToken(w)
             \/ UnregisterPending(w) \/ UnregisterDelete(w)
             \/ \E c \in Codes : UnregisterCode(w, c)
             \/ AuthCrash(w)
      PROVE  AInv'
  BY <1>5, TokenAInv, AuthenticateAInv, StoreSecretAInv, UnregisterAInv, UnregisterCodeAInv, CrashAInv
<1> QED
  BY <1>1, <1>2, <1>3, <1>4, <1>5, AddCodeAInv, TenMinutesAInv DEF AuthNext

LEMMA Inductive == AuthSpec => []AInv
BY InitAInv, NextAInv, PTL DEF AuthSpec

-----------------------------------------------------------------------------
(* Owners.  What keeps them right for any number of processes: numbers of  *)
(* accounts are drawn once, and who is given a token before the account    *)
(* has its code is on record.                                              *)

Lives(u)   == \E x \in users : x.uid = u
Excused(u) == u \in early \cup cut
Given      == 1 .. lastUid

\* A token names the codes its account has by now.
TokenFine(t) ==
    /\ t.id \in Given
    /\ MidVerify(t.id) => t.id \in early
    /\ t.code \in Emails => Excused(t.id) \/ CodesOf(t.id) \subseteq t.belongs

\* Who releases codes has deleted their account, who claims one has made it.
RequestFine(r) ==
    /\ r.op = "token" => r.id \in Given
    /\ r.op = "secret" => r.uid \in Given
    /\ r.op = "unregister" =>
         /\ {"op", "at", "token"} \subseteq DOMAIN r
         /\ r.token.code \in Emails /\ TokenFine(r.token)
         /\ r.at = "codes" => "left" \in DOMAIN r /\ ~Lives(r.token.id)
    /\ r.op = "verify" /\ r.at = "claim" => r.uid \in Given /\ (Lives(r.uid) \/ Excused(r.uid))

\* A code nobody owns any more is on the list of an unregister that is under way.
Released(c) == \E w \in Workers : At(w, "unregister", "codes") /\ c \in req[w].left
OwnerFine(u, c) == u = Unclaimed \/ Lives(u) \/ Excused(u) \/ Released(c)
Owned(c) == \A u : u = OwnerOf(c) => u \in 0 .. lastUid /\ OwnerFine(u, c)

OInv ==
    /\ \A u \in users : "uid" \in DOMAIN u /\ u.uid \in Given
    /\ DOMAIN cache = Workers
    /\ \A c \in DOMAIN wdcodes : Owned(c)
    /\ \A t \in issued : TokenFine(t)
    /\ \A w \in Workers : \A t \in cache[w] : TokenFine(t)
    /\ \A w \in Workers : \A r : r = req[w] => RequestFine(r)

-----------------------------------------------------------------------------
(* Facts that several actions need.                                        *)

\* What is known of tokens stays true when nobody gets a code but who was about to.
LEMMA TokensStay ==
    ASSUME lastUid \in Nat, lastUid' \in Nat, lastUid <= lastUid',
           early \subseteq early', cut \subseteq cut',
           \A u \in Given : (MidVerify(u)' => MidVerify(u))
                            /\ (CodesOf(u)' \subseteq CodesOf(u) \/ MidVerify(u)),
           NEW t, TokenFine(t)
    PROVE  TokenFine(t)'
<1>1. t.id \in Given /\ t.id \in Given'
  BY DEF TokenFine, Given
<1>2. MidVerify(t.id)' => t.id \in early'
  BY <1>1 DEF TokenFine
<1>3. ASSUME t.code \in Emails PROVE Excused(t.id)' \/ CodesOf(t.id)' \subseteq t.belongs
  BY <1>1, <1>3 DEF TokenFine, Excused
<1> QED
  BY <1>1, <1>2, <1>3 DEF TokenFine

\* Process w goes on with r, which is no claim of an account that exists.
LEMMA Turn ==
    ASSUME AInv, AInv', OInv, NEW w \in Workers, NEW r, req' = [req EXCEPT ![w] = r],
           lastUid <= lastUid', early \subseteq early', cut \subseteq cut',
           r.op = "verify" /\ r.at = "claim" => r.uid \notin Given,
           (\A t : TokenFine(t) => TokenFine(t)') => RequestFine(r)', DOMAIN cache' = Workers,
           \A u \in Given : /\ CodesOf(u)' \subseteq CodesOf(u) \/ MidVerify(u)
                            /\ Lives(u)' => Lives(u)
                            /\ Lives(u) /\ MidVerify(u) => Lives(u)' \/ Excused(u),
           \A u \in users' : "uid" \in DOMAIN u /\ u.uid \in Given',
           \A c \in DOMAIN wdcodes' : Owned(c)',
           \A t \in issued' : TokenFine(t) \/ TokenFine(t)',
           \A v \in Workers : \A t \in cache'[v] : TokenFine(t) \/ TokenFine(t)'
    PROVE  OInv'
<1>1. /\ req'[w] = r /\ \A v \in Workers \ {w} : req'[v] = req[v]
      /\ lastUid \in Nat /\ lastUid' \in Nat
  BY DEF AInv, Processes, Base
<1>2. \A u \in Given : MidVerify(u)' => MidVerify(u)
  BY <1>1 DEF MidVerify, At
<1>3. \A t : TokenFine(t) => TokenFine(t)'
  BY <1>1, <1>2, TokensStay
<1>4. Given \subseteq Given'
  BY <1>1 DEF Given
<1>5. ASSUME NEW v \in Workers \ {w}, NEW q, q = req[v] PROVE RequestFine(q)'
  <2>1. RequestFine(q)
    BY <1>5 DEF OInv
  <2>2. ASSUME q.op = "unregister"
        PROVE  /\ {"op", "at", "token"} \subseteq DOMAIN q
               /\ q.token.code \in Emails /\ TokenFine(q.token)'
               /\ q.at = "codes" => "left" \in DOMAIN q /\ ~Lives(q.token.id)'
    <3>1. TokenFine(q.token) /\ q.token.id \in Given
      BY <2>1, <2>2 DEF RequestFine, TokenFine
    <3> QED
      BY <1>3, <2>1, <2>2, <3>1 DEF RequestFine
  <2>3. ASSUME q.op = "verify", q.at = "claim"
        PROVE  q.uid \in Given' /\ (Lives(q.uid)' \/ Excused(q.uid)')
    <3>1. MidVerify(q.uid)
      BY <1>5, <2>3 DEF MidVerify, At
    <3>2. q.uid \in Given /\ (Lives(q.uid) \/ Excused(q.uid))
      BY <2>1, <2>3 DEF RequestFine
    <3>3. Excused(q.uid) => Excused(q.uid)'
      BY DEF Excused
    <3> QED
      BY <1>4, <3>1, <3>2, <3>3
  <2> QED
    BY <1>4, <2>1, <2>2, <2>3 DEF RequestFine
<1>6. \A v \in Workers : \A q : q = req'[v] => RequestFine(q)'
  BY <1>1, <1>3, <1>5
<1>7. \A t \in issued' : TokenFine(t)'
  BY <1>3 DEF OInv
<1>8. \A v \in Workers : \A t \in cache'[v] : TokenFine(t)'
  BY <1>3 DEF OInv
<1> QED
  BY <1>6, <1>7, <1>8 DEF OInv

\* Process w goes on with r, and no table that says who owns what has changed.
LEMMA Quiet ==
    ASSUME AInv, AInv', OInv, NEW w \in Workers, NEW r, req' = [req EXCEPT ![w] = r],
           ~(r.op = "verify" /\ r.at = "claim"), ~At(w, "unregister", "codes"),
           RequestFine(r), \A u : Lives(u)' <=> Lives(u),
           \A u \in users' : "uid" \in DOMAIN u /\ u.uid \in Given,
           UNCHANGED <<wdcodes, lastUid, issued, cache, early, cut>>
    PROVE  OInv'
<1>1. /\ req'[w] = r /\ \A v \in Workers \ {w} : req'[v] = req[v]
      /\ lastUid \in Nat
  BY DEF AInv, Processes, Base
<1>2. \A u : CodesOf(u)' = CodesOf(u)
  BY DEF CodesOf, OwnerOf
<1>3. \A u \in Given : MidVerify(u)' => MidVerify(u)
  BY <1>1 DEF MidVerify, At
<1>4. \A t : TokenFine(t) => TokenFine(t)'
  <2>1. lastUid' \in Nat /\ lastUid <= lastUid' /\ early \subseteq early' /\ cut \subseteq cut'
    BY <1>1
  <2> QED
    BY <1>1, <1>2, <1>3, <2>1, TokensStay
<1>5. Given' = Given /\ \A u : Excused(u)' <=> Excused(u)
  BY DEF Given, Excused
<1>6. RequestFine(r)'
  <2>1. r.op = "unregister" => TokenFine(r.token)' /\ (~Lives(r.token.id) => ~Lives(r.token.id)')
    BY <1>4 DEF RequestFine
  <2> QED
    BY <1>5, <2>1 DEF RequestFine
<1>7. ASSUME NEW c \in DOMAIN wdcodes' PROVE Owned(c)'
  <2>1. Owned(c) /\ (Released(c) => Released(c)')
    BY <1>1 DEF OInv, Released, At
  <2> QED
    BY <1>5, <2>1 DEF Owned, OwnerFine, OwnerOf
<1>8. lastUid <= lastUid' /\ early \subseteq early' /\ cut \subseteq cut'
  BY <1>1
<1>9. \A u \in Given : /\ CodesOf(u)' \subseteq CodesOf(u) \/ MidVerify(u)
                       /\ Lives(u)' => Lives(u)
                       /\ Lives(u) /\ MidVerify(u) => Lives(u)' \/ Excused(u)
  BY <1>2
<1>10. \A u \in users' : "uid" \in DOMAIN u /\ u.uid \in Given'
  BY <1>5
<1>11. /\ DOMAIN cache' = Workers /\ \A t \in issued' : TokenFine(t)
       /\ \A v \in Workers : \A t \in cache'[v] : TokenFine(t)
  BY DEF OInv
<1> QED
  BY <1>6, <1>7, <1>8, <1>9, <1>10, <1>11, Turn

LEMMA FewerTokens ==
    ASSUME OInv, UNCHANGED <<req, users, wdcodes, lastUid, cache, early, cut>>, issued' \subseteq issued
    PROVE  OInv'
<1>1. \A u : (MidVerify(u)' <=> MidVerify(u)) /\ (CodesOf(u)' = CodesOf(u)) /\ (Lives(u)' <=> Lives(u))
  BY DEF MidVerify, At, CodesOf, OwnerOf, Lives
<1>2. Given' = Given /\ \A u : Excused(u)' <=> Excused(u)
  BY DEF Given, Excused
<1>3. \A t : TokenFine(t)' <=> TokenFine(t)
  BY <1>1, <1>2 DEF TokenFine
<1>4. \A r : RequestFine(r)' <=> RequestFine(r)
  BY <1>1, <1>2, <1>3 DEF RequestFine
<1>5. \A c \in DOMAIN wdcodes : Owned(c)' <=> Owned(c)
  <2>1. \A c : Released(c)' <=> Released(c)
    BY DEF Released, At
  <2> QED
    BY <1>1, <1>2, <2>1 DEF Owned, OwnerFine, OwnerOf
<1> QED
  BY <1>2, <1>3, <1>4, <1>5 DEF OInv

LEMMA NoneOfIt ==
    ASSUME OInv, UNCHANGED <<req, users, wdcodes, lastUid, issued, cache, early, cut>>
    PROVE  OInv'
BY FewerTokens

\* The requests that neither give nor take a code, and time.
LEMMA PassingOInv ==
    ASSUME AInv, AInv', OInv, NEW w \in Workers,
           \/ \E e \in Emails, c \in Codes : Register(w, e, c)
           \/ RegisterCode(w) \/ RegisterPending(w) \/ RegisterInsert(w)
           \/ \E r \in pending : Verify(w, r)
           \/ VerifyDelete(w) \/ (VerifyInsert(w) /\ HasAccount(req[w].row.email))
           \/ \E e \in Emails : Forgot(w, e)
           \/ ForgotPending(w) \/ ForgotInsert(w)
           \/ \E r \in pending : Reset(w, r)
           \/ ResetUpdate(w)
    PROVE  OInv'
<1> DEFINE Calm(r) == r.op \in {"idle", "register", "verify", "forgot"} /\ (r.op = "verify" => r.at # "claim")
<1>1. ASSUME NEW r, Calm(r), req' = [req EXCEPT ![w] = r], ~At(w, "unregister", "codes"),
             UNCHANGED <<wdcodes, lastUid, issued, cache, early, cut>>,
             UNCHANGED users \/ ResetUpdate(w)
      PROVE  OInv'
  <2>1. \A u : Lives(u)' <=> Lives(u)
    <3>1. CASE UNCHANGED users
      BY <3>1 DEF Lives
    <3>2. CASE ResetUpdate(w)
      <4> DEFINE New(x) == IF x.email = req[w].email THEN [x EXCEPT !.pw = req[w].link] ELSE x
      <4>1. users' = {New(x) : x \in users} /\ \A x \in users : New(x).uid = x.uid
        BY <3>2 DEF ResetUpdate, OInv
      <4> HIDE DEF New
      <4> QED
        BY <4>1 DEF Lives
    <3> QED
      BY <1>1, <3>1, <3>2
  <2>2. \A u \in users' : "uid" \in DOMAIN u /\ u.uid \in Given
    BY <1>1 DEF ResetUpdate, OInv
  <2>3. RequestFine(r) /\ ~(r.op = "verify" /\ r.at = "claim")
    BY <1>1 DEF RequestFine
  <2> HIDE DEF Calm
  <2> QED
    BY <1>1, <2>1, <2>2, <2>3, Quiet
<1>2. Calm(Idle) /\ (Free(w) => ~At(w, "unregister", "codes"))
  BY DEF Idle, Free, At
<1>3. ASSUME NEW e \in Emails, NEW c \in Codes, Register(w, e, c) PROVE OInv'
  <2>1. PICK r : r = [op |-> "register", at |-> "code", email |-> e, code |-> c]
    OBVIOUS
  <2>2. Calm(r)
    BY <2>1
  <2> HIDE DEF Calm
  <2> QED
    BY <1>1, <1>2, <1>3, <2>1, <2>2 DEF Register, Receive, authDb, authHist
<1>4. ASSUME NEW s \in pending, Verify(w, s) PROVE OInv'
  <2>1. PICK r : r = [op |-> "verify", at |-> "delete", row |-> s]
    OBVIOUS
  <2>2. Calm(r)
    BY <2>1
  <2> HIDE DEF Calm
  <2> QED
    BY <1>1, <1>2, <1>4, <2>1, <2>2 DEF Verify, Receive, authDb, authHist
<1>5. ASSUME NEW e \in Emails, Forgot(w, e) PROVE OInv'
  <2>1. PICK r : r = [op |-> "forgot", at |-> "pending", email |-> e]
    OBVIOUS
  <2>2. Calm(r)
    BY <2>1
  <2> HIDE DEF Calm
  <2> QED
    BY <1>1, <1>2, <1>5, <2>1, <2>2 DEF Forgot, Receive, authDb, authHist
<1>6. ASSUME NEW s \in pending, Reset(w, s) PROVE OInv'
  <2> HIDE DEF Calm
  <2> QED
    BY <1>1, <1>2, <1>6 DEF Reset, Receive, Free, authDb, authHist
<1>7. ASSUME RegisterCode(w) \/ RegisterPending(w) \/ RegisterInsert(w) \/ VerifyDelete(w)
             \/ (VerifyInsert(w) /\ HasAccount(req[w].row.email)) \/ ForgotPending(w) \/ ForgotInsert(w)
             \/ ResetUpdate(w)
      PROVE  OInv'
  <2>1. ~At(w, "unregister", "codes")
    BY <1>7 DEF RegisterCode, RegisterPending, RegisterInsert, VerifyDelete, VerifyInsert,
                ForgotPending, ForgotInsert, ResetUpdate, At
  <2>2. /\ UNCHANGED <<wdcodes, lastUid, issued, cache, early, cut>>
        /\ UNCHANGED users \/ ResetUpdate(w)
    BY <1>7 DEF RegisterCode, RegisterPending, RegisterInsert, VerifyDelete, VerifyInsert,
                ForgotPending, ForgotInsert, ResetUpdate, InsertPending, authDb, authHist
  <2>3. PICK r : Calm(r) /\ req' = [req EXCEPT ![w] = r]
    <3>1. CASE req' = [req EXCEPT ![w] = Idle]
      BY <1>2, <3>1
    <3>2. CASE RegisterCode(w) \/ RegisterPending(w) \/ VerifyDelete(w) \/ ForgotPending(w)
      <4> DEFINE Next(at) == [req[w] EXCEPT !.at = at]
      <4>1. req[w] \in RegisterReq \cup VerifyReq \cup ForgotReq
        BY <3>2, Remembers DEF AInv, RegisterCode, RegisterPending, VerifyDelete, ForgotPending, At,
                               ClaimReq
      <4>2. Calm(Next("pending")) /\ Calm(Next("insert"))
        BY <4>1 DEF RegisterReq, VerifyReq, ForgotReq
      <4>3. req' \in {[req EXCEPT ![w] = Idle], [req EXCEPT ![w] = Next("pending")],
                      [req EXCEPT ![w] = Next("insert")]}
        BY <3>2 DEF RegisterCode, RegisterPending, VerifyDelete, ForgotPending, Answer, Goto, Continue
      <4> HIDE DEF Calm, Next
      <4> QED
        BY <1>2, <4>2, <4>3
    <3>3. CASE VerifyInsert(w) /\ HasAccount(req[w].row.email)
      BY <3>1, <3>3 DEF VerifyInsert, Answer, Continue
    <3> QED
      BY <1>7, <3>1, <3>2, <3>3 DEF RegisterInsert, ForgotInsert, ResetUpdate, Answer, Continue
  <2> HIDE DEF Calm
  <2> QED
    BY <1>1, <2>1, <2>2, <2>3
<1> HIDE DEF Calm
<1> QED
  BY <1>3, <1>4, <1>5, <1>6, <1>7

\* Those that will give a token, or prove a code, know whom it belongs to.
LEMMA AskingOInv ==
    ASSUME AInv, AInv', OInv, NEW w \in Workers,
           \/ \E u \in users : Login(w, u)
           \/ \E t \in issued : RequestToken(w, t) \/ Unregister(w, t)
           \/ \E c \in Codes, s \in Secrets : AuthenticateWatchdog(w, c, s)
           \/ UnregisterPending(w)
           \/ \E b \in bodies, accepted \in BOOLEAN : ResetBody(w, b, accepted)
    PROVE  OInv'
<1>1. ASSUME NEW r, RequestFine(r), r.op # "verify", req' = [req EXCEPT ![w] = r],
             Free(w) \/ UnregisterPending(w),
             UNCHANGED <<wdcodes, users, lastUid, issued, cache, early, cut>>
      PROVE  OInv'
  <2>1. ~At(w, "unregister", "codes")
    BY <1>1 DEF UnregisterPending, Free, Idle, At
  <2>2. (\A u : Lives(u)' <=> Lives(u)) /\ \A u \in users' : "uid" \in DOMAIN u /\ u.uid \in Given
    BY <1>1 DEF Lives, OInv
  <2> QED
    BY <1>1, <2>1, <2>2, Quiet
<1>2. ASSUME NEW u \in users, Login(w, u) PROVE OInv'
  <2>1. PICK r : r = [op |-> "token", code |-> u.email, id |-> u.uid, perm |-> "user"]
    OBVIOUS
  <2>2. RequestFine(r) /\ r.op # "verify"
    BY <2>1 DEF RequestFine, OInv
  <2> QED
    BY <1>1, <1>2, <2>1, <2>2 DEF Login, Receive, authDb, authHist
<1>3. ASSUME NEW t \in issued, RequestToken(w, t) PROVE OInv'
  <2>1. PICK r : r = [op |-> "token", code |-> t.code, id |-> t.id, perm |-> "none"]
    OBVIOUS
  <2>2. RequestFine(r) /\ r.op # "verify"
    BY <2>1 DEF RequestFine, OInv, TokenFine
  <2> QED
    BY <1>1, <1>3, <2>1, <2>2 DEF RequestToken, Receive, authDb, authHist
<1>4. ASSUME NEW t \in issued, Unregister(w, t) PROVE OInv'
  <2>1. PICK r : r = [op |-> "unregister", at |-> "pending", token |-> t]
    OBVIOUS
  <2>2. RequestFine(r) /\ r.op # "verify"
    BY <1>4, <2>1 DEF RequestFine, OInv, Unregister
  <2> QED
    BY <1>1, <1>4, <2>1, <2>2 DEF Unregister, Receive, authDb, authHist
<1>5. ASSUME NEW c \in Codes, NEW s \in Secrets, AuthenticateWatchdog(w, c, s) PROVE OInv'
  <2>1. OwnerOf(c) \in Given
    BY <1>5 DEF OInv, Owned, AuthenticateWatchdog, Unclaimed, Given, AInv, Base
  <2>2. PICK r : /\ RequestFine(r) /\ r.op # "verify" /\ req' = [req EXCEPT ![w] = r]
    <3>1. PICK q : q = [op |-> "secret", code |-> c, uid |-> OwnerOf(c), secret |-> s]
      OBVIOUS
    <3>2. PICK t : t = [op |-> "token", code |-> c, id |-> OwnerOf(c), perm |-> "none"]
      OBVIOUS
    <3>3. RequestFine(q) /\ q.op # "verify" /\ RequestFine(t) /\ t.op # "verify"
      BY <2>1, <3>1, <3>2 DEF RequestFine
    <3>4. req' = [req EXCEPT ![w] = q] \/ req' = [req EXCEPT ![w] = t]
      BY <1>5, <3>1, <3>2 DEF AuthenticateWatchdog, Receive
    <3> QED
      BY <3>3, <3>4
  <2> QED
    BY <1>1, <1>5, <2>2 DEF AuthenticateWatchdog, Receive, authDb, authHist
<1>6. RequestFine(Idle) /\ Idle.op # "verify"
  BY DEF RequestFine, Idle
<1>7. CASE UnregisterPending(w)
  <2>1. PICK q : q = req[w]
    OBVIOUS
  <2>2. PICK r : r = [q EXCEPT !.at = "users"]
    OBVIOUS
  <2>3. RequestFine(q) /\ q.op = "unregister"
    BY <1>7, <2>1 DEF OInv, UnregisterPending, At
  <2>4. RequestFine(r) /\ r.op # "verify"
    BY <2>2, <2>3 DEF RequestFine
  <2>5. req' = [req EXCEPT ![w] = r] \/ req' = [req EXCEPT ![w] = Idle]
    BY <1>7, <2>1, <2>2 DEF UnregisterPending, Answer, Goto, Continue
  <2> QED
    BY <1>1, <1>6, <1>7, <2>4, <2>5 DEF UnregisterPending, authHist
<1>8. ASSUME NEW b \in bodies, NEW accepted \in BOOLEAN, ResetBody(w, b, accepted) PROVE OInv'
  <2>1. PICK r : r = [op |-> "reset", at |-> "update", email |-> b.email, link |-> b.link]
    OBVIOUS
  <2>2. RequestFine(r) /\ r.op # "verify"
    BY <2>1 DEF RequestFine
  <2>3. CASE accepted
    BY <1>1, <1>8, <2>1, <2>2, <2>3 DEF ResetBody, Continue, authHist
  <2>4. CASE ~accepted
    BY <1>8, <2>4, NoneOfIt DEF ResetBody, serviceVars, authHist
  <2> QED
    BY <2>3, <2>4
<1> QED
  BY <1>2, <1>3, <1>4, <1>5, <1>7, <1>8

\* The owners of the codes stay.
LEMMA StoreSecretOInv ==
    ASSUME AInv, AInv', OInv, NEW w \in Workers, StoreSecret(w)
    PROVE  OInv'
<1>1. PICK q : q = req[w] /\ RequestFine(q) /\ q.op = "secret"
  BY DEF OInv, StoreSecret
<1>2. PICK r : r = [op |-> "token", code |-> q.code, id |-> q.uid, perm |-> "none"]
  OBVIOUS
<1>3. /\ req' = [req EXCEPT ![w] = r] /\ wdcodes' = [wdcodes EXCEPT ![q.code].secret = q.secret]
      /\ UNCHANGED <<users, lastUid, issued, cache, early, cut>>
  BY <1>1, <1>2 DEF StoreSecret, Continue, authHist
<1>4. DOMAIN wdcodes' = DOMAIN wdcodes /\ \A c \in DOMAIN wdcodes : OwnerOf(c)' = OwnerOf(c)
  BY <1>3 DEF OwnerOf, AInv, Base, CodeRow
<1>5. /\ \A v \in Workers \ {w} : req'[v] = req[v]
      /\ lastUid \in Nat /\ lastUid <= lastUid' /\ Given' = Given
  BY <1>3 DEF AInv, Processes, Base, Given
<1>6. ASSUME NEW c \in DOMAIN wdcodes' PROVE Owned(c)'
  <2>1. Owned(c) /\ (Released(c) => Released(c)')
    BY <1>1, <1>4, <1>5 DEF OInv, Released, At
  <2> QED
    BY <1>3, <1>4, <2>1 DEF Owned, OwnerFine, Lives, Excused
<1>7. \A u \in Given : /\ CodesOf(u)' \subseteq CodesOf(u) \/ MidVerify(u)
                       /\ Lives(u)' => Lives(u)
                       /\ Lives(u) /\ MidVerify(u) => Lives(u)' \/ Excused(u)
  BY <1>3, <1>4 DEF CodesOf, Lives
<1>8. RequestFine(r)' /\ r.op = "token"
  BY <1>1, <1>2, <1>5 DEF RequestFine
<1>9. /\ \A u \in users' : "uid" \in DOMAIN u /\ u.uid \in Given'
      /\ DOMAIN cache' = Workers /\ \A t \in issued' : TokenFine(t)
      /\ \A v \in Workers : \A t \in cache'[v] : TokenFine(t)
  BY <1>3, <1>5 DEF OInv
<1>10. early \subseteq early' /\ cut \subseteq cut'
  BY <1>3
<1> QED
  BY <1>3, <1>5, <1>6, <1>7, <1>8, <1>9, <1>10, Turn

\* The token names what its account has, or its account is on record.
LEMMA GenerateTokenOInv ==
    ASSUME AInv, AInv', OInv, NEW w \in Workers, GenerateToken(w)
    PROVE  OInv'
<1>1. PICK r : r = req[w] /\ RequestFine(r) /\ r.op = "token" /\ r.id \in Given
  BY DEF OInv, GenerateToken, RequestFine
<1>2. PICK new : new = [code |-> r.code, id |-> r.id, perm |-> r.perm,
                        belongs |-> IF r.code \in Emails THEN CodesOf(r.id) ELSE {}]
  OBVIOUS
<1>3. PICK t : /\ t = new \/ (t \in cache[w] /\ SameCall(t, r))
               /\ issued' = issued \cup {t}
               /\ early' = IF MidVerify(r.id) THEN early \cup {r.id} ELSE early
               /\ UNCHANGED cache \/ cache' = [cache EXCEPT ![w] = @ \cup {new}]
                                  \/ cache' = [cache EXCEPT ![w] = {new}]
  BY <1>1, <1>2 DEF GenerateToken
<1>4. /\ req' = [req EXCEPT ![w] = Idle] /\ UNCHANGED <<users, wdcodes, lastUid, cut>>
      /\ ~At(w, "unregister", "codes")
  BY <1>1 DEF GenerateToken, Answer, Continue, authDb, At
<1>5. /\ \A v \in Workers \ {w} : req'[v] = req[v] /\ req'[w] = Idle
      /\ lastUid \in Nat /\ lastUid <= lastUid' /\ Given' = Given
  BY <1>4 DEF AInv, Processes, Base, Given
<1>6. \A u : CodesOf(u)' = CodesOf(u) /\ (Lives(u)' <=> Lives(u))
  BY <1>4 DEF CodesOf, OwnerOf, Lives
<1>7. early \subseteq early' /\ cut \subseteq cut'
  BY <1>3, <1>4
<1>8. TokenFine(new)'
  <2>1. MidVerify(r.id)' => MidVerify(r.id)
    BY <1>4, <1>5 DEF MidVerify, At, Idle
  <2>2. new.code \in Emails => new.belongs = CodesOf(r.id)'
    BY <1>2, <1>6
  <2> QED
    BY <1>1, <1>2, <1>3, <1>5, <2>1, <2>2 DEF TokenFine
<1>9. ASSUME NEW c \in DOMAIN wdcodes' PROVE Owned(c)'
  <2>1. Owned(c) /\ (Released(c) => Released(c)')
    BY <1>4, <1>5 DEF OInv, Released, At
  <2> QED
    BY <1>4, <1>6, <1>7, <2>1 DEF Owned, OwnerFine, OwnerOf, Excused
<1>10. RequestFine(Idle)' /\ Idle.op = "idle"
  BY DEF RequestFine, Idle
<1>11. \A u \in Given : /\ CodesOf(u)' \subseteq CodesOf(u) \/ MidVerify(u)
                        /\ Lives(u)' => Lives(u)
                        /\ Lives(u) /\ MidVerify(u) => Lives(u)' \/ Excused(u)
  BY <1>6
<1>12. /\ \A u \in users' : "uid" \in DOMAIN u /\ u.uid \in Given'
       /\ DOMAIN cache' = Workers
  BY <1>3, <1>4, <1>5 DEF OInv
<1>13. \A x \in issued' : TokenFine(x) \/ TokenFine(x)'
  BY <1>3, <1>8 DEF OInv
<1>14. \A v \in Workers : \A x \in cache'[v] : TokenFine(x) \/ TokenFine(x)'
  BY <1>3, <1>8 DEF OInv
<1>15. PICK q : q = Idle
  OBVIOUS
<1> QED
  BY <1>4, <1>5, <1>7, <1>9, <1>10, <1>11, <1>12, <1>13, <1>14, <1>15, Turn

\* A new account has a number that no token has.
LEMMA VerifyInsertOInv ==
    ASSUME AInv, AInv', OInv, NEW w \in Workers, VerifyInsert(w), ~HasAccount(req[w].row.email)
    PROVE  OInv'
<1>1. PICK r : r = [op |-> "verify", at |-> "claim", row |-> req[w].row, uid |-> lastUid + 1]
  OBVIOUS
<1>2. PICK x : x = [uid |-> lastUid + 1, email |-> req[w].row.email, pw |-> 0]
  OBVIOUS
<1>3. /\ lastUid' = lastUid + 1 /\ users' = users \cup {x} /\ req' = [req EXCEPT ![w] = r]
      /\ UNCHANGED <<wdcodes, issued, cache, cut, early>> /\ ~At(w, "unregister", "codes")
  BY <1>1, <1>2 DEF VerifyInsert, Continue, At
<1>4. /\ \A v \in Workers \ {w} : req'[v] = req[v]
      /\ lastUid \in Nat /\ lastUid <= lastUid' /\ Given' = Given \cup {r.uid} /\ r.uid \notin Given
  BY <1>1, <1>3 DEF AInv, Processes, Base, Given
<1>5. \A u \in Given : /\ CodesOf(u)' \subseteq CodesOf(u) \/ MidVerify(u)
                       /\ Lives(u)' => Lives(u)
                       /\ Lives(u) /\ MidVerify(u) => Lives(u)' \/ Excused(u)
  BY <1>1, <1>2, <1>3, <1>4 DEF CodesOf, OwnerOf, Lives
<1>6. RequestFine(r)'
  <2>1. Lives(r.uid)'
    BY <1>1, <1>2, <1>3 DEF Lives
  <2> QED
    BY <1>1, <1>4, <2>1 DEF RequestFine
<1>7. ASSUME NEW c \in DOMAIN wdcodes' PROVE Owned(c)'
  <2>1. Owned(c) /\ (Released(c) => Released(c)')
    BY <1>3, <1>4 DEF OInv, Released, At
  <2>2. \A u : (Lives(u) => Lives(u)') /\ (Excused(u) => Excused(u)')
    BY <1>3 DEF Lives, Excused
  <2> QED
    BY <1>3, <1>4, <2>1, <2>2 DEF Owned, OwnerFine, OwnerOf
<1>8. /\ \A u \in users' : "uid" \in DOMAIN u /\ u.uid \in Given'
      /\ DOMAIN cache' = Workers /\ \A t \in issued' : TokenFine(t)
      /\ \A v \in Workers : \A t \in cache'[v] : TokenFine(t)
  BY <1>1, <1>2, <1>3, <1>4 DEF OInv
<1>9. early \subseteq early' /\ cut \subseteq cut'
  BY <1>3
<1> QED
  BY <1>3, <1>4, <1>5, <1>6, <1>7, <1>8, <1>9, Turn

\* The code gets an owner whose account was there when it was created, and if
\* the account has gone since then, it had been given a token too early.
LEMMA VerifyClaimOInv ==
    ASSUME AInv, AInv', OInv, NEW w \in Workers, VerifyClaim(w)
    PROVE  OInv'
<1>1. PICK q : /\ q = req[w] /\ RequestFine(q) /\ q \in ClaimReq
               /\ q.uid \in Given /\ (Lives(q.uid) \/ Excused(q.uid)) /\ MidVerify(q.uid)
  BY Remembers DEF AInv, OInv, VerifyClaim, RequestFine, At, VerifyReq, MidVerify
<1>2. /\ req' = [req EXCEPT ![w] = Idle] /\ wdcodes' = [wdcodes EXCEPT ![q.row.code].uid = q.uid]
      /\ UNCHANGED <<users, lastUid, issued, cache, early, cut>> /\ ~At(w, "unregister", "codes")
  BY <1>1 DEF VerifyClaim, Answer, Continue, authHist, At
<1>3. /\ \A v \in Workers \ {w} : req'[v] = req[v]
      /\ lastUid \in Nat /\ lastUid <= lastUid' /\ Given' = Given
  BY <1>2 DEF AInv, Processes, Base, Given
<1>4. /\ DOMAIN wdcodes' = DOMAIN wdcodes
      /\ \A c \in DOMAIN wdcodes : OwnerOf(c)' = OwnerOf(c) \/ OwnerOf(c)' = q.uid
  BY <1>2 DEF OwnerOf, AInv, Base, CodeRow
<1>5. \A u \in Given : /\ CodesOf(u)' \subseteq CodesOf(u) \/ MidVerify(u)
                       /\ Lives(u)' => Lives(u)
                       /\ Lives(u) /\ MidVerify(u) => Lives(u)' \/ Excused(u)
  BY <1>1, <1>2, <1>4 DEF CodesOf, Lives
<1>6. ASSUME NEW c \in DOMAIN wdcodes' PROVE Owned(c)'
  <2>1. Owned(c) /\ (Released(c) => Released(c)')
    BY <1>2, <1>3, <1>4 DEF OInv, Released, At
  <2>2. \A u : (Lives(u) => Lives(u)') /\ (Excused(u) => Excused(u)')
    BY <1>2 DEF Lives, Excused
  <2>3. q.uid \in 0 .. lastUid
    BY <1>1, <1>3 DEF Given
  <2> QED
    BY <1>1, <1>2, <1>4, <2>1, <2>2, <2>3 DEF Owned, OwnerFine
<1>7. RequestFine(Idle)' /\ Idle.op = "idle"
  BY DEF RequestFine, Idle
<1>8. /\ \A u \in users' : "uid" \in DOMAIN u /\ u.uid \in Given'
      /\ DOMAIN cache' = Workers /\ \A t \in issued' : TokenFine(t)
      /\ \A v \in Workers : \A t \in cache'[v] : TokenFine(t)
  BY <1>2, <1>3 DEF OInv
<1>9. early \subseteq early' /\ cut \subseteq cut'
  BY <1>2
<1>10. PICK r : r = Idle
  OBVIOUS
<1> QED
  BY <1>2, <1>3, <1>5, <1>6, <1>7, <1>8, <1>9, <1>10, Turn

\* What the account had is named in the token, and so on the list.
LEMMA UnregisterDeleteOInv ==
    ASSUME AInv, AInv', OInv, NEW w \in Workers, UnregisterDelete(w)
    PROVE  OInv'
<1>1. PICK q : q = req[w] /\ RequestFine(q) /\ q.op = "unregister" /\ q.at = "users"
  BY DEF OInv, UnregisterDelete, At
<1>2. PICK t : t = q.token /\ t.code \in Emails /\ TokenFine(t) /\ t.id \in Given
  BY <1>1 DEF RequestFine, TokenFine
<1>3. PICK r : r = IF t.belongs = {} THEN Idle
                   ELSE [op |-> "unregister", at |-> "codes", token |-> t, left |-> t.belongs]
  OBVIOUS
<1>4. /\ req' = [req EXCEPT ![w] = r] /\ users' = {u \in users : u.uid # t.id}
      /\ UNCHANGED <<wdcodes, lastUid, issued, cache, early, cut>>
  BY <1>1, <1>2, <1>3 DEF UnregisterDelete, Answer, Continue, authHist
<1>5. /\ \A v \in Workers \ {w} : req'[v] = req[v] /\ req'[w] = r
      /\ lastUid \in Nat /\ lastUid <= lastUid' /\ Given' = Given
  BY <1>4 DEF AInv, Processes, Base, Given
<1>6. /\ \A u : (Lives(u)' => Lives(u)) /\ (Lives(u) /\ u # t.id => Lives(u)')
      /\ ~Lives(t.id)'
  BY <1>4 DEF Lives
<1>7. \A u \in Given : /\ CodesOf(u)' \subseteq CodesOf(u) \/ MidVerify(u)
                       /\ Lives(u)' => Lives(u)
                       /\ Lives(u) /\ MidVerify(u) => Lives(u)' \/ Excused(u)
  <2>1. \A u : CodesOf(u)' = CodesOf(u)
    BY <1>4 DEF CodesOf, OwnerOf
  <2>2. MidVerify(t.id) => Excused(t.id)
    BY <1>2 DEF TokenFine, Excused
  <2> QED
    BY <1>6, <2>1, <2>2
<1>8. ASSUME NEW c \in DOMAIN wdcodes' PROVE Owned(c)'
  <2>1. Owned(c) /\ c \in DOMAIN wdcodes
    BY <1>4 DEF OInv
  <2>2. Released(c) => Released(c)'
    BY <1>1, <1>5 DEF Released, At
  <2>3. ASSUME OwnerOf(c) = t.id PROVE Excused(t.id) \/ Released(c)'
    <3>1. Excused(t.id) \/ c \in t.belongs
      BY <1>2, <2>1, <2>3 DEF TokenFine, CodesOf
    <3>2. ASSUME c \in t.belongs PROVE Released(c)'
      <4>1. r.op = "unregister" /\ r.at = "codes" /\ r.left = t.belongs
        BY <1>3, <3>2
      <4> QED
        BY <1>4, <3>2, <4>1 DEF Released, At, AInv, Processes
    <3> QED
      BY <3>1, <3>2
  <2>4. \A u : Excused(u) => Excused(u)'
    BY <1>4 DEF Excused
  <2> QED
    BY <1>4, <1>6, <2>1, <2>2, <2>3, <2>4 DEF Owned, OwnerFine, OwnerOf
<1>9. (\A x : TokenFine(x) => TokenFine(x)') => RequestFine(r)'
  <2>1. CASE r = Idle
    BY <2>1 DEF RequestFine, Idle
  <2>2. CASE r = [op |-> "unregister", at |-> "codes", token |-> t, left |-> t.belongs]
    <3>1. /\ {"op", "at", "token"} \subseteq DOMAIN r /\ "left" \in DOMAIN r
          /\ r.op = "unregister" /\ r.token = t
      BY <2>2
    <3> QED
      BY <1>2, <1>6, <3>1 DEF RequestFine
  <2> QED
    BY <1>3, <2>1, <2>2
<1>10. /\ \A u \in users' : "uid" \in DOMAIN u /\ u.uid \in Given'
       /\ DOMAIN cache' = Workers /\ \A x \in issued' : TokenFine(x)
       /\ \A v \in Workers : \A x \in cache'[v] : TokenFine(x)
  BY <1>4, <1>5 DEF OInv
<1>11. early \subseteq early' /\ cut \subseteq cut' /\ r.op # "verify"
  BY <1>3, <1>4 DEF Idle
<1> QED
  BY <1>4, <1>5, <1>7, <1>8, <1>9, <1>10, <1>11, Turn

\* A code that was released has no owner, the others on the list stay on it.
LEMMA UnregisterCodeOInv ==
    ASSUME AInv, AInv', OInv, NEW w \in Workers, NEW d \in Codes, UnregisterCode(w, d)
    PROVE  OInv'
<1>1. PICK q : /\ q = req[w] /\ RequestFine(q) /\ q.op = "unregister" /\ q.at = "codes"
               /\ "left" \in DOMAIN q
  BY DEF OInv, UnregisterCode, At, RequestFine
<1>2. PICK r : r = IF q.left = {d} THEN Idle ELSE [q EXCEPT !.left = @ \ {d}]
  OBVIOUS
<1>3. /\ req' = [req EXCEPT ![w] = r]
      /\ wdcodes' = [wdcodes EXCEPT ![d] = [uid |-> Unclaimed, secret |-> Unset]]
      /\ UNCHANGED <<users, lastUid, issued, cache, early, cut>>
  BY <1>1, <1>2 DEF UnregisterCode, Answer, Continue
<1>4. /\ \A v \in Workers \ {w} : req'[v] = req[v]
      /\ lastUid \in Nat /\ lastUid <= lastUid' /\ Given' = Given /\ req'[w] = r
  BY <1>3 DEF AInv, Processes, Base, Given
<1>5. /\ DOMAIN wdcodes' = DOMAIN wdcodes
      /\ \A c \in DOMAIN wdcodes : OwnerOf(c)' = IF c = d THEN Unclaimed ELSE OwnerOf(c)
  BY <1>3 DEF OwnerOf
<1>6. \A u \in Given : /\ CodesOf(u)' \subseteq CodesOf(u) \/ MidVerify(u)
                       /\ Lives(u)' => Lives(u)
                       /\ Lives(u) /\ MidVerify(u) => Lives(u)' \/ Excused(u)
  BY <1>3, <1>4, <1>5 DEF CodesOf, Lives, Given, Unclaimed
<1>7. r = Idle \/ (/\ DOMAIN r = DOMAIN q /\ r.op = q.op /\ r.at = q.at /\ r.token = q.token
                   /\ r.left = q.left \ {d})
  <2>1. {"op", "at", "token", "left"} \subseteq DOMAIN q
    BY <1>1 DEF RequestFine
  <2> QED
    BY <1>2, <2>1
<1>8. ASSUME NEW c \in DOMAIN wdcodes' PROVE Owned(c)'
  <2>1. CASE c = d
    BY <1>3, <1>4, <1>5, <2>1 DEF Owned, OwnerFine, Unclaimed
  <2>2. CASE c # d
    <3>1. Owned(c) /\ OwnerOf(c)' = OwnerOf(c)
      BY <1>5, <2>2 DEF OInv
    <3>2. ASSUME Released(c) PROVE Released(c)'
      <4>1. PICK v \in Workers : At(v, "unregister", "codes") /\ c \in req[v].left
        BY <3>2 DEF Released
      <4>2. CASE v # w
        BY <1>4, <4>1, <4>2 DEF Released, At
      <4>3. CASE v = w
        <5>1. c \in q.left \ {d} /\ r # Idle
          BY <1>1, <1>2, <1>7, <2>2, <4>1, <4>3 DEF Idle
        <5> QED
          BY <1>1, <1>4, <1>7, <5>1 DEF Released, At
      <4> QED
        BY <4>2, <4>3
    <3>3. \A u : (Lives(u) => Lives(u)') /\ (Excused(u) => Excused(u)')
      BY <1>3 DEF Lives, Excused
    <3> QED
      BY <1>3, <3>1, <3>2, <3>3 DEF Owned, OwnerFine
  <2> QED
    BY <2>1, <2>2
<1>9. (\A x : TokenFine(x) => TokenFine(x)') => RequestFine(r)'
  <2>1. CASE r = Idle
    BY <2>1 DEF RequestFine, Idle
  <2>2. CASE r # Idle
    <3>1. ~Lives(q.token.id)'
      BY <1>1, <1>3 DEF RequestFine, Lives
    <3> QED
      BY <1>1, <1>7, <2>2, <3>1 DEF RequestFine
  <2> QED
    BY <2>1, <2>2
<1>10. /\ \A u \in users' : "uid" \in DOMAIN u /\ u.uid \in Given'
       /\ DOMAIN cache' = Workers /\ \A x \in issued' : TokenFine(x)
       /\ \A v \in Workers : \A x \in cache'[v] : TokenFine(x)
  BY <1>3, <1>4 DEF OInv
<1>11. early \subseteq early' /\ cut \subseteq cut' /\ r.op # "verify"
  BY <1>1, <1>3, <1>7 DEF Idle
<1> QED
  BY <1>3, <1>4, <1>6, <1>8, <1>9, <1>10, <1>11, Turn

\* A crash excuses the owners of what was left on the list.
LEMMA CrashOInv ==
    ASSUME AInv, AInv', OInv, NEW w \in Workers, AuthCrash(w)
    PROVE  OInv'
<1>1. /\ req' = [req EXCEPT ![w] = Idle] /\ cache' = [cache EXCEPT ![w] = {}]
      /\ cut \subseteq cut' /\ UNCHANGED <<users, wdcodes, lastUid, issued, early>>
  BY DEF AuthCrash, Answer, Continue, authDb
<1>2. /\ \A v \in Workers \ {w} : req'[v] = req[v]
      /\ lastUid \in Nat /\ lastUid <= lastUid' /\ Given' = Given /\ early \subseteq early'
  BY <1>1 DEF AInv, Processes, Base, Given
<1>3. \A u \in Given : /\ CodesOf(u)' \subseteq CodesOf(u) \/ MidVerify(u)
                       /\ Lives(u)' => Lives(u)
                       /\ Lives(u) /\ MidVerify(u) => Lives(u)' \/ Excused(u)
  BY <1>1 DEF CodesOf, OwnerOf, Lives
<1>4. ASSUME NEW c \in DOMAIN wdcodes' PROVE Owned(c)'
  <2>1. Owned(c) /\ OwnerOf(c) \in Uids \cup {Unclaimed}
    BY <1>1 DEF OInv, AInv, Base, CodeRow, OwnerOf
  <2>2. ASSUME Released(c), OwnerOf(c) # Unclaimed PROVE Released(c)' \/ OwnerOf(c) \in cut'
    <3>1. PICK v \in Workers : At(v, "unregister", "codes") /\ c \in req[v].left
      BY <2>2 DEF Released
    <3>2. CASE v # w
      BY <1>2, <3>1, <3>2 DEF Released, At
    <3>3. CASE v = w
      BY <2>1, <2>2, <3>1, <3>3 DEF AuthCrash
    <3> QED
      BY <3>2, <3>3
  <2>3. \A u : (Lives(u) => Lives(u)') /\ (Excused(u) => Excused(u)') /\ (u \in cut' => Excused(u)')
    BY <1>1 DEF Lives, Excused
  <2> QED
    BY <1>1, <2>1, <2>2, <2>3 DEF Owned, OwnerFine, OwnerOf
<1>5. RequestFine(Idle)' /\ Idle.op = "idle"
  BY DEF RequestFine, Idle
<1>6. /\ \A u \in users' : "uid" \in DOMAIN u /\ u.uid \in Given'
      /\ DOMAIN cache' = Workers /\ \A t \in issued' : TokenFine(t)
      /\ \A v \in Workers : \A t \in cache'[v] : TokenFine(t)
  BY <1>1, <1>2 DEF OInv
<1>7. PICK r : r = Idle
  OBVIOUS
<1> QED
  BY <1>1, <1>2, <1>3, <1>4, <1>5, <1>6, <1>7, Turn

LEMMA AddCodeOInv == ASSUME AInv, OInv, NEW c \in Codes, AddCode(c) PROVE OInv'
<1>1. /\ c \notin DOMAIN wdcodes /\ DOMAIN wdcodes' = DOMAIN wdcodes \cup {c}
      /\ OwnerOf(c)' = Unclaimed /\ \A d \in DOMAIN wdcodes : OwnerOf(d)' = OwnerOf(d)
      /\ UNCHANGED <<req, users, lastUid, issued, cache, early, cut>>
  BY DEF AddCode, OwnerOf, serviceVars, authHist
<1>2. \A u : (MidVerify(u)' <=> MidVerify(u)) /\ (Lives(u)' <=> Lives(u)) /\ (Excused(u)' <=> Excused(u))
  BY <1>1 DEF MidVerify, At, Lives, Excused
<1>3. Given' = Given /\ lastUid \in Nat
  BY <1>1 DEF Given, AInv, Base
<1>4. \A u \in Given : CodesOf(u)' = CodesOf(u)
  BY <1>1 DEF CodesOf, Given, Unclaimed
<1>5. \A t : TokenFine(t) => TokenFine(t)'
  BY <1>1, <1>2, <1>3, <1>4 DEF TokenFine
<1>6. \A r : RequestFine(r) => RequestFine(r)'
  BY <1>2, <1>3, <1>5 DEF RequestFine
<1>7. ASSUME NEW d \in DOMAIN wdcodes' PROVE Owned(d)'
  <2>1. Released(d)' <=> Released(d)
    BY <1>1 DEF Released, At
  <2> QED
    BY <1>1, <1>2, <1>3, <2>1 DEF OInv, Owned, OwnerFine, Unclaimed
<1> QED
  BY <1>1, <1>3, <1>5, <1>6, <1>7 DEF OInv

LEMMA InitOInv == AuthInit => OInv
<1> SUFFICES ASSUME AuthInit PROVE OInv
  OBVIOUS
<1>1. \A w \in Workers : req[w] = Idle
  BY DEF AuthInit, ServiceInit
<1>2. RequestFine(Idle)
  BY DEF RequestFine, Idle
<1>3. \A w \in Workers : \A r : r = req[w] => RequestFine(r)
  BY <1>1, <1>2
<1> QED
  BY <1>3 DEF AuthInit, OInv

LEMMA NextOInv == AInv /\ AInv' /\ OInv /\ [AuthNext]_authVars => OInv'
<1> SUFFICES ASSUME AInv, AInv', OInv, [AuthNext]_authVars PROVE OInv'
  OBVIOUS
<1>1. CASE UNCHANGED authVars
  BY <1>1, NoneOfIt DEF authVars, authDb, authHist, serviceVars
<1>2. ASSUME NEW t \in issued, TokenExpires(t) PROVE OInv'
  <2>1. UNCHANGED <<req, users, wdcodes, lastUid, cache, early, cut>> /\ issued' \subseteq issued
    BY <1>2 DEF TokenExpires, authDb, authHist, serviceVars
  <2> QED
    BY <2>1, FewerTokens
<1>3. ASSUME NEW r \in pending, TenMinutes(r) PROVE OInv'
  BY <1>3, NoneOfIt DEF TenMinutes, authHist, serviceVars
<1>4. ASSUME NEW w \in Workers,
             \/ \E e \in Emails, c \in Codes : Register(w, e, c)
             \/ RegisterCode(w) \/ RegisterPending(w) \/ RegisterInsert(w)
             \/ \E r \in pending : Verify(w, r)
             \/ VerifyDelete(w) \/ VerifyInsert(w) \/ VerifyClaim(w)
             \/ \E e \in Emails : Forgot(w, e)
             \/ ForgotPending(w) \/ ForgotInsert(w)
             \/ \E r \in pending : Reset(w, r)
             \/ ResetUpdate(w)
      PROVE  OInv'
  BY <1>4, PassingOInv, VerifyInsertOInv, VerifyClaimOInv
<1>5. ASSUME NEW w \in Workers,
             \/ \E b \in bodies, accepted \in BOOLEAN : ResetBody(w, b, accepted)
             \/ \E u \in users : Login(w, u)
             \/ \E t \in issued : RequestToken(w, t) \/ Unregister(w, t)
             \/ \E c \in Codes, s \in Secrets : AuthenticateWatchdog(w, c, s)
             \/ StoreSecret(w) \/ GenerateToken(w)
             \/ UnregisterPending(w) \/ UnregisterDelete(w)
             \/ \E c \in Codes : UnregisterCode(w, c)
             \/ AuthCrash(w)
      PROVE  OInv'
  BY <1>5, AskingOInv, StoreSecretOInv, GenerateTokenOInv, UnregisterDeleteOInv, UnregisterCodeOInv,
     CrashOInv
<1> QED
  BY <1>1, <1>2, <1>3, <1>4, <1>5, AddCodeOInv DEF AuthNext

-----------------------------------------------------------------------------
(* And for one process: who was verified for a code has it.                *)

HasHis(u) == claims[u] \in CodesOf(u) \/ MidVerify(u) \/ u \in robbed \cup cut

\* From the link to the account the code is free and is the one on record.
Verified ==
    /\ \A w \in Workers : \A r : r = req[w] /\ r.op = "verify" =>
         CodeFree(r.row.code) /\ (r.at = "claim" => claims[r.uid] = r.row.code)
    /\ \A u : Lives(u) => HasHis(u)

VInv == DOMAIN claims = Uids /\ lastUid <= MaxUid /\ (Sequential => Verified)

\* The one process goes on with r, and nobody's code was touched.
LEMMA Meanwhile ==
    ASSUME AInv, VInv, NEW w \in alive, NEW r, req' = [req EXCEPT ![w] = r],
           UNCHANGED <<alive, claims, lastUid>>, ~At(w, "verify", "claim"),
           \A u : CodesOf(u)' = CodesOf(u) /\ (Lives(u)' => Lives(u)),
           robbed \subseteq robbed', cut \subseteq cut',
           Sequential /\ r.op = "verify" => r.at # "claim" /\ CodeFree(r.row.code)'
    PROVE  VInv'
<1>1. /\ req'[w] = r /\ w \in Workers
      /\ \A v \in Workers \ {w} : req'[v] = req[v]
  BY DEF AInv, Processes
<1>2. ASSUME Sequential PROVE Verified'
  <2>1. \A v \in Workers \ {w} : req'[v] = Idle
    BY <1>1, <1>2, OthersIdle DEF AInv
  <2>2. \A v \in Workers : \A q : q = req'[v] /\ q.op = "verify" =>
           CodeFree(q.row.code)' /\ (q.at = "claim" => claims'[q.uid] = q.row.code)
    BY <1>1, <1>2, <2>1 DEF Idle
  <2>3. \A u : MidVerify(u) => MidVerify(u)'
    BY <1>1 DEF MidVerify, At
  <2>4. \A u : Lives(u)' => HasHis(u)'
    BY <1>2, <2>3 DEF VInv, Verified, HasHis
  <2> QED
    BY <2>2, <2>4 DEF Verified
<1> QED
  BY <1>2 DEF VInv, Sequential

\* Nothing that this is about changes; perhaps a new code is added.
LEMMA NobodyMoves ==
    ASSUME AInv, OInv, VInv, UNCHANGED <<alive, req, users, claims, lastUid, robbed, cut>>,
           UNCHANGED wdcodes \/ \E c \in Codes : AddCode(c)
    PROVE  VInv'
<1>1. \A u : (MidVerify(u)' <=> MidVerify(u)) /\ (Lives(u)' <=> Lives(u))
  BY DEF MidVerify, At, Lives
<1>2. \A c : CodeFree(c) => CodeFree(c)'
  BY DEF CodeFree, OwnerOf, AddCode
<1>3. \A u \in Given : CodesOf(u)' = CodesOf(u)
  <2>1. \A u \in Given : u # Unclaimed
    BY DEF Given, Unclaimed, AInv, Base
  <2>2. CASE UNCHANGED wdcodes
    BY <2>2 DEF CodesOf, OwnerOf
  <2>3. ASSUME NEW c \in Codes, AddCode(c) PROVE \A u \in Given : CodesOf(u)' = CodesOf(u)
    <3>1. /\ DOMAIN wdcodes' = DOMAIN wdcodes \cup {c} /\ OwnerOf(c)' = Unclaimed
          /\ \A d \in DOMAIN wdcodes : OwnerOf(d)' = OwnerOf(d)
      BY <2>3 DEF AddCode, OwnerOf
    <3> QED
      BY <2>1, <3>1 DEF CodesOf
  <2> QED
    BY <2>2, <2>3
<1>4. \A u : Lives(u) => u \in Given
  BY DEF Lives, OInv
<1>5. Verified => Verified'
  BY <1>1, <1>2, <1>3, <1>4 DEF Verified, HasHis
<1> QED
  BY <1>5 DEF VInv, Sequential

LEMMA MeanwhileVInv ==
    ASSUME AInv, AInv', OInv, VInv, NEW w \in Workers,
           \/ \E e \in Emails, c \in Codes : Register(w, e, c)
           \/ RegisterCode(w) \/ RegisterPending(w) \/ RegisterInsert(w)
           \/ \E r \in pending : Verify(w, r)
           \/ VerifyDelete(w) \/ (VerifyInsert(w) /\ HasAccount(req[w].row.email))
           \/ \E e \in Emails : Forgot(w, e)
           \/ ForgotPending(w) \/ ForgotInsert(w)
           \/ \E r \in pending : Reset(w, r)
           \/ ResetUpdate(w)
    PROVE  VInv'
<1> DEFINE Calm(r) == r.op = "verify" => r.at # "claim" /\ CodeFree(r.row.code)'
<1>1. ASSUME NEW r, Sequential => Calm(r), req' = [req EXCEPT ![w] = r], w \in alive,
             ~At(w, "verify", "claim"),
             UNCHANGED <<alive, wdcodes, lastUid, claims, robbed, cut>>,
             UNCHANGED users \/ ResetUpdate(w)
      PROVE  VInv'
  <2>1. \A u : Lives(u)' => Lives(u)
    BY <1>1 DEF Lives, ResetUpdate, OInv
  <2>2. \A u : CodesOf(u)' = CodesOf(u)
    BY <1>1 DEF CodesOf, OwnerOf
  <2> QED
    BY <1>1, <2>1, <2>2, Meanwhile
<1>2. Calm(Idle) /\ (Free(w) => ~At(w, "verify", "claim") /\ w \in alive)
  BY DEF Idle, Free, At
<1> HIDE DEF Calm
<1>3. ASSUME NEW e \in Emails, NEW c \in Codes, Register(w, e, c) PROVE VInv'
  <2>1. PICK r : r = [op |-> "register", at |-> "code", email |-> e, code |-> c]
    OBVIOUS
  <2>2. Calm(r)
    BY <2>1 DEF Calm
  <2> QED
    BY <1>1, <1>2, <1>3, <2>1, <2>2 DEF Register, Receive, authDb, authHist
<1>4. ASSUME NEW s \in pending, Verify(w, s) PROVE VInv'
  <2>1. PICK r : r = [op |-> "verify", at |-> "delete", row |-> s]
    OBVIOUS
  <2>2. Sequential => CodeFree(s.code)'
    BY <1>4 DEF Verify, AInv, Alone, Claims, Fresh, CodeFree, OwnerOf, authDb
  <2>3. Sequential => Calm(r)
    BY <2>1, <2>2 DEF Calm
  <2> QED
    BY <1>1, <1>2, <1>4, <2>1, <2>3 DEF Verify, Receive, authDb, authHist
<1>5. ASSUME NEW e \in Emails, Forgot(w, e) PROVE VInv'
  <2>1. PICK r : r = [op |-> "forgot", at |-> "pending", email |-> e]
    OBVIOUS
  <2>2. Calm(r)
    BY <2>1 DEF Calm
  <2> QED
    BY <1>1, <1>2, <1>5, <2>1, <2>2 DEF Forgot, Receive, authDb, authHist
<1>6. ASSUME NEW s \in pending, Reset(w, s) PROVE VInv'
  BY <1>1, <1>2, <1>6 DEF Reset, Receive, Free, authDb, authHist
<1>7. ASSUME \/ RegisterCode(w) \/ RegisterPending(w) \/ RegisterInsert(w) \/ VerifyDelete(w)
             \/ (VerifyInsert(w) /\ HasAccount(req[w].row.email)) \/ ForgotPending(w) \/ ForgotInsert(w)
             \/ ResetUpdate(w)
      PROVE  VInv'
  <2>1. ~At(w, "verify", "claim") /\ w \in alive
    BY <1>7, AtIsAlive DEF AInv, RegisterCode, RegisterPending, RegisterInsert, VerifyDelete, VerifyInsert,
                           ForgotPending, ForgotInsert, ResetUpdate, At
  <2>2. /\ UNCHANGED <<alive, wdcodes, lastUid, claims, robbed, cut>>
        /\ UNCHANGED users \/ ResetUpdate(w)
    BY <1>7 DEF RegisterCode, RegisterPending, RegisterInsert, VerifyDelete, VerifyInsert,
                ForgotPending, ForgotInsert, ResetUpdate, InsertPending, authDb, authHist,
                Answer, Goto, Continue
  <2>3. PICK r : (Sequential => Calm(r)) /\ req' = [req EXCEPT ![w] = r]
    <3>1. CASE req' = [req EXCEPT ![w] = Idle]
      BY <1>2, <3>1
    <3>2. CASE RegisterCode(w) \/ RegisterPending(w) \/ ForgotPending(w)
      <4> DEFINE Next(at) == [req[w] EXCEPT !.at = at]
      <4>1. req[w] \in RegisterReq \cup ForgotReq
        BY <3>2, Remembers DEF AInv, RegisterCode, RegisterPending, ForgotPending, At
      <4>2. Calm(Next("pending")) /\ Calm(Next("insert"))
        BY <4>1 DEF RegisterReq, ForgotReq, Calm
      <4>3. req' \in {[req EXCEPT ![w] = Idle], [req EXCEPT ![w] = Next("pending")],
                      [req EXCEPT ![w] = Next("insert")]}
        BY <3>2 DEF RegisterCode, RegisterPending, ForgotPending, Answer, Goto, Continue
      <4> HIDE DEF Next
      <4> QED
        BY <1>2, <4>2, <4>3
    <3>3. CASE VerifyDelete(w)
      <4>1. PICK q : q = req[w] /\ q \in VerifyReq
        BY <3>3, Remembers DEF AInv, VerifyDelete, At, ClaimReq
      <4>2. PICK r : r = [q EXCEPT !.at = "insert"]
        OBVIOUS
      <4>3. r.op = "verify" /\ r.at = "insert" /\ r.row = q.row /\ q.op = "verify"
        BY <4>1, <4>2 DEF VerifyReq
      <4>4. Sequential => CodeFree(q.row.code)
        BY <4>1, <4>3 DEF VInv, Verified
      <4>5. Sequential => Calm(r)
        BY <2>2, <4>3, <4>4 DEF Calm, CodeFree, OwnerOf
      <4> QED
        BY <3>3, <4>1, <4>2, <4>5 DEF VerifyDelete, Goto, Continue
    <3>4. CASE VerifyInsert(w) /\ HasAccount(req[w].row.email)
      BY <3>1, <3>4 DEF VerifyInsert, Answer, Continue
    <3> QED
      BY <1>7, <3>1, <3>2, <3>3, <3>4 DEF RegisterInsert, ForgotInsert, ResetUpdate, Answer, Continue
  <2> QED
    BY <1>1, <2>1, <2>2, <2>3
<1> QED
  BY <1>3, <1>4, <1>5, <1>6, <1>7

LEMMA AskingVInv ==
    ASSUME AInv, AInv', OInv, VInv, NEW w \in Workers,
           \/ \E u \in users : Login(w, u)
           \/ \E t \in issued : RequestToken(w, t) \/ Unregister(w, t)
           \/ \E c \in Codes, s \in Secrets : AuthenticateWatchdog(w, c, s)
           \/ StoreSecret(w) \/ GenerateToken(w)
           \/ UnregisterPending(w) \/ UnregisterDelete(w)
           \/ \E b \in bodies, accepted \in BOOLEAN : ResetBody(w, b, accepted)
    PROVE  VInv'
<1>1. ASSUME NEW r, r.op # "verify", req' = [req EXCEPT ![w] = r], w \in alive,
             ~At(w, "verify", "claim"), \A u : CodesOf(u)' = CodesOf(u), users' \subseteq users,
             UNCHANGED <<alive, lastUid, claims, robbed, cut>>
      PROVE  VInv'
  <2>1. \A u : Lives(u)' => Lives(u)
    BY <1>1 DEF Lives
  <2> QED
    BY <1>1, <2>1, Meanwhile
<1>2. UNCHANGED wdcodes => \A u : CodesOf(u)' = CodesOf(u)
  BY DEF CodesOf, OwnerOf
<1>3. Idle.op # "verify" /\ (Free(w) => ~At(w, "verify", "claim") /\ w \in alive)
  BY DEF Idle, Free, At
<1>4. ASSUME NEW u \in users, Login(w, u) PROVE VInv'
  <2>1. PICK r : r = [op |-> "token", code |-> u.email, id |-> u.uid, perm |-> "user"]
    OBVIOUS
  <2> QED
    BY <1>1, <1>2, <1>3, <1>4, <2>1 DEF Login, Receive, authDb, authHist
<1>5. ASSUME NEW t \in issued, RequestToken(w, t) PROVE VInv'
  <2>1. PICK r : r = [op |-> "token", code |-> t.code, id |-> t.id, perm |-> "none"]
    OBVIOUS
  <2> QED
    BY <1>1, <1>2, <1>3, <1>5, <2>1 DEF RequestToken, Receive, authDb, authHist
<1>6. ASSUME NEW t \in issued, Unregister(w, t) PROVE VInv'
  <2>1. PICK r : r = [op |-> "unregister", at |-> "pending", token |-> t]
    OBVIOUS
  <2> QED
    BY <1>1, <1>2, <1>3, <1>6, <2>1 DEF Unregister, Receive, authDb, authHist
<1>7. ASSUME NEW c \in Codes, NEW s \in Secrets, AuthenticateWatchdog(w, c, s) PROVE VInv'
  <2>1. PICK q : q = [op |-> "secret", code |-> c, uid |-> OwnerOf(c), secret |-> s]
    OBVIOUS
  <2>2. PICK t : t = [op |-> "token", code |-> c, id |-> OwnerOf(c), perm |-> "none"]
    OBVIOUS
  <2>3. q.op # "verify" /\ t.op # "verify"
    BY <2>1, <2>2
  <2>4. PICK r : r.op # "verify" /\ req' = [req EXCEPT ![w] = r]
    BY <1>7, <2>1, <2>2, <2>3 DEF AuthenticateWatchdog, Receive
  <2> QED
    BY <1>1, <1>2, <1>3, <1>7, <2>4 DEF AuthenticateWatchdog, Receive, authDb, authHist
<1>8. CASE StoreSecret(w)
  <2>1. PICK q : q = req[w] /\ q.op = "secret"
    BY <1>8 DEF StoreSecret
  <2>2. PICK r : r = [op |-> "token", code |-> q.code, id |-> q.uid, perm |-> "none"]
    OBVIOUS
  <2>3. /\ req' = [req EXCEPT ![w] = r] /\ wdcodes' = [wdcodes EXCEPT ![q.code].secret = q.secret]
        /\ UNCHANGED <<alive, users, lastUid, claims, robbed, cut>>
    BY <1>8, <2>1, <2>2 DEF StoreSecret, Continue, authHist
  <2>4. DOMAIN wdcodes' = DOMAIN wdcodes /\ \A c \in DOMAIN wdcodes : OwnerOf(c)' = OwnerOf(c)
    BY <2>3 DEF OwnerOf, AInv, Base, CodeRow
  <2>5. \A u : CodesOf(u)' = CodesOf(u)
    BY <2>4 DEF CodesOf
  <2>6. w \in alive /\ ~At(w, "verify", "claim")
    BY <2>1 DEF AInv, Processes, Idle, At
  <2> QED
    BY <1>1, <2>2, <2>3, <2>5, <2>6
<1>9. CASE GenerateToken(w)
  <2>1. w \in alive /\ ~At(w, "verify", "claim")
    BY <1>9 DEF GenerateToken, AInv, Processes, Idle, At
  <2>2. req' = [req EXCEPT ![w] = Idle] /\ UNCHANGED <<alive, users, wdcodes, lastUid, claims, robbed, cut>>
    BY <1>9 DEF GenerateToken, Answer, Continue, authDb
  <2> QED
    BY <1>1, <1>2, <1>3, <2>1, <2>2
<1>10. CASE UnregisterPending(w) \/ UnregisterDelete(w)
  <2>1. PICK q : q = req[w] /\ RequestFine(q) /\ q.op = "unregister"
    BY <1>10 DEF OInv, UnregisterPending, UnregisterDelete, At
  <2>2. PICK a : a = [q EXCEPT !.at = "users"]
    OBVIOUS
  <2>3. PICK b : b = [op |-> "unregister", at |-> "codes", token |-> q.token, left |-> q.token.belongs]
    OBVIOUS
  <2>4. a.op # "verify" /\ b.op # "verify"
    BY <2>1, <2>2, <2>3 DEF RequestFine
  <2>5. PICK r : r.op # "verify" /\ req' = [req EXCEPT ![w] = r]
    BY <1>3, <1>10, <2>1, <2>2, <2>3, <2>4 DEF UnregisterPending, UnregisterDelete, Answer, Goto, Continue
  <2>6. w \in alive /\ ~At(w, "verify", "claim")
    BY <1>10, <2>1, AtIsAlive DEF AInv, UnregisterPending, UnregisterDelete, At
  <2>7. /\ UNCHANGED <<alive, wdcodes, lastUid, claims, robbed, cut>> /\ users' \subseteq users
    BY <1>10 DEF UnregisterPending, UnregisterDelete, Answer, Goto, Continue, authHist
  <2> QED
    BY <1>1, <1>2, <2>5, <2>6, <2>7
<1>11. ASSUME NEW b \in bodies, NEW accepted \in BOOLEAN, ResetBody(w, b, accepted) PROVE VInv'
  <2>1. PICK r : r = [op |-> "reset", at |-> "update", email |-> b.email, link |-> b.link]
    OBVIOUS
  <2>2. CASE accepted
    BY <1>1, <1>2, <1>3, <1>11, <2>1, <2>2 DEF ResetBody, Continue, authHist
  <2>3. CASE ~accepted
    BY <1>11, <2>3, NobodyMoves DEF ResetBody, serviceVars, authHist
  <2> QED
    BY <2>2, <2>3
<1> QED
  BY <1>4, <1>5, <1>6, <1>7, <1>8, <1>9, <1>10, <1>11

\* Process w goes on with r; what others do they still do.
LEMMA TurnOfOne ==
    ASSUME AInv, VInv, NEW w \in alive, NEW r, req' = [req EXCEPT ![w] = r], UNCHANGED alive,
           Sequential => \A u : Lives(u)' => HasHis(u)',
           Sequential /\ r.op = "verify" =>
             CodeFree(r.row.code)' /\ (r.at = "claim" => claims'[r.uid] = r.row.code),
           DOMAIN claims' = Uids, lastUid' <= MaxUid
    PROVE  VInv'
<1>1. req'[w] = r /\ w \in Workers /\ \A v \in Workers \ {w} : req'[v] = req[v]
  BY DEF AInv, Processes
<1>2. ASSUME Sequential PROVE Verified'
  <2>1. \A v \in Workers \ {w} : req'[v] = Idle
    BY <1>1, <1>2, OthersIdle DEF AInv
  <2>2. \A v \in Workers : \A q : q = req'[v] /\ q.op = "verify" =>
           CodeFree(q.row.code)' /\ (q.at = "claim" => claims'[q.uid] = q.row.code)
    BY <1>1, <1>2, <2>1 DEF Idle
  <2> QED
    BY <1>2, <2>2 DEF Verified
<1> QED
  BY <1>2 DEF VInv, Sequential

\* Who is being verified has the code on record, and nobody else had it.
LEMMA VerifyInsertVInv ==
    ASSUME AInv, OInv, VInv, NEW w \in Workers, VerifyInsert(w), ~HasAccount(req[w].row.email)
    PROVE  VInv'
<1>1. PICK q : q = req[w] /\ q.op = "verify" /\ q.at = "insert" /\ w \in alive
  BY AtIsAlive DEF AInv, VerifyInsert, At
<1>2. PICK r : r = [op |-> "verify", at |-> "claim", row |-> q.row, uid |-> lastUid + 1]
  OBVIOUS
<1>3. PICK x : x = [uid |-> lastUid + 1, email |-> q.row.email, pw |-> 0]
  OBVIOUS
<1>4. /\ lastUid < MaxUid /\ lastUid' = lastUid + 1 /\ users' = users \cup {x}
      /\ req' = [req EXCEPT ![w] = r] /\ claims' = [claims EXCEPT ![lastUid + 1] = q.row.code]
      /\ UNCHANGED <<alive, wdcodes, robbed, cut>>
  BY <1>1, <1>2, <1>3 DEF VerifyInsert, Continue
<1>5. /\ lastUid \in Nat /\ lastUid' <= MaxUid /\ lastUid + 1 \in Uids /\ DOMAIN claims' = Uids
      /\ claims'[lastUid + 1] = q.row.code /\ \A u \in Given : u # lastUid + 1 /\ claims'[u] = claims[u]
  BY <1>4, AuthAssumption DEF AInv, Base, VInv, Given, Uids
<1>6. /\ req'[w] = r /\ \A v \in Workers \ {w} : req'[v] = req[v]
  BY <1>4 DEF AInv, Processes
<1>7. ASSUME Sequential, NEW u, Lives(u)' PROVE HasHis(u)'
  <2>1. CASE u = lastUid + 1
    BY <1>2, <1>6, <2>1 DEF HasHis, MidVerify, At
  <2>2. CASE u # lastUid + 1
    <3>1. Lives(u) /\ u \in Given
      BY <1>3, <1>4, <1>7, <2>2 DEF Lives, OInv
    <3>2. HasHis(u)
      BY <1>7, <3>1 DEF VInv, Verified
    <3>3. (MidVerify(u) => MidVerify(u)') /\ CodesOf(u)' = CodesOf(u)
      BY <1>1, <1>4, <1>6 DEF MidVerify, At, CodesOf, OwnerOf
    <3> QED
      BY <1>4, <1>5, <3>1, <3>2, <3>3 DEF HasHis
  <2> QED
    BY <2>1, <2>2
<1>8. ASSUME Sequential PROVE CodeFree(q.row.code)'
  BY <1>1, <1>4, <1>8 DEF VInv, Verified, CodeFree, OwnerOf
<1> QED
  BY <1>1, <1>2, <1>4, <1>5, <1>7, <1>8, TurnOfOne

LEMMA VerifyClaimVInv ==
    ASSUME AInv, OInv, VInv, NEW w \in Workers, VerifyClaim(w)
    PROVE  VInv'
<1>1. PICK q : q = req[w] /\ q.op = "verify" /\ q.at = "claim" /\ q \in ClaimReq /\ w \in alive
  BY Remembers, AtIsAlive DEF AInv, VerifyClaim, At, VerifyReq
<1>2. /\ req' = [req EXCEPT ![w] = Idle] /\ wdcodes' = [wdcodes EXCEPT ![q.row.code].uid = q.uid]
      /\ UNCHANGED <<alive, users, lastUid, claims, robbed, cut>>
  BY <1>1 DEF VerifyClaim, Answer, Continue, authHist
<1>3. \A v \in Workers \ {w} : req'[v] = req[v]
  BY <1>2 DEF AInv, Processes
<1>4. /\ DOMAIN wdcodes' = DOMAIN wdcodes
      /\ \A c \in DOMAIN wdcodes : OwnerOf(c)' = IF c = q.row.code THEN q.uid ELSE OwnerOf(c)
  BY <1>2 DEF OwnerOf, AInv, Base, CodeRow
<1>5. ASSUME Sequential, NEW u, Lives(u)' PROVE HasHis(u)'
  <2>1. /\ q.row.code \in DOMAIN wdcodes /\ OwnerOf(q.row.code) = Unclaimed
        /\ claims[q.uid] = q.row.code
    BY <1>1, <1>5 DEF VInv, Verified, CodeFree
  <2>2. CASE u = q.uid
    BY <1>2, <1>4, <2>1, <2>2 DEF HasHis, CodesOf
  <2>3. CASE u # q.uid
    <3>1. Lives(u) /\ u \in Given
      BY <1>2, <1>5 DEF Lives, OInv
    <3>2. u # Unclaimed
      BY <3>1 DEF Given, Unclaimed, AInv, Base
    <3>3. HasHis(u)
      BY <1>5, <3>1 DEF VInv, Verified
    <3>4. claims[u] \in CodesOf(u) => claims[u] \in CodesOf(u)'
      BY <1>4, <2>1, <3>2 DEF CodesOf
    <3>5. MidVerify(u) => MidVerify(u)'
      BY <1>1, <1>3, <2>3 DEF MidVerify, At
    <3> QED
      BY <1>2, <3>3, <3>4, <3>5 DEF HasHis
  <2> QED
    BY <2>2, <2>3
<1>6. PICK r : r = Idle /\ r.op # "verify"
  <2>1. Idle.op # "verify"
    BY DEF Idle
  <2> QED
    BY <2>1
<1>7. DOMAIN claims' = Uids /\ lastUid' <= MaxUid
  BY <1>2 DEF VInv
<1> QED
  BY <1>1, <1>2, <1>5, <1>6, <1>7, TurnOfOne

\* Who loses a code to somebody else's token is on record.
LEMMA UnregisterCodeVInv ==
    ASSUME AInv, OInv, VInv, NEW w \in Workers, NEW d \in Codes, UnregisterCode(w, d)
    PROVE  VInv'
<1>1. PICK q : /\ q = req[w] /\ RequestFine(q) /\ q.op = "unregister" /\ q.at = "codes"
               /\ ~Lives(q.token.id) /\ w \in alive
  BY AtIsAlive DEF AInv, OInv, UnregisterCode, At, RequestFine
<1>2. PICK r : r.op # "verify" /\ req' = [req EXCEPT ![w] = r]
  <2>1. PICK a : a = [q EXCEPT !.left = @ \ {d}]
    OBVIOUS
  <2>2. a.op # "verify" /\ Idle.op # "verify"
    BY <1>1, <2>1 DEF RequestFine, Idle
  <2> QED
    BY <1>1, <2>1, <2>2 DEF UnregisterCode, Answer, Continue
<1>3. /\ wdcodes' = [wdcodes EXCEPT ![d] = [uid |-> Unclaimed, secret |-> Unset]]
      /\ robbed' = IF OwnerOf(d) \in {Unclaimed, q.token.id} THEN robbed ELSE robbed \cup {OwnerOf(d)}
      /\ UNCHANGED <<alive, users, lastUid, claims, cut>>
  BY <1>1 DEF UnregisterCode, Answer, Continue
<1>4. \A v \in Workers \ {w} : req'[v] = req[v]
  BY <1>2 DEF AInv, Processes
<1>5. DOMAIN wdcodes' = DOMAIN wdcodes /\ \A c \in DOMAIN wdcodes : c # d => OwnerOf(c)' = OwnerOf(c)
  BY <1>3 DEF OwnerOf
<1>6. ASSUME Sequential, NEW u, Lives(u)' PROVE HasHis(u)'
  <2>1. Lives(u) /\ u \in Given /\ u # q.token.id
    BY <1>1, <1>3, <1>6 DEF Lives, OInv
  <2>2. u # Unclaimed
    BY <2>1 DEF Given, Unclaimed, AInv, Base
  <2>3. HasHis(u)
    BY <1>6, <2>1 DEF VInv, Verified
  <2>4. claims[u] \in CodesOf(u) => claims[u] \in CodesOf(u)' \/ u \in robbed'
    BY <1>3, <1>5, <2>1, <2>2 DEF CodesOf
  <2>5. MidVerify(u) => MidVerify(u)'
    BY <1>1, <1>4 DEF MidVerify, At
  <2> QED
    BY <1>3, <2>3, <2>4, <2>5 DEF HasHis
<1>7. DOMAIN claims' = Uids /\ lastUid' <= MaxUid
  BY <1>3 DEF VInv
<1> QED
  BY <1>1, <1>2, <1>3, <1>6, <1>7, TurnOfOne

LEMMA CrashVInv ==
    ASSUME AInv, OInv, VInv, NEW w \in Workers, AuthCrash(w)
    PROVE  VInv'
<1>1. /\ req' = [req EXCEPT ![w] = Idle] /\ cut \subseteq cut' /\ w \in alive
      /\ UNCHANGED <<alive, users, wdcodes, lastUid, claims, robbed>>
  BY DEF AuthCrash, Answer, Continue, authDb
<1>2. \A v \in Workers \ {w} : req'[v] = req[v]
  BY <1>1 DEF AInv, Processes
<1>3. \A u \in Uids : At(w, "verify", "claim") /\ req[w].uid = u => u \in cut'
  BY DEF AuthCrash
<1>4. ASSUME Sequential, NEW u, Lives(u)' PROVE HasHis(u)'
  <2>1. Lives(u) /\ u \in Given
    BY <1>1, <1>4 DEF Lives, OInv
  <2>2. HasHis(u) /\ u \in Uids
    BY <1>4, <2>1, AuthAssumption DEF VInv, Verified, Given, Uids, AInv, Base
  <2>3. MidVerify(u) => MidVerify(u)' \/ u \in cut'
    BY <1>2, <1>3, <2>2 DEF MidVerify, At
  <2>4. CodesOf(u)' = CodesOf(u)
    BY <1>1 DEF CodesOf, OwnerOf
  <2> QED
    BY <1>1, <2>2, <2>3, <2>4 DEF HasHis
<1>5. PICK r : r = Idle /\ r.op # "verify"
  <2>1. Idle.op # "verify"
    BY DEF Idle
  <2> QED
    BY <2>1
<1>6. DOMAIN claims' = Uids /\ lastUid' <= MaxUid
  BY <1>1 DEF VInv
<1> QED
  BY <1>1, <1>4, <1>5, <1>6, TurnOfOne

LEMMA InitVInv == AuthInit => VInv
<1> SUFFICES ASSUME AuthInit PROVE VInv
  OBVIOUS
<1>1. \A w \in Workers : \A r : r = req[w] => r.op # "verify"
  BY DEF AuthInit, ServiceInit, Idle
<1>2. \A u : ~Lives(u)
  BY DEF AuthInit, Lives
<1> QED
  BY <1>1, <1>2, AuthAssumption DEF AuthInit, VInv, Verified

LEMMA NextVInv == AInv /\ AInv' /\ OInv /\ VInv /\ [AuthNext]_authVars => VInv'
<1> SUFFICES ASSUME AInv, AInv', OInv, VInv, [AuthNext]_authVars PROVE VInv'
  OBVIOUS
<1>1. CASE UNCHANGED authVars
  BY <1>1, NobodyMoves DEF authVars, authDb, authHist, serviceVars
<1>2. ASSUME NEW t \in issued, TokenExpires(t) PROVE VInv'
  BY <1>2, NobodyMoves DEF TokenExpires, authDb, authHist, serviceVars
<1>3. ASSUME NEW r \in pending, TenMinutes(r) PROVE VInv'
  BY <1>3, NobodyMoves DEF TenMinutes, authHist, serviceVars
<1>4. ASSUME NEW c \in Codes, AddCode(c) PROVE VInv'
  <2>1. UNCHANGED <<alive, req, users, claims, lastUid, robbed, cut>>
    BY <1>4 DEF AddCode, authHist, serviceVars
  <2> QED
    BY <1>4, <2>1, NobodyMoves
<1>5. ASSUME NEW w \in Workers,
             \/ \E e \in Emails, c \in Codes : Register(w, e, c)
             \/ RegisterCode(w) \/ RegisterPending(w) \/ RegisterInsert(w)
             \/ \E r \in pending : Verify(w, r)
             \/ VerifyDelete(w) \/ VerifyInsert(w) \/ VerifyClaim(w)
             \/ \E e \in Emails : Forgot(w, e)
             \/ ForgotPending(w) \/ ForgotInsert(w)
             \/ \E r \in pending : Reset(w, r)
             \/ ResetUpdate(w)
      PROVE  VInv'
  BY <1>5, MeanwhileVInv, VerifyInsertVInv, VerifyClaimVInv
<1>6. ASSUME NEW w \in Workers,
             \/ \E b \in bodies, accepted \in BOOLEAN : ResetBody(w, b, accepted)
             \/ \E u \in users : Login(w, u)
             \/ \E t \in issued : RequestToken(w, t) \/ Unregister(w, t)
             \/ \E c \in Codes, s \in Secrets : AuthenticateWatchdog(w, c, s)
             \/ StoreSecret(w) \/ GenerateToken(w)
             \/ UnregisterPending(w) \/ UnregisterDelete(w)
             \/ \E c \in Codes : UnregisterCode(w, c)
             \/ AuthCrash(w)
      PROVE  VInv'
  BY <1>6, AskingVInv, UnregisterCodeVInv, CrashVInv
<1> QED
  BY <1>1, <1>2, <1>3, <1>4, <1>5, <1>6 DEF AuthNext

-----------------------------------------------------------------------------
(* The theorems.                                                           *)

\* Between the statements of verifyEmail (app.py:347-356) and of unregister the
\* code and the account disagree, and a token made in between (or kept in the
\* cache of generateToken) does not name the code: with every request answered a
\* claimed code has an account, but for those recorded as cut short by a crash or
\* as having been given such a token.  And with one process who was verified for
\* a code has it, until a token of a former owner releases it; a code is claimed by
\* one person at a time, and by nobody while it has an owner: register checks that
\* (app.py:213-243), and nothing until the verification looks again.
THEOREM AccountsStaySound == AuthSpec => []AccountsSound
<1>1. AuthInit => AInv /\ OInv /\ VInv
  BY InitAInv, InitOInv, InitVInv
<1>2. AInv /\ OInv /\ VInv /\ [AuthNext]_authVars => (AInv /\ OInv /\ VInv)'
  BY NextAInv, NextOInv, NextVInv
<1>3. AInv /\ OInv /\ VInv => AccountsSound
  <2> SUFFICES ASSUME AInv, OInv, VInv PROVE AccountsSound
    OBVIOUS
  <2>1. CodeHasOwner
    <3> SUFFICES ASSUME \A w \in Workers : req[w] = Idle, NEW c \in DOMAIN wdcodes,
                        OwnerOf(c) # Unclaimed
                 PROVE  Lives(OwnerOf(c)) \/ OwnerOf(c) \in early \cup cut
      BY DEF CodeHasOwner, Lives
    <3>1. ~Released(c)
      BY DEF Released, At, Idle
    <3> QED
      BY <3>1 DEF OInv, Owned, OwnerFine, Excused
  <2>2. VerifiedOwns
    <3> SUFFICES ASSUME Sequential, NEW u \in users
                 PROVE  \/ OwnerOf(claims[u.uid]) = u.uid
                        \/ MidVerify(u.uid)
                        \/ u.uid \in robbed \cup cut
      BY DEF VerifiedOwns
    <3>1. Lives(u.uid)
      BY DEF Lives
    <3> QED
      BY <3>1 DEF VInv, Verified, HasHis, CodesOf
  <2>3. SoleClaim
    BY DEF AInv, Alone, Claims, SoleClaim, CodeFree
  <2> QED
    BY <2>1, <2>2, <2>3 DEF AccountsSound
<1> QED
  BY <1>1, <1>2, <1>3, PTL DEF AuthSpec

\* The first secret sent for a code is stored (app.py:553-559) after it was found
\* to be missing: with one process it is never replaced by another one while the
\* code keeps its owner, whatever else is requested, however often, and wherever
\* the process dies.
THEOREM SecretsStay == AuthSpec => OneBox
<1> DEFINE Stays == Sequential =>
             \A c \in DOMAIN wdcodes :
                (wdcodes[c].secret # Unset /\ wdcodes'[c].uid = wdcodes[c].uid) =>
                    wdcodes'[c].secret = wdcodes[c].secret
<1>1. AInv /\ [AuthNext]_authVars => [Stays]_authVars
  <2> SUFFICES ASSUME AInv, AuthNext, Sequential, NEW c \in DOMAIN wdcodes,
                      wdcodes[c].secret # Unset, wdcodes'[c].uid = wdcodes[c].uid
               PROVE  wdcodes'[c].secret = wdcodes[c].secret
    OBVIOUS
  <2>1. CASE wdcodes' = wdcodes
    BY <2>1
  <2>2. ASSUME NEW d \in Codes, AddCode(d) PROVE wdcodes'[c] = wdcodes[c]
    BY <2>2 DEF AddCode
  <2>3. wdcodes[c] \in CodeRow
    BY DEF AInv, Base
  <2>4. ASSUME NEW w \in Workers, VerifyClaim(w) PROVE wdcodes'[c].secret = wdcodes[c].secret
    BY <2>3, <2>4 DEF VerifyClaim, CodeRow
  <2>5. ASSUME NEW w \in Workers, StoreSecret(w) PROVE wdcodes'[c] = wdcodes[c]
    <3>1. wdcodes[req[w].code].secret = Unset
      BY <2>5 DEF AInv, Alone, Proving, StoreSecret
    <3> QED
      BY <2>5, <3>1 DEF StoreSecret
  <2>6. ASSUME NEW w \in Workers, NEW d \in Codes, UnregisterCode(w, d)
        PROVE  wdcodes'[c] = wdcodes[c]
    <3>1. OwnerOf(c) # Unclaimed
      BY DEF AInv, Alone, Secrecy
    <3> QED
      BY <2>6, <3>1 DEF UnregisterCode, OwnerOf
  <2>7. \/ UNCHANGED wdcodes \/ \E d \in Codes : AddCode(d)
        \/ \E w \in Workers : \/ VerifyClaim(w) \/ StoreSecret(w)
                             \/ \E d \in Codes : UnregisterCode(w, d)
    BY ZenonT(60) DEF AuthNext, authDb, Register, RegisterCode, RegisterPending, RegisterInsert, Verify,
           VerifyDelete, VerifyInsert, Forgot, ForgotPending, ForgotInsert, Reset, ResetBody,
           ResetUpdate, Login, RequestToken, AuthenticateWatchdog, GenerateToken, Unregister,
           UnregisterPending, UnregisterDelete, AuthCrash, TenMinutes, TokenExpires
  <2> QED
    BY <2>1, <2>2, <2>4, <2>5, <2>6, <2>7
<1> QED
  BY <1>1, Inductive, PTL DEF AuthSpec, OneBox

-----------------------------------------------------------------------------
(*                           The addon backend.                            *)

-----------------------------------------------------------------------------
(* The inductive invariant: whose a configuration is.                      *)

\* The request is about to write its configuration into a relation, or a type.
Placing(q) == q.op \in {"install", "get", "modify"} /\ q.at \in {"row", "update"}
Typing(q)  == q.op = "type" /\ q.at \in {"row", "update"}

SameKey(p, q) == p.wd = q.wd /\ p.addon = q.addon /\ p.device = q.device

\* The fields that a request has.
Form(q) ==
    /\ "op" \in DOMAIN q
    /\ q.op = "type" => {"at", "addon", "id"} \subseteq DOMAIN q
    /\ q.op \in {"install", "get", "modify"} =>
         {"at", "wd", "addon", "device", "id"} \subseteq DOMAIN q

Requests ==
    /\ DOMAIN req = Workers
    /\ \A w \in Workers : Form(req[w])
    /\ \A p \in parked : Form(p.req) /\ p.req.op = "get" /\ p.req.at = "check"

\* The numbers that were drawn.
Drawn == 1 .. lastConfig
Numbers ==
    /\ lastConfig \in Nat
    /\ \A r \in wds : r.config \in Drawn
    /\ \A a \in Types : addons[a] \in Drawn

\* The rows of wds and of addons: keys are unique, and so are configurations.
RowsApart ==
    /\ \A r \in wds : r = [wd |-> r.wd, addon |-> r.addon, device |-> r.device, config |-> r.config]
    /\ \A r, s \in wds : SameKey(r, s) \/ r.config = s.config => r = s
    /\ \A r \in wds, a \in Types : r.config # addons[a]
    /\ \A a, b \in Types : addons[a] = addons[b] => a = b

\* What a request is about to write is nowhere but where it writes it.
Claim(q) ==
    /\ Placing(q) => /\ q.id \in Drawn
                     /\ \A r \in wds : r.config = q.id => SameKey(r, q)
                     /\ \A a \in Types : addons[a] # q.id
    /\ Typing(q) => /\ q.id \in Drawn
                    /\ \A r \in wds : r.config # q.id
                    /\ \A a \in Types : addons[a] = q.id => a = q.addon

\* Two requests that are about to write the same one write it to the same place.
Agree(p, q) ==
    /\ Placing(p) /\ Placing(q) => (p.id = q.id => SameKey(p, q))
    /\ Typing(p) /\ Typing(q) => (p.id = q.id => p.addon = q.addon)
    /\ Placing(p) /\ Typing(q) => p.id # q.id
    /\ Typing(p) /\ Placing(q) => p.id # q.id

PInv ==
    /\ Requests /\ Numbers /\ RowsApart
    /\ \A w \in Workers : Claim(req[w])
    /\ \A v, w \in Workers : Agree(req[v], req[w])

-----------------------------------------------------------------------------
(* Steps that leave the tables alone.                                      *)

\* Process w goes on with q, which claims nothing that is not its own.
LEMMA Moves ==
    ASSUME PInv, NEW w \in Workers, NEW q, req' = [req EXCEPT ![w] = q],
           UNCHANGED <<wds, addons, lastConfig>>, Requests', Claim(q),
           \A v \in Workers \ {w} : Agree(req[v], q)
    PROVE  PInv'
<1>1. req'[w] = q /\ \A v \in Workers \ {w} : req'[v] = req[v]
  BY DEF PInv, Requests
<1>2. Numbers' /\ RowsApart'
  BY DEF PInv, Numbers, RowsApart, Drawn, Types, SameKey
<1>3. \A p : Claim(p) => Claim(p)'
  BY DEF Claim, Placing, Typing, Drawn, Types, SameKey
<1>4. \A v \in Workers : Claim(req[v])'
  <2> SUFFICES ASSUME NEW v \in Workers PROVE Claim(req[v])'
    OBVIOUS
  <2> QED
    BY <1>1 DEF PInv, Claim, Placing, Typing, Drawn, Types, SameKey
<1>5. Agree(q, q)
  BY DEF Agree, Placing, Typing, SameKey
<1>6. \A v \in Workers \ {w} : Agree(q, req[v])
  BY DEF Agree, SameKey
<1>7. \A u, v \in Workers : Agree(req[u], req[v])'
  <2> SUFFICES ASSUME NEW u \in Workers, NEW v \in Workers PROVE Agree(req'[u], req'[v])
    BY DEF Agree, Placing, Typing, SameKey
  <2> QED
    BY <1>1, <1>5, <1>6 DEF PInv
<1> QED
  BY <1>2, <1>4, <1>7 DEF PInv

\* Process w goes on with a request that is not about to write.
LEMMA Rests ==
    ASSUME PInv, NEW w \in Workers, NEW q, req' = [req EXCEPT ![w] = q],
           UNCHANGED <<wds, addons, lastConfig>>,
           Form(q), ~Placing(q), ~Typing(q),
           \A p \in parked' \ parked : Form(p.req) /\ p.req.op = "get" /\ p.req.at = "check"
    PROVE  PInv'
<1>1. Requests'
  BY DEF PInv, Requests, Form
<1>2. Claim(q) /\ \A v \in Workers \ {w} : Agree(req[v], q)
  BY DEF Claim, Agree
<1> QED
  BY <1>1, <1>2, Moves

\* Process w goes on with the same place and the same configuration.
LEMMA Stays ==
    ASSUME PInv, NEW w \in Workers, Goto(w, "update"),
           Placing(req[w]) \/ Typing(req[w]),
           UNCHANGED <<wds, addons, lastConfig, parked>>
    PROVE  PInv'
<1> DEFINE q == [req[w] EXCEPT !.at = "update"]
<1>1. req' = [req EXCEPT ![w] = q]
  BY DEF Goto, Continue
<1>2. Form(req[w])
  BY DEF PInv, Requests
<1>3. /\ q.op = req[w].op /\ q.at = "update" /\ q.addon = req[w].addon /\ q.id = req[w].id
      /\ Placing(req[w]) => SameKey(q, req[w])
      /\ Form(q)
  BY <1>2 DEF Form, Placing, Typing, SameKey
<1>4. (Placing(q) <=> Placing(req[w])) /\ (Typing(q) <=> Typing(req[w]))
  BY <1>3 DEF Placing, Typing
<1>5. Requests'
  BY <1>1, <1>3 DEF PInv, Requests, Form
<1>6. Claim(req[w]) /\ \A v \in Workers : Agree(req[v], req[w])
  BY DEF PInv
<1>7. Claim(q)
  BY <1>3, <1>4, <1>6 DEF Claim, SameKey
<1>8. \A v \in Workers : Agree(req[v], q)
  BY <1>3, <1>4, <1>6 DEF Agree, SameKey
<1> HIDE DEF q
<1> QED
  BY <1>1, <1>5, <1>7, <1>8, Moves

-----------------------------------------------------------------------------
(* The actions that write.                                                 *)

\* updateConfig draws a number that nobody has.
LEMMA NewConfigPInv ==
    ASSUME PInv, NEW w \in Workers, NewConfig(w)
    PROVE  PInv'
<1> PICK n : n = lastConfig + 1
  OBVIOUS
<1> PICK q : q = [req[w] EXCEPT !.at = "row", !.id = n]
  OBVIOUS
<1>1. req' = [req EXCEPT ![w] = q] /\ lastConfig' = n /\ UNCHANGED <<wds, addons, parked>>
  BY DEF NewConfig, Continue
<1>2. Form(req[w]) /\ req[w].op \in {"type", "install", "get", "modify"}
  BY DEF PInv, Requests, NewConfig
<1>3. Form(q) /\ q.id = n
  BY <1>2 DEF Form
<1>4. req'[w] = q /\ \A v \in Workers \ {w} : req'[v] = req[v]
  BY <1>1 DEF PInv, Requests
<1>5. Requests'
  BY <1>1, <1>3, <1>4 DEF PInv, Requests, Form
<1>6. lastConfig \in Nat /\ n \notin Drawn /\ Drawn \subseteq Drawn' /\ n \in Drawn'
  BY <1>1 DEF PInv, Numbers, Drawn
<1>7. Numbers' /\ RowsApart'
  <2>1. Numbers'
    BY <1>1, <1>6 DEF PInv, Numbers, Types
  <2>2. RowsApart'
    BY <1>1 DEF PInv, RowsApart, Types, SameKey
  <2> QED
    BY <2>1, <2>2
<1>8. \A v \in Workers : Claim(req[v])'
  <2>1. Claim(q)'
    BY <1>1, <1>3, <1>6 DEF PInv, Numbers, Claim, Types, Placing, Typing
  <2>2. ASSUME NEW v \in Workers \ {w} PROVE Claim(req[v])'
    BY <1>1, <1>4, <1>6 DEF PInv, Claim, Types, Placing, Typing, SameKey
  <2>3. Claim(req[w])'
    BY <2>1, <1>4 DEF Claim, Placing, Typing, SameKey
  <2> QED
    BY <2>2, <2>3
<1>9. \A v \in Workers \ {w} : Agree(req[v], q) /\ Agree(q, req[v])
  BY <1>3, <1>6 DEF PInv, Agree, Claim
<1>10. \A u, v \in Workers : Agree(req[u], req[v])'
  <2>1. Agree(q, q)
    BY DEF Agree, Placing, Typing, SameKey
  <2> SUFFICES ASSUME NEW u \in Workers, NEW v \in Workers PROVE Agree(req'[u], req'[v])
    BY DEF Agree, Placing, Typing, SameKey
  <2> QED
    BY <1>4, <1>9, <2>1 DEF PInv
<1> QED
  BY <1>5, <1>7, <1>8, <1>10 DEF PInv

\* The request of w ends, or goes on without claiming anything, after it wrote.
LEMMA Written ==
    ASSUME PInv, NEW w \in Workers, NEW q, req' = [req EXCEPT ![w] = q],
           Form(q), ~Placing(q), ~Typing(q), UNCHANGED lastConfig,
           \A p \in parked' \ parked : Form(p.req) /\ p.req.op = "get" /\ p.req.at = "check",
           Numbers', RowsApart',
           \A v \in Workers \ {w} : Claim(req[v])'
    PROVE  PInv'
<1>1. req'[w] = q /\ \A v \in Workers \ {w} : req'[v] = req[v]
  BY DEF PInv, Requests
<1>2. Requests'
  BY DEF PInv, Requests, Form
<1>3. \A v \in Workers : Claim(req[v])'
  <2>1. Claim(req[w])'
    BY <1>1 DEF Claim, Placing, Typing
  <2> QED
    BY <2>1
<1>4. \A u, v \in Workers : Agree(req[u], req[v])'
  <2>1. \A v \in Workers : Agree(req[v], q) /\ Agree(q, req[v])
    BY DEF Agree
  <2>2. Agree(q, q)
    BY DEF Agree
  <2> SUFFICES ASSUME NEW u \in Workers, NEW v \in Workers PROVE Agree(req'[u], req'[v])
    BY DEF Agree, Placing, Typing, SameKey
  <2> QED
    BY <1>1, <2>1, <2>2 DEF PInv
<1> QED
  BY <1>2, <1>3, <1>4 DEF PInv

\* A process without a request claims nothing.
LEMMA IdleClaimsNothing == Form(Idle) /\ ~Placing(Idle) /\ ~Typing(Idle)
BY DEF Form, Placing, Typing, Idle

LEMMA RelationDoneRests ==
    ASSUME PInv, NEW w \in Workers, RelationDone(w),
           req[w].op \in {"install", "get", "modify"}
    PROVE  \E q : /\ req' = [req EXCEPT ![w] = q]
                  /\ Form(q) /\ ~Placing(q) /\ ~Typing(q)
                  /\ \A p \in parked' \ parked :
                       Form(p.req) /\ p.req.op = "get" /\ p.req.at = "check"
<1>1. CASE req[w].op # "get"
  <2>1. req' = [req EXCEPT ![w] = Idle] /\ parked' \ parked = {}
    BY <1>1 DEF RelationDone, Answer, Continue
  <2> WITNESS Idle
  <2> QED
    BY <2>1, IdleClaimsNothing
<1>2. CASE req[w].op = "get"
  <2> PICK next : next = [req[w] EXCEPT !.at = "check", !.todo = Tail(@)]
    OBVIOUS
  <2>1. Form(req[w])
    BY DEF PInv, Requests
  <2>2. Form(next) /\ next.op = "get" /\ next.at = "check"
    BY <1>2, <2>1 DEF Form
  <2>3. ~Placing(next) /\ ~Typing(next)
    BY <2>2 DEF Placing, Typing
  <2>4. CASE req[w].user
    <3>1. /\ req' = [req EXCEPT ![w] = Idle]
          /\ parked' = parked \cup {[w |-> w, req |-> next]}
      BY <1>2, <2>4 DEF RelationDone, Answer, Continue
    <3>2. \A p \in parked' \ parked : p.req = next
      BY <3>1
    <3> WITNESS Idle
    <3> QED
      BY <2>2, <3>1, <3>2, IdleClaimsNothing
  <2>5. CASE ~req[w].user
    <3>1. req' = [req EXCEPT ![w] = next] /\ UNCHANGED parked
      BY <1>2, <2>5 DEF RelationDone, Continue
    <3> QED
      BY <2>2, <2>3, <3>1
  <2> QED
    BY <2>4, <2>5
<1> QED
  BY <1>1, <1>2

\* updateRelation: the row gets the configuration that was made for it.
LEMMA InsertRelationPInv ==
    ASSUME PInv, NEW w \in Workers, InsertRelation(w)
    PROVE  PInv'
<1> PICK r : r = req[w]
  OBVIOUS
<1>1. /\ r.op \in {"install", "get", "modify"} /\ Placing(r)
      /\ UNCHANGED <<addons, lastConfig>>
      /\ Claim(r) /\ \A v \in Workers : Claim(req[v]) /\ Agree(req[v], r)
  BY DEF PInv, InsertRelation, Placing
<1>2. CASE RowAt(r.wd, r.addon, r.device) # {}
  BY <1>1, <1>2, Stays DEF InsertRelation
<1>3. CASE RowAt(r.wd, r.addon, r.device) = {} /\ r.addon \in Types /\ r.id \in configs
  <2> PICK row : row = [wd |-> r.wd, addon |-> r.addon, device |-> r.device, config |-> r.id]
    OBVIOUS
  <2>1. wds' = wds \cup {row} /\ RelationDone(w)
    BY <1>3 DEF InsertRelation
  <2>2. /\ row.config = r.id /\ SameKey(row, r)
        /\ row = [wd |-> row.wd, addon |-> row.addon, device |-> row.device, config |-> row.config]
    BY DEF SameKey
  <2>3. \A s \in wds : ~SameKey(s, row) /\ s.config # row.config
    BY <1>1, <1>3, <2>2 DEF RowAt, Rows, SameKey, Claim
  <2>4. Numbers'
    BY <1>1, <2>1, <2>2 DEF PInv, Numbers, Claim, Drawn, Types
  <2>5. RowsApart'
    <3>1. \A s, t \in wds' : SameKey(s, t) \/ s.config = t.config => s = t
      BY <2>1, <2>3 DEF PInv, RowsApart, SameKey
    <3>2. \A s \in wds', a \in Types : s.config # addons[a]
      BY <1>1, <2>1, <2>2 DEF PInv, RowsApart, Claim
    <3>3. \A s \in wds' : s = [wd |-> s.wd, addon |-> s.addon, device |-> s.device, config |-> s.config]
      BY <2>1, <2>2 DEF PInv, RowsApart
    <3> QED
      BY <1>1, <3>1, <3>2, <3>3 DEF PInv, RowsApart, Types, SameKey
  <2>6. ASSUME NEW v \in Workers \ {w} PROVE Claim(req[v])'
    <3>1. req'[v] = req[v]
      BY <2>1 DEF PInv, Requests, RelationDone, Answer, Continue
    <3>2. Placing(req[v]) => (row.config = req[v].id => SameKey(row, req[v]))
      BY <1>1, <2>2 DEF Agree, SameKey
    <3>3. Typing(req[v]) => row.config # req[v].id
      BY <1>1, <2>2 DEF Agree
    <3> QED
      BY <1>1, <2>1, <3>1, <3>2, <3>3 DEF Claim, Placing, Typing, Drawn, Types, SameKey
  <2> QED
    BY <1>1, <2>1, <2>4, <2>5, <2>6, RelationDoneRests, Written
<1>4. CASE RowAt(r.wd, r.addon, r.device) = {} /\ ~(r.addon \in Types /\ r.id \in configs)
  BY <1>1, <1>4, IdleClaimsNothing, Rests DEF InsertRelation, Answer, Continue
<1> QED
  BY <1>2, <1>3, <1>4

LEMMA UpdateRelationPInv ==
    ASSUME PInv, NEW w \in Workers, UpdateRelation(w)
    PROVE  PInv'
<1> PICK r : r = req[w]
  OBVIOUS
<1> PICK old : old = RowAt(r.wd, r.addon, r.device)
  OBVIOUS
<1>1. /\ r.op \in {"install", "get", "modify"} /\ Placing(r)
      /\ UNCHANGED <<addons, lastConfig>>
      /\ Claim(r) /\ \A v \in Workers : Claim(req[v]) /\ Agree(req[v], r)
  BY DEF PInv, UpdateRelation, Placing
<1>2. CASE r.id \in configs \/ old = {}
  <2>1. wds' = (wds \ old) \cup {[o EXCEPT !.config = r.id] : o \in old} /\ RelationDone(w)
    BY <1>2 DEF UpdateRelation
  <2>2. \A s \in wds : s \in old <=> SameKey(s, r)
    BY DEF RowAt, Rows, SameKey
  <2>3. \A s \in wds' : \/ s \in wds /\ ~SameKey(s, r) /\ s.config # r.id
                        \/ s = [wd |-> r.wd, addon |-> r.addon, device |-> r.device, config |-> r.id]
    <3> SUFFICES ASSUME NEW s \in wds', s \notin wds \ old
                 PROVE  s = [wd |-> r.wd, addon |-> r.addon, device |-> r.device, config |-> r.id]
      BY <1>1, <2>1, <2>2 DEF Claim
    <3>1. PICK o \in old : s = [o EXCEPT !.config = r.id]
      BY <2>1
    <3>2. o \in wds
      BY DEF RowAt, Rows
    <3>3. /\ o = [wd |-> o.wd, addon |-> o.addon, device |-> o.device, config |-> o.config]
          /\ SameKey(o, r)
      BY <2>2, <3>2 DEF PInv, RowsApart
    <3> QED
      BY <3>1, <3>3 DEF SameKey
  <2>4. Numbers'
    BY <1>1, <2>3 DEF PInv, Numbers, Claim, Drawn, Types
  <2>5. RowsApart'
    <3>1. \A s \in wds' : s = [wd |-> s.wd, addon |-> s.addon, device |-> s.device, config |-> s.config]
      BY <2>3 DEF PInv, RowsApart
    <3>2. \A s, t \in wds' : SameKey(s, t) \/ s.config = t.config => s = t
      BY <2>3 DEF PInv, RowsApart, SameKey
    <3>3. \A s \in wds', a \in Types : s.config # addons[a]
      BY <1>1, <2>3 DEF PInv, RowsApart, Claim
    <3> QED
      BY <1>1, <3>1, <3>2, <3>3 DEF PInv, RowsApart, Types, SameKey
  <2>6. ASSUME NEW v \in Workers \ {w} PROVE Claim(req[v])'
    <3>1. req'[v] = req[v]
      BY <2>1 DEF PInv, Requests, RelationDone, Answer, Continue
    <3>2. \A s \in wds' : Placing(req[v]) /\ s.config = req[v].id => SameKey(s, req[v])
      BY <1>1, <2>3 DEF Agree, Claim, SameKey
    <3>3. \A s \in wds' : Typing(req[v]) => s.config # req[v].id
      BY <1>1, <2>3 DEF Agree, Claim
    <3> QED
      BY <1>1, <3>1, <3>2, <3>3 DEF Claim, Placing, Typing, Drawn, Types, SameKey
  <2> QED
    BY <1>1, <2>1, <2>4, <2>5, <2>6, RelationDoneRests, Written
<1>3. CASE ~(r.id \in configs \/ old = {})
  BY <1>1, <1>3, IdleClaimsNothing, Rests DEF UpdateRelation, Answer, Continue
<1> QED
  BY <1>2, <1>3

\* updateType: the type gets the configuration that was made for it.
LEMMA InsertTypePInv ==
    ASSUME PInv, NEW w \in Workers, InsertType(w)
    PROVE  PInv'
<1> PICK r : r = req[w]
  OBVIOUS
<1>1. /\ Typing(r) /\ UNCHANGED <<wds, lastConfig, parked>>
      /\ Claim(r) /\ \A v \in Workers : Claim(req[v]) /\ Agree(req[v], r)
  BY DEF PInv, InsertType, At, Typing
<1>2. CASE r.addon \in Types
  BY <1>1, <1>2, Stays DEF InsertType
<1>3. CASE r.addon \notin Types
  <2>1. req' = [req EXCEPT ![w] = Idle]
    BY <1>3 DEF InsertType, Answer, Continue
  <2>2. CASE r.id \notin configs
    BY <1>1, <1>3, <2>1, <2>2, IdleClaimsNothing, Rests DEF InsertType
  <2>3. CASE r.id \in configs
    <3>1. /\ Types' = Types \cup {r.addon}
          /\ addons'[r.addon] = r.id /\ \A a \in Types : addons'[a] = addons[a]
      BY <1>3, <2>3 DEF InsertType, Types
    <3>2. Numbers'
      BY <1>1, <3>1 DEF PInv, Numbers, Claim, Drawn
    <3>3. RowsApart'
      <4>1. \A s \in wds, a \in Types' : s.config # addons'[a]
        BY <1>1, <3>1 DEF PInv, RowsApart, Claim
      <4>2. \A a, b \in Types' : addons'[a] = addons'[b] => a = b
        BY <1>1, <1>3, <3>1 DEF PInv, RowsApart, Claim
      <4> QED
        BY <1>1, <4>1, <4>2 DEF PInv, RowsApart, SameKey
    <3>4. ASSUME NEW v \in Workers \ {w} PROVE Claim(req[v])'
      <4>1. req'[v] = req[v]
        BY <2>1 DEF PInv, Requests
      <4>2. Placing(req[v]) => \A a \in Types' : addons'[a] # req[v].id
        BY <1>1, <3>1 DEF Claim, Agree
      <4>3. Typing(req[v]) => \A a \in Types' : addons'[a] = req[v].id => a = req[v].addon
        BY <1>1, <3>1 DEF Claim, Agree
      <4> QED
        BY <1>1, <4>1, <4>2, <4>3 DEF Claim, Placing, Typing, Drawn, SameKey
    <3> QED
      BY <1>1, <2>1, <3>2, <3>3, <3>4, IdleClaimsNothing, Written
  <2> QED
    BY <2>2, <2>3
<1> QED
  BY <1>2, <1>3

LEMMA UpdateTypePInv ==
    ASSUME PInv, NEW w \in Workers, UpdateType(w)
    PROVE  PInv'
<1> PICK r : r = req[w]
  OBVIOUS
<1>1. /\ Typing(r) /\ UNCHANGED <<wds, lastConfig, parked>>
      /\ req' = [req EXCEPT ![w] = Idle]
      /\ Claim(r) /\ \A v \in Workers : Claim(req[v]) /\ Agree(req[v], r)
  BY DEF PInv, UpdateType, At, Typing, Answer, Continue
<1>2. /\ Types' = Types
      /\ \A a \in Types : addons'[a] = addons[a] \/ (a = r.addon /\ addons'[a] = r.id)
  BY DEF UpdateType, Types
<1>3. Numbers'
  BY <1>1, <1>2 DEF PInv, Numbers, Claim, Drawn
<1>4. RowsApart'
  <2>1. \A s \in wds, a \in Types' : s.config # addons'[a]
    BY <1>1, <1>2 DEF PInv, RowsApart, Claim
  <2>2. \A a, b \in Types' : addons'[a] = addons'[b] => a = b
    BY <1>1, <1>2 DEF PInv, RowsApart, Claim
  <2> QED
    BY <1>1, <2>1, <2>2 DEF PInv, RowsApart, SameKey
<1>5. ASSUME NEW v \in Workers \ {w} PROVE Claim(req[v])'
  <2>1. req'[v] = req[v]
    BY <1>1 DEF PInv, Requests
  <2>2. Placing(req[v]) => \A a \in Types' : addons'[a] # req[v].id
    BY <1>1, <1>2 DEF Claim, Agree
  <2>3. Typing(req[v]) => \A a \in Types' : addons'[a] = req[v].id => a = req[v].addon
    BY <1>1, <1>2 DEF Claim, Agree
  <2> QED
    BY <1>1, <2>1, <2>2, <2>3 DEF Claim, Placing, Typing, Drawn, SameKey
<1> QED
  BY <1>1, <1>3, <1>4, <1>5, IdleClaimsNothing, Written

-----------------------------------------------------------------------------
(* Rows that are deleted take nothing along that others rely on.           *)

\* removeAddon and removeType: of the relations and the types some are left.
LEMMA Fewer ==
    ASSUME PInv, NEW w \in Workers, NEW q, req' = [req EXCEPT ![w] = q],
           Form(q), ~Placing(q), ~Typing(q), UNCHANGED <<lastConfig, parked>>,
           wds' \subseteq wds,
           Types' \subseteq Types, \A a \in Types' : addons'[a] = addons[a]
    PROVE  PInv'
<1>1. Numbers'
  BY DEF PInv, Numbers, Drawn
<1>2. RowsApart'
  BY DEF PInv, RowsApart, SameKey
<1>3. ASSUME NEW v \in Workers \ {w} PROVE Claim(req[v])'
  <2>1. req'[v] = req[v] /\ Claim(req[v])
    BY DEF PInv, Requests
  <2> QED
    BY <2>1 DEF Claim, Placing, Typing, Drawn, SameKey
<1> QED
  BY <1>1, <1>2, <1>3, Written

LEMMA DeletePInv ==
    ASSUME PInv, NEW w \in Workers,
           DeleteRelations(w) \/ DeleteType(w) \/ DeleteDefault(w) \/ DeleteConfig(w)
    PROVE  PInv'
<1> DEFINE Dropping(q) == "op" \in DOMAIN q /\ q.op = "drop"
<1>1. \A q : Dropping(q) => Form(q) /\ ~Placing(q) /\ ~Typing(q)
  BY DEF Form, Placing, Typing
<1>2. Form(req[w]) /\ req[w].op = "drop" /\ UNCHANGED <<lastConfig, parked>>
  BY DEF PInv, Requests, DeleteRelations, DeleteType, DeleteDefault, DeleteConfig, At
<1>3. \A at : Dropping([req[w] EXCEPT !.at = at])
  BY <1>2 DEF Form
<1>4. \A ids : Dropping([req[w] EXCEPT !.ids = ids])
  BY <1>2 DEF Form
<1> HIDE DEF Dropping
<1>5. /\ wds' \subseteq wds /\ Types' \subseteq Types
      /\ \A a \in Types' : addons'[a] = addons[a]
  BY DEF DeleteRelations, DeleteType, DeleteDefault, DeleteConfig, Types
<1>6. \E q : req' = [req EXCEPT ![w] = q] /\ Form(q) /\ ~Placing(q) /\ ~Typing(q)
  <2>1. CASE DeleteRelations(w)
    BY <2>1, <1>1, <1>3 DEF DeleteRelations, Goto, Continue
  <2>2. CASE DeleteType(w)
    BY <2>2, <1>1, <1>3, IdleClaimsNothing DEF DeleteType, Goto, Answer, Continue
  <2>3. CASE DeleteDefault(w)
    BY <2>3, <1>1, <1>3, IdleClaimsNothing DEF DeleteDefault, Goto, Answer, Continue
  <2>4. CASE DeleteConfig(w)
    BY <2>4, <1>1, <1>4, IdleClaimsNothing DEF DeleteConfig, Answer, Continue
  <2> QED
    BY <2>1, <2>2, <2>3, <2>4
<1> QED
  BY <1>2, <1>5, <1>6, Fewer

-----------------------------------------------------------------------------
(* The actions that only read.                                             *)

\* Process w goes on with a request that is about to do something else.
LEMMA Reads ==
    ASSUME PInv, NEW w \in Workers, NEW q, req' = [req EXCEPT ![w] = q],
           UNCHANGED <<wds, addons, lastConfig, parked>>,
           Form(q), q.op \notin {"type", "install", "get", "modify"} \/ q.at \notin {"row", "update"}
    PROVE  PInv'
<1>1. ~Placing(q) /\ ~Typing(q)
  BY DEF Placing, Typing
<1>2. \A p \in parked' \ parked : FALSE
  OBVIOUS
<1> QED
  BY <1>1, <1>2, Rests

\* A request arrives that has drawn no number yet, or has found its row.
LEMMA ArrivalPInv ==
    ASSUME PInv, NEW w \in Workers,
           \/ \E a \in Addons : ModifyType(w, a) \/ RemoveType(w, a)
           \/ \E wd \in Watchdogs, a \in Addons :
                \/ Install(w, wd, a) \/ Uninstall(w, wd, a)
                \/ \E d \in Devices \cup {NullDevice}, config \in BOOLEAN :
                     ModifyAddon(w, wd, a, d, config)
           \/ \E wd \in Watchdogs, d \in Devices \cup {NoDevice}, user \in BOOLEAN :
                GetAddon(w, wd, d, user)
           \/ \E as \in {{a} : a \in Addons} \cup {Types} : GetType(w, as)
    PROVE  PInv'
<1>1. ASSUME NEW a \in Addons, ModifyType(w, a) PROVE PInv'
  <2>1. CASE a \in Types
    <3> PICK q : q = [op |-> "type", at |-> "row", addon |-> a, id |-> addons[a]]
      OBVIOUS
    <3>1. req' = [req EXCEPT ![w] = q] /\ UNCHANGED <<wds, addons, lastConfig, parked>>
      BY <1>1, <2>1 DEF ModifyType, Receive, tables
    <3>2. Form(q) /\ Requests'
      BY <3>1 DEF PInv, Requests, Form
    <3>3. Claim(q)
      BY <2>1 DEF PInv, Numbers, RowsApart, Claim, Placing
    <3>4. \A v \in Workers \ {w} : Agree(req[v], q)
      BY <2>1 DEF PInv, Claim, Agree, Placing
    <3> QED
      BY <3>1, <3>2, <3>3, <3>4, Moves
  <2>2. CASE a \notin Types
    <3> PICK q : q = [op |-> "type", at |-> "new", addon |-> a, id |-> 0]
      OBVIOUS
    <3>1. Form(q) /\ q.op = "type" /\ q.at = "new"
      BY DEF Form
    <3>2. req' = [req EXCEPT ![w] = q] /\ UNCHANGED <<wds, addons, lastConfig, parked>>
      BY <1>1, <2>2 DEF ModifyType, Receive, tables
    <3> QED
      BY <3>1, <3>2, Reads
  <2> QED
    BY <2>1, <2>2
<1>2. ASSUME NEW wd \in Watchdogs, NEW a \in Addons, NEW d \in Devices \cup {NullDevice},
             NEW config \in BOOLEAN, ModifyAddon(w, wd, a, d, config)
      PROVE  PInv'
  <2>1. UNCHANGED <<wds, addons, lastConfig, parked>>
    BY <1>2 DEF ModifyAddon, tables
  <2>2. ASSUME NEW r \in RowAt(wd, a, d),
               Receive(w, [op |-> "modify", at |-> "row", wd |-> wd, addon |-> a,
                           device |-> d, id |-> r.config, config |-> config])
        PROVE  PInv'
    <3> PICK q : q = [op |-> "modify", at |-> "row", wd |-> wd, addon |-> a,
                      device |-> d, id |-> r.config, config |-> config]
      OBVIOUS
    <3>1. req' = [req EXCEPT ![w] = q]
      BY <2>2 DEF Receive
    <3>2. Form(q) /\ Requests'
      BY <2>1, <3>1 DEF PInv, Requests, Form
    <3>3. r \in wds /\ SameKey(r, q) /\ q.id = r.config
      BY DEF RowAt, Rows, SameKey
    <3>4. Claim(q)
      BY <3>3 DEF PInv, Numbers, RowsApart, Claim, Typing
    <3>5. \A v \in Workers \ {w} : Agree(req[v], q)
      BY <3>3 DEF PInv, Claim, Agree, Typing, SameKey
    <3> QED
      BY <2>1, <3>1, <3>2, <3>4, <3>5, Moves
  <2>3. ASSUME Receive(w, [op |-> "modify", at |-> "fallback", wd |-> wd, addon |-> a,
                           device |-> d, id |-> 0, config |-> config])
        PROVE  PInv'
    <3> PICK q : q = [op |-> "modify", at |-> "fallback", wd |-> wd, addon |-> a,
                      device |-> d, id |-> 0, config |-> config]
      OBVIOUS
    <3>1. Form(q) /\ q.op = "modify" /\ q.at = "fallback"
      BY DEF Form
    <3>2. req' = [req EXCEPT ![w] = q]
      BY <2>3 DEF Receive
    <3> QED
      BY <2>1, <3>1, <3>2, Reads
  <2> QED
    BY <1>2, <2>2, <2>3 DEF ModifyAddon
<1>3. ASSUME NEW a \in Addons, RemoveType(w, a) PROVE PInv'
  <2> PICK q : q = [op |-> "drop", at |-> "default", addon |-> a, wds |-> Watchdogs, whole |-> TRUE,
                 default |-> 0, ids |-> {}]
    OBVIOUS
  <2>1. Form(q) /\ q.op = "drop" /\ q.at = "default"
    BY DEF Form
  <2>2. req' = [req EXCEPT ![w] = q] /\ UNCHANGED <<wds, addons, lastConfig, parked>>
    BY <1>3 DEF RemoveType, Receive, tables
  <2> QED
    BY <2>1, <2>2, Reads
<1>4. ASSUME NEW wd \in Watchdogs, NEW a \in Addons, Install(w, wd, a) PROVE PInv'
  <2> PICK q : q = [op |-> "install", at |-> "type", wd |-> wd, addon |-> a,
                 device |-> NullDevice, id |-> 0]
    OBVIOUS
  <2>1. Form(q) /\ q.op = "install" /\ q.at = "type"
    BY DEF Form
  <2>2. req' = [req EXCEPT ![w] = q] /\ UNCHANGED <<wds, addons, lastConfig, parked>>
    BY <1>4 DEF Install, Receive, tables
  <2> QED
    BY <2>1, <2>2, Reads
<1>5. ASSUME NEW wd \in Watchdogs, NEW a \in Addons, Uninstall(w, wd, a) PROVE PInv'
  <2> PICK q : q = [op |-> "drop", at |-> "default", addon |-> a, wds |-> {wd}, whole |-> FALSE,
                 default |-> 0, ids |-> {}]
    OBVIOUS
  <2>1. Form(q) /\ q.op = "drop" /\ q.at = "default"
    BY DEF Form
  <2>2. req' = [req EXCEPT ![w] = q] /\ UNCHANGED <<wds, addons, lastConfig, parked>>
    BY <1>5 DEF Uninstall, Receive, tables
  <2> QED
    BY <2>1, <2>2, Reads
<1>6. ASSUME NEW wd \in Watchdogs, NEW d \in Devices \cup {NoDevice}, NEW user \in BOOLEAN,
             GetAddon(w, wd, d, user)
      PROVE  PInv'
  <2> PICK q : q = [op |-> "get", at |-> "check", wd |-> wd, dev |-> d, user |-> user,
                 todo |-> Mandatory, addon |-> Mandatory[1], device |-> NullDevice, id |-> 0]
    OBVIOUS
  <2>1. Form(q) /\ q.op = "get" /\ q.at = "check"
    BY DEF Form
  <2>2. req' = [req EXCEPT ![w] = q] /\ UNCHANGED <<wds, addons, lastConfig, parked>>
    BY <1>6 DEF GetAddon, Receive, tables
  <2> QED
    BY <2>1, <2>2, Reads
<1>7. ASSUME NEW as, GetType(w, as) PROVE PInv'
  <2> PICK q : q = [op |-> "types", at |-> "configs", ids |-> {addons[a] : a \in as}, none |-> FALSE]
    OBVIOUS
  <2>1. Form(q) /\ q.op = "types" /\ q.at = "configs"
    BY DEF Form
  <2>2. req' = [req EXCEPT ![w] = q] /\ UNCHANGED <<wds, addons, lastConfig, parked>>
    BY <1>7 DEF GetType, Receive, tables
  <2> QED
    BY <2>1, <2>2, Reads
<1> QED
  BY <1>1, <1>2, <1>3, <1>4, <1>5, <1>6, <1>7

\* A request goes on with another statement that writes nothing, or ends.
LEMMA ReadingPInv ==
    ASSUME PInv, NEW w \in Workers,
           \/ SelectType(w) \/ CopyConfig(w) \/ SelectFallback(w)
           \/ CheckMandatory(w) \/ CheckFallback(w) \/ ListAddons(w) \/ SendList(w)
           \/ SelectConfig(w) \/ SendTypes(w) \/ SelectDefault(w) \/ SelectIds(w)
    PROVE  PInv'
<1> PICK r : r = req[w]
  OBVIOUS
<1> DEFINE Aside(q) == /\ Form(q)
                       /\ \/ q.op \notin {"type", "install", "get", "modify"}
                          \/ q.at \notin {"row", "update"}
<1>1. Form(r)
  BY DEF PInv, Requests
<1>2. UNCHANGED <<wds, addons, lastConfig>>
  BY DEF SelectType, CopyConfig, SelectFallback, CheckMandatory, CheckFallback, ListAddons,
         SendList, SelectConfig, SendTypes, SelectDefault, SelectIds, tables
<1>3. UNCHANGED parked
  BY DEF SelectType, CopyConfig, SelectFallback, CheckMandatory, CheckFallback, ListAddons,
         SendList, SelectConfig, SendTypes, SelectDefault, SelectIds
<1>4. Aside(Idle)
  BY IdleClaimsNothing DEF Idle
<1>5. \E q : req' = [req EXCEPT ![w] = q] /\ Aside(q)
  <2>1. CASE SelectType(w)
    <3>1. Aside([r EXCEPT !.at = "copy", !.id = addons[r.addon]])
      BY <1>1, <2>1 DEF SelectType, Form
    <3> QED
      BY <1>4, <2>1, <3>1 DEF SelectType, Answer, Continue
  <2>2. CASE CopyConfig(w)
    <3>1. Aside([r EXCEPT !.at = "new"])
      BY <1>1, <2>2 DEF CopyConfig, Form
    <3> QED
      BY <1>4, <2>2, <3>1 DEF CopyConfig, Goto, Answer, Continue
  <2>3. CASE SelectFallback(w)
    <3>1. Aside([r EXCEPT !.at = "new"]) /\ \A c : Aside([r EXCEPT !.at = "copy", !.id = c])
      BY <1>1, <2>3 DEF SelectFallback, At, Form
    <3> QED
      BY <1>4, <2>3, <3>1 DEF SelectFallback, Goto, Answer, Continue
  <2>4. CASE CheckMandatory(w)
    <3>1. \A t : Aside([r EXCEPT !.todo = t])
      BY <1>1, <2>4 DEF CheckMandatory, At, Form
    <3>2. \A a : Aside([r EXCEPT !.at = "null", !.addon = a])
      BY <1>1, <2>4 DEF CheckMandatory, At, Form
    <3> QED
      BY <2>4, <3>1, <3>2 DEF CheckMandatory, Continue
  <2>5. CASE CheckFallback(w)
    <3>1. Aside([r EXCEPT !.at = "type"]) /\ \A t : Aside([r EXCEPT !.at = "check", !.todo = t])
      BY <1>1, <2>5 DEF CheckFallback, At, Form
    <3> QED
      BY <2>5, <3>1 DEF CheckFallback, Goto, Continue
  <2>6. CASE ListAddons(w)
    <3>1. \A rows : Aside([op |-> "listed", rows |-> rows])
      BY DEF Form
    <3> QED
      BY <1>4, <2>6, <3>1 DEF ListAddons, Answer, Continue
  <2>7. CASE SendList(w) \/ SendTypes(w)
    BY <1>4, <2>7 DEF SendList, SendTypes, Answer, Continue
  <2>8. CASE SelectConfig(w)
    <3>1. Aside([r EXCEPT !.none = TRUE]) /\ \A ids : Aside([r EXCEPT !.ids = ids])
      BY <1>1, <2>8 DEF SelectConfig, At, Form
    <3> QED
      BY <2>8, <3>1 DEF SelectConfig, Continue
  <2>9. CASE SelectDefault(w)
    <3>1. \A d : Aside([r EXCEPT !.at = "ids", !.default = d])
      BY <1>1, <2>9 DEF SelectDefault, At, Form
    <3> QED
      BY <1>4, <2>9, <3>1 DEF SelectDefault, Answer, Continue
  <2>10. CASE SelectIds(w)
    <3>1. \A ids : Aside([r EXCEPT !.at = "rows", !.ids = ids])
      BY <1>1, <2>10 DEF SelectIds, At, Form
    <3> QED
      BY <2>10, <3>1 DEF SelectIds, Continue
  <2> QED
    BY <2>1, <2>2, <2>3, <2>4, <2>5, <2>6, <2>7, <2>8, <2>9, <2>10
<1> QED
  BY <1>2, <1>3, <1>5, Reads

-----------------------------------------------------------------------------
(* Configurations are private.                                             *)

LEMMA InitPInv == AddonInit => PInv
<1> SUFFICES ASSUME AddonInit PROVE PInv
  OBVIOUS
<1>1. \A w \in Workers : req[w] = Idle
  BY DEF AddonInit, ServiceInit
<1>2. Requests
  BY <1>1, IdleClaimsNothing DEF AddonInit, ServiceInit, Requests
<1>3. Types = {}
  BY DEF AddonInit, Types
<1>4. Numbers /\ RowsApart
  BY <1>3 DEF AddonInit, Numbers, RowsApart
<1> QED
  BY <1>1, <1>2, <1>4, IdleClaimsNothing DEF PInv, Claim, Agree

LEMMA NextPInv == PInv /\ [AddonNext]_addonVars => PInv'
<1> SUFFICES ASSUME PInv, [AddonNext]_addonVars PROVE PInv'
  OBVIOUS
<1>1. CASE UNCHANGED addonVars
  <2>1. Requests' /\ Numbers' /\ RowsApart'
    BY <1>1 DEF PInv, Requests, Numbers, RowsApart, Drawn, Types, SameKey,
                Form, addonVars, serviceVars
  <2>2. \A w \in Workers : Claim(req[w])'
    BY <1>1 DEF PInv, Claim, Placing, Typing, Drawn, Types, SameKey, addonVars, serviceVars
  <2>3. \A v, w \in Workers : Agree(req[v], req[w])'
    BY <1>1 DEF PInv, Agree, Placing, Typing, SameKey, addonVars, serviceVars
  <2> QED
    BY <2>1, <2>2, <2>3 DEF PInv
<1>2. ASSUME NEW w \in Workers, NEW p \in parked, Unpark(w, p) PROVE PInv'
  <2>1. /\ req' = [req EXCEPT ![w] = p.req]
        /\ UNCHANGED <<wds, addons, lastConfig>> /\ parked' \ parked = {}
    BY <1>2 DEF Unpark, Continue, tables
  <2>2. Form(p.req) /\ ~Placing(p.req) /\ ~Typing(p.req)
    BY DEF PInv, Requests, Placing, Typing
  <2> QED
    BY <2>1, <2>2, Rests
<1>3. ASSUME NEW w \in Workers, AddonCrash(w) PROVE PInv'
  <2>1. /\ req' = [req EXCEPT ![w] = Idle]
        /\ UNCHANGED <<wds, addons, lastConfig>> /\ parked' \ parked = {}
    BY <1>3 DEF AddonCrash, Answer, Continue, tables
  <2> QED
    BY <2>1, IdleClaimsNothing, Rests
<1> QED
  BY <1>1, <1>2, <1>3, ArrivalPInv, ReadingPInv, NewConfigPInv, InsertTypePInv, UpdateTypePInv,
     InsertRelationPInv, UpdateRelationPInv, DeletePInv DEF AddonNext

-----------------------------------------------------------------------------
(* Foreign keys, for any number of processes.                              *)

\* The fields of the requests that list and delete, and whom they are about.
Complete(q) ==
    /\ q.op = "get" => "todo" \in DOMAIN q /\ q.device = NullDevice
    /\ q.op \in {"install", "get", "modify"} => q.wd \in Watchdogs
    /\ q.op = "drop" => /\ {"at", "addon", "wds", "whole", "default", "ids"} \subseteq DOMAIN q
                        /\ q.whole => q.wds = Watchdogs
    /\ q.op = "types" => {"at", "ids", "none"} \subseteq DOMAIN q

\* What a row refers to is there: no DELETE may take it away.
Keys ==
    /\ \A r \in wds : r.wd \in Watchdogs /\ r.addon \in Types /\ r.config \in configs
    /\ \A a \in Types : addons[a] \in configs

KeyInv ==
    /\ alive \subseteq Workers
    /\ \A w \in Workers : Complete(req[w]) /\ (req[w] # Idle => w \in alive)
    /\ \A p \in parked : Complete(p.req) /\ p.w \in Workers
    /\ Keys

-----------------------------------------------------------------------------
(* Mandatory addons, for any number of processes.                          *)

Installed(wd, a) == \E r \in wds : r.wd = wd /\ r.addon = a

\* A getAddon has yet to look for the last ones of the mandatory addons.
Asked(q) ==
    /\ q.todo \in Seq(Addons) /\ Len(q.todo) <= Len(Mandatory)
    /\ \A i \in 1 .. Len(q.todo) : q.todo[i] = Mandatory[Len(Mandatory) - Len(q.todo) + i]
    /\ q.at # "check" => q.todo # <<>> /\ q.addon = Head(q.todo)

Earlier(q) == 1 .. Len(Mandatory) - Len(q.todo)
AllNamed(rows) == \A i \in DOMAIN Mandatory : \E r \in rows : r.addon = Mandatory[i]

\* Those before them have a relation, and so has the one that is about to be
\* updated, if nobody deleted it since.
Progress(q, w) ==
    /\ q.op = "get" =>
         /\ Asked(q)
         /\ \/ w \in disturbed
            \/ /\ \A i \in Earlier(q) : Installed(q.wd, Mandatory[i])
               /\ q.at = "update" => Installed(q.wd, q.addon)
    /\ q.op = "listed" => w \in disturbed \/ AllNamed(q.rows)

ListInv ==
    /\ \A w \in Workers : Progress(req[w], w)
    /\ \A p \in parked : Progress(p.req, p.w)

-----------------------------------------------------------------------------
(* One process: what the running request has read is still so.             *)

Stores(q)  == q.op \in {"install", "get", "modify"}
Mine(q) == RowAt(q.wd, q.addon, q.device)

FineType(q) ==
    q.op = "type" =>
      /\ q.at = "new" => q.addon \notin Types
      /\ q.at = "row" => q.addon \notin Types \/ addons[q.addon] = q.id
      /\ q.at = "update" => q.addon \in Types /\ addons[q.addon] = q.id

FineRow(q) ==
    Stores(q) =>
      /\ q.at \in {"fallback", "type", "copy", "new"} => Mine(q) = {}
      /\ q.at \in {"copy", "new", "row", "update"} => q.addon \in Types
      /\ q.at \in {"row", "update"} => \A r \in Mine(q) : r.config = q.id
      /\ q.at = "update" => Mine(q) # {}

FineDrop(q) ==
    q.op = "drop" =>
      /\ q.at \in {"ids", "rows", "addon"} \/ (q.at = "configs" /\ ~q.whole) =>
           q.addon \in Types /\ addons[q.addon] = q.default
      /\ q.at = "rows" =>
           q.ids = {r.config : r \in {s \in wds : s.addon = q.addon /\ s.wd \in q.wds}}
      /\ q.at \in {"addon", "defaults", "configs"} => q.ids \cap Referenced = {}
      /\ q.at = "addon" => \A r \in wds : r.addon # q.addon
      /\ q.at = "defaults" => q.default \notin Referenced
      /\ q.at \in {"addon", "defaults"} => q.whole

FineRead(q) == q.op = "types" => q.ids \subseteq configs /\ ~q.none

Fine(q) == FineType(q) /\ FineRow(q) /\ FineDrop(q) /\ FineRead(q)

\* The configurations that only the request knows.
Kept(q) ==
    CASE Placing(q) \/ Typing(q) -> {q.id}
      [] q.op = "drop" /\ q.at \in {"addon", "configs"} -> q.ids
      [] q.op = "drop" /\ q.at = "defaults" -> q.ids \cup {q.default}
      [] OTHER -> {}

SoleInv ==
    Sequential => \A w \in alive : /\ Fine(req[w])
                                   /\ configs \subseteq Referenced \cup lost \cup Kept(req[w])

AddonInv == PInv /\ KeyInv /\ ListInv /\ SoleInv

-----------------------------------------------------------------------------
(* One step of one process.                                                *)

LEMMA TheOnlyProcess ==
    ASSUME KeyInv, Sequential, NEW v \in alive, NEW w \in alive
    PROVE  v = w
<1>1. IsFiniteSet(alive)
  BY ServiceAssumption, FS_Subset DEF KeyInv
<1>2. PICK x : alive = {x}
  BY <1>1, FS_Singleton DEF Sequential
<1> QED
  BY <1>2

\* A request that is over owes nothing.
LEMMA IdleIsFine ==
    /\ Complete(Idle) /\ Fine(Idle) /\ Kept(Idle) = {}
    /\ \A w : Progress(Idle, w)
BY DEF Complete, Fine, FineType, FineRow, FineDrop, FineRead, Stores, Kept, Placing, Typing,
       Progress, Idle

\* Progress is lost only where a relation is, and is not marked as disturbed.
LEMMA ProgressStays ==
    ASSUME NEW q, NEW w, Progress(q, w), w \in disturbed => w \in disturbed',
           \A wd, a : Installed(wd, a) => Installed(wd, a)'
    PROVE  Progress(q, w)'
BY DEF Progress, Installed

\* Process w goes on with q.
LEMMA Turns ==
    ASSUME AddonInv, NEW w \in alive, NEW q, req' = [req EXCEPT ![w] = q], UNCHANGED alive,
           Complete(q), Keys', Progress(q, w)',
           \A v \in Workers \ {w} : \A p : p = req[v] /\ Progress(p, v) => Progress(p, v)',
           \A p \in parked' : Complete(p.req) /\ p.w \in Workers /\ Progress(p.req, p.w)',
           Sequential => /\ Fine(q)'
                         /\ configs' \subseteq Referenced' \cup lost' \cup Kept(q)
    PROVE  KeyInv' /\ ListInv' /\ SoleInv'
<1>1. w \in Workers /\ req'[w] = q /\ \A v \in Workers \ {w} : req'[v] = req[v]
  BY DEF AddonInv, PInv, Requests, KeyInv
<1>2. KeyInv'
  BY <1>1 DEF AddonInv, KeyInv, Complete
<1>3. ListInv'
  <2>1. ASSUME NEW v \in Workers PROVE Progress(req[v], v)'
    <3>1. CASE v = w
      BY <1>1, <3>1 DEF Progress, Installed
    <3>2. CASE v # w
      <4> PICK p : p = req[v]
        OBVIOUS
      <4>1. Progress(p, v)
        BY DEF AddonInv, ListInv
      <4>2. Progress(p, v)'
        BY <3>2, <4>1
      <4> QED
        BY <1>1, <3>2, <4>2 DEF Progress, Installed
    <3> QED
      BY <3>1, <3>2
  <2> QED
    BY <2>1 DEF ListInv
<1>4. SoleInv'
  <2> SUFFICES ASSUME Sequential, NEW v \in alive
               PROVE  /\ Fine(req[v])'
                      /\ configs' \subseteq Referenced' \cup lost' \cup Kept(req[v])'
    BY DEF SoleInv, Sequential
  <2>1. v = w
    BY TheOnlyProcess DEF AddonInv
  <2> QED
    BY <1>1, <2>1 DEF Fine, FineType, FineRow, FineDrop, FineRead, Stores, Mine, RowAt, Rows,
                      Types, Referenced, Kept, Placing, Typing
<1> QED
  BY <1>2, <1>3, <1>4

\* Process w goes on with q, after a statement that only reads.
LEMMA Looks ==
    ASSUME AddonInv, NEW w \in alive, NEW q, req' = [req EXCEPT ![w] = q],
           UNCHANGED <<alive, tables, disturbed>>, parked' \subseteq parked, lost \subseteq lost',
           Complete(q), Progress(q, w),
           Sequential => /\ Fine(q)
                         /\ Kept(req[w]) \cap configs \subseteq Referenced \cup lost' \cup Kept(q)
    PROVE  KeyInv' /\ ListInv' /\ SoleInv'
<1>1. Keys'
  BY DEF AddonInv, KeyInv, Keys, tables, Types
<1>2. \A p, v : Progress(p, v) => Progress(p, v)'
  BY DEF Progress, Installed, tables
<1>3. \A p \in parked' : Complete(p.req) /\ p.w \in Workers /\ Progress(p.req, p.w)'
  <2> SUFFICES ASSUME NEW p \in parked' PROVE Complete(p.req) /\ p.w \in Workers /\ Progress(p.req, p.w)'
    OBVIOUS
  <2>1. Complete(p.req) /\ p.w \in Workers /\ Progress(p.req, p.w)
    BY DEF AddonInv, KeyInv, ListInv
  <2> QED
    BY <1>2, <2>1
<1>4. Referenced' = Referenced
  BY DEF Referenced, Types, tables
<1>5. ASSUME Sequential
      PROVE  Fine(q)' /\ configs' \subseteq Referenced' \cup lost' \cup Kept(q)
  <2>1. Fine(q) /\ configs \subseteq Referenced \cup lost \cup Kept(req[w])
    BY <1>5 DEF AddonInv, SoleInv
  <2>2. Fine(q)'
    BY <2>1 DEF Fine, FineType, FineRow, FineDrop, FineRead, Stores, Mine, RowAt, Rows,
                Types, Referenced, tables
  <2>3. configs' = configs
    BY DEF tables
  <2> QED
    BY <1>4, <1>5, <2>1, <2>2, <2>3
<1> QED
  BY <1>1, <1>2, <1>3, <1>5, Turns

\* What the invariant says of a process that works.
LEMMA Known ==
    ASSUME AddonInv, NEW w \in Workers
    PROVE  /\ Form(req[w]) /\ Complete(req[w]) /\ Progress(req[w], w)
           /\ req[w].op # "idle" => w \in alive
           /\ Sequential /\ w \in alive =>
                /\ Fine(req[w])
                /\ configs \subseteq Referenced \cup lost \cup Kept(req[w])
BY DEF AddonInv, PInv, Requests, KeyInv, ListInv, SoleInv, Idle

\* A request that stores a relation goes on with it.
LEMMA StoreGoesOn ==
    ASSUME NEW r, NEW w, NEW q, Form(r), Complete(r), Progress(r, w), Stores(r),
           DOMAIN q = DOMAIN r, \A f \in DOMAIN r \ {"at", "id"} : q[f] = r[f]
    PROVE  /\ q.op = r.op /\ q.wd = r.wd /\ q.addon = r.addon /\ q.device = r.device
           /\ Complete(q) /\ Mine(q) = Mine(r) /\ Stores(q)
           /\ (r.op = "get" => r.at # "check") /\ (q.at = "update" => r.at = "update") => Progress(q, w)
<1>1. {"op", "wd", "addon", "device"} \subseteq DOMAIN r \ {"at", "id"}
  BY DEF Form, Stores
<1>2. q.op = r.op /\ q.wd = r.wd /\ q.addon = r.addon /\ q.device = r.device
  BY <1>1
<1>3. r.op = "get" => "todo" \in DOMAIN r /\ q.todo = r.todo
  BY DEF Complete
<1>4. Complete(q) /\ Mine(q) = Mine(r) /\ Stores(q)
  BY <1>2, <1>3 DEF Complete, Mine, Stores
<1>5. ASSUME r.op = "get" => r.at # "check", q.at = "update" => r.at = "update"
      PROVE  Progress(q, w)
  <2>1. CASE r.op = "get"
    <3>1. Asked(q) /\ Earlier(q) = Earlier(r)
      BY <1>2, <1>3, <1>5, <2>1 DEF Progress, Asked, Earlier
    <3> QED
      BY <1>2, <1>5, <2>1, <3>1 DEF Progress
  <2>2. CASE r.op # "get"
    BY <1>2, <2>2 DEF Stores, Progress
  <2> QED
    BY <2>1, <2>2
<1> QED
  BY <1>2, <1>4, <1>5

\* The request of process w is over.
LEMMA Ends ==
    ASSUME AddonInv, NEW w \in alive, req' = [req EXCEPT ![w] = Idle],
           UNCHANGED <<alive, tables, disturbed>>, parked' \subseteq parked, lost \subseteq lost',
           Sequential => Kept(req[w]) \cap configs \subseteq Referenced \cup lost'
    PROVE  KeyInv' /\ ListInv' /\ SoleInv'
<1> PICK q : q = Idle
  OBVIOUS
<1>1. Complete(q) /\ Fine(q) /\ Kept(q) = {} /\ Progress(q, w)
  BY IdleIsFine
<1> QED
  BY <1>1, Looks

\* A request that stores a relation goes on with its next statement.
LEMMA StoreLooks ==
    ASSUME AddonInv, NEW w \in Workers, NEW q, req' = [req EXCEPT ![w] = q],
           UNCHANGED <<alive, tables, disturbed, parked, lost>>,
           Stores(req[w]), req[w].at \in {"type", "copy", "fallback"}, q.at \in {"copy", "new"},
           DOMAIN q = DOMAIN req[w], \A f \in DOMAIN req[w] \ {"at", "id"} : q[f] = req[w][f],
           Sequential => q.addon \in Types
    PROVE  KeyInv' /\ ListInv' /\ SoleInv'
<1> PICK m : m = req[w]
  OBVIOUS
<1>1. w \in alive /\ Form(m) /\ Complete(m) /\ Progress(m, w) /\ (Sequential => FineRow(m))
  BY Known DEF Stores, Fine
<1>2. Kept(m) = {}
  BY DEF Kept, Stores, Placing, Typing
<1>3. Complete(q) /\ Mine(q) = Mine(m) /\ Progress(q, w) /\ Stores(q)
  BY <1>1, StoreGoesOn
<1>4. Sequential => Fine(q)
  BY <1>1, <1>3 DEF Fine, FineType, FineRow, FineDrop, FineRead, Stores
<1> QED
  BY <1>1, <1>2, <1>3, <1>4, Looks

LEMMA SelectTypeInv ==
    ASSUME AddonInv, NEW w \in Workers, SelectType(w)
    PROVE  KeyInv' /\ ListInv' /\ SoleInv'
<1> PICK m : m = req[w]
  OBVIOUS
<1>1. /\ Stores(m) /\ m.at = "type" /\ w \in alive /\ Form(m)
      /\ UNCHANGED <<alive, tables, disturbed, parked, lost>>
  BY Known DEF SelectType, Stores, hist, Continue, Answer
<1>2. CASE m.addon \in Types
  <2> PICK q : q = [m EXCEPT !.at = "copy", !.id = addons[m.addon]]
    OBVIOUS
  <2>1. {"at", "id"} \subseteq DOMAIN m
    BY <1>1 DEF Form, Stores
  <2>2. /\ DOMAIN q = DOMAIN m /\ \A f \in DOMAIN m \ {"at", "id"} : q[f] = m[f]
        /\ q.at = "copy"
    BY <2>1
  <2>3. req' = [req EXCEPT ![w] = q] /\ q.addon \in Types
    BY <1>1, <1>2, <2>2 DEF SelectType, Continue, Form, Stores
  <2> QED
    BY <1>1, <2>2, <2>3, StoreLooks
<1>3. CASE m.addon \notin Types
  <2>1. req' = [req EXCEPT ![w] = Idle] /\ Kept(m) = {}
    BY <1>1, <1>3 DEF SelectType, Answer, Continue, Kept, Stores, Placing, Typing
  <2> QED
    BY <1>1, <2>1, Ends
<1> QED
  BY <1>2, <1>3

LEMMA CopyConfigInv ==
    ASSUME AddonInv, NEW w \in Workers, CopyConfig(w)
    PROVE  KeyInv' /\ ListInv' /\ SoleInv'
<1> PICK m : m = req[w]
  OBVIOUS
<1>1. /\ Stores(m) /\ m.at = "copy" /\ w \in alive /\ Form(m) /\ (Sequential => FineRow(m))
      /\ UNCHANGED <<alive, tables, disturbed, parked, lost>>
  BY Known DEF CopyConfig, Stores, hist, Continue, Answer, Goto, Fine
<1>2. CASE m.id \in configs
  <2> PICK q : q = [m EXCEPT !.at = "new"]
    OBVIOUS
  <2>1. /\ DOMAIN q = DOMAIN m /\ \A f \in DOMAIN m \ {"at", "id"} : q[f] = m[f]
        /\ q.at = "new" /\ q.addon = m.addon
    BY <1>1 DEF Form, Stores
  <2>2. req' = [req EXCEPT ![w] = q] /\ (Sequential => q.addon \in Types)
    BY <1>1, <1>2, <2>1 DEF CopyConfig, Goto, Continue, FineRow
  <2> QED
    BY <1>1, <2>1, <2>2, StoreLooks
<1>3. CASE m.id \notin configs
  <2>1. req' = [req EXCEPT ![w] = Idle] /\ Kept(m) = {}
    BY <1>1, <1>3 DEF CopyConfig, Answer, Continue, Kept, Stores, Placing, Typing
  <2> QED
    BY <1>1, <2>1, Ends
<1> QED
  BY <1>2, <1>3

LEMMA FallbackRead ==
    ASSUME NEW w \in Workers, SelectFallback(w)
    PROVE  /\ At(w, "modify", "fallback") /\ UNCHANGED <<tables, parked, hist>>
           /\ RowAt(req[w].wd, req[w].addon, NullDevice) = {} => Answer(w)
           /\ RowAt(req[w].wd, req[w].addon, NullDevice) # {} =>
                \E s \in RowAt(req[w].wd, req[w].addon, NullDevice) :
                  Goto(w, "new") \/ Continue(w, [req[w] EXCEPT !.at = "copy", !.id = s.config])
<1>1. At(w, "modify", "fallback")
  BY DEF SelectFallback
<1>2. UNCHANGED <<tables, parked, hist>>
  BY DEF SelectFallback
<1>3. ASSUME RowAt(req[w].wd, req[w].addon, NullDevice) = {} PROVE Answer(w)
  BY <1>3, Zenon DEF SelectFallback
<1>4. ASSUME RowAt(req[w].wd, req[w].addon, NullDevice) # {}
      PROVE  \E s \in RowAt(req[w].wd, req[w].addon, NullDevice) :
               Goto(w, "new") \/ Continue(w, [req[w] EXCEPT !.at = "copy", !.id = s.config])
  <2>1. \E s \in RowAt(req[w].wd, req[w].addon, NullDevice) :
          IF req[w].config THEN Goto(w, "new")
          ELSE Continue(w, [req[w] EXCEPT !.at = "copy", !.id = s.config])
    BY <1>4, Zenon DEF SelectFallback
  <2> QED
    BY <2>1, Zenon
<1> QED
  BY <1>1, <1>2, <1>3, <1>4, Zenon

LEMMA SelectFallbackInv ==
    ASSUME AddonInv, NEW w \in Workers, SelectFallback(w)
    PROVE  KeyInv' /\ ListInv' /\ SoleInv'
<1> PICK m : m = req[w]
  OBVIOUS
<1>1. At(w, "modify", "fallback") /\ UNCHANGED <<tables, parked, hist>>
  BY FallbackRead
<1>2. Stores(m) /\ m.at = "fallback" /\ w \in alive /\ Form(m)
  BY <1>1, Known DEF At, Stores
<1>3. CASE RowAt(m.wd, m.addon, NullDevice) = {}
  <2>1. Answer(w)
    BY <1>3, FallbackRead
  <2>2. Kept(m) = {}
    BY <1>2 DEF Kept, Stores, Placing, Typing
  <2> QED
    BY <1>1, <1>2, <2>1, <2>2, Ends DEF Answer, Continue, hist
<1>4. CASE RowAt(m.wd, m.addon, NullDevice) # {}
  <2>1. PICK null \in RowAt(req[w].wd, req[w].addon, NullDevice) :
          \/ Goto(w, "new")
          \/ Continue(w, [req[w] EXCEPT !.at = "copy", !.id = null.config])
    BY <1>4, FallbackRead
  <2>2. m.addon \in Types
    BY <2>1 DEF RowAt, Rows, AddonInv, KeyInv, Keys
  <2> PICK new, copy : new = [m EXCEPT !.at = "new"] /\ copy = [m EXCEPT !.at = "copy", !.id = null.config]
    OBVIOUS
  <2>3. {"at", "id", "addon"} \subseteq DOMAIN m
    BY <1>2 DEF Form, Stores
  <2>4. /\ DOMAIN new = DOMAIN m /\ (\A f \in DOMAIN m \ {"at", "id"} : new[f] = m[f]) /\ new.at = "new"
        /\ DOMAIN copy = DOMAIN m /\ (\A f \in DOMAIN m \ {"at", "id"} : copy[f] = m[f]) /\ copy.at = "copy"
    BY <2>3
  <2>5. /\ req' = [req EXCEPT ![w] = new] \/ req' = [req EXCEPT ![w] = copy]
        /\ UNCHANGED alive
    BY <2>1 DEF Goto, Continue
  <2>6. new.addon = m.addon /\ copy.addon = m.addon
    BY <2>3, <2>4
  <2> QED
    BY <1>1, <1>2, <2>2, <2>4, <2>5, <2>6, StoreLooks DEF hist
<1> QED
  BY <1>3, <1>4

\* getAddon goes on with the next of the mandatory addons.
LEMMA NextEarlier ==
    ASSUME NEW m, NEW q, Asked(m), m.todo # <<>>, q.todo = Tail(m.todo), q.at = "check"
    PROVE  /\ Asked(q)
           /\ \A i \in Earlier(q) : i \in Earlier(m) \/ Mandatory[i] = Head(m.todo)
<1>1. /\ m.todo \in Seq(Addons) /\ Len(m.todo) <= Len(Mandatory)
      /\ \A i \in 1 .. Len(m.todo) : m.todo[i] = Mandatory[Len(Mandatory) - Len(m.todo) + i]
      /\ Mandatory \in Seq(Addons)
  BY AddonAssumption DEF Asked
<1>2. /\ q.todo \in Seq(Addons) /\ Len(q.todo) = Len(m.todo) - 1 /\ Len(m.todo) \in Nat \ {0}
      /\ \A i \in 1 .. Len(q.todo) : q.todo[i] = m.todo[i + 1]
      /\ Len(Mandatory) \in Nat
  BY <1>1
<1>3. Asked(q)
  <2>1. ASSUME NEW i \in 1 .. Len(q.todo)
        PROVE  q.todo[i] = Mandatory[Len(Mandatory) - Len(q.todo) + i]
    <3> PICK n, k : n = Len(q.todo) /\ k = Len(Mandatory)
      OBVIOUS
    <3>0. n \in Nat /\ k \in Nat
      BY <1>2
    <3>1. n \in Nat /\ k \in Nat /\ Len(q.todo) = n /\ Len(m.todo) = n + 1 /\ Len(Mandatory) = k
      BY <1>2, <3>0
    <3>2. i \in 1 .. n /\ i + 1 \in 1 .. n + 1 /\ k - (n + 1) + (i + 1) = k - n + i
      BY <3>1
    <3>3. q.todo[i] = m.todo[i + 1]
      BY <1>2
    <3>4. m.todo[i + 1] = Mandatory[k - (n + 1) + (i + 1)]
      BY <1>1, <3>1, <3>2
    <3> QED
      BY <3>1, <3>2, <3>3, <3>4
  <2>2. Len(q.todo) <= Len(Mandatory)
    BY <1>1, <1>2
  <2> QED
    BY <1>2, <2>1, <2>2 DEF Asked
<1>4. ASSUME NEW i \in Earlier(q), i \notin Earlier(m) PROVE Mandatory[i] = Head(m.todo)
  <2>1. i = Len(Mandatory) - Len(m.todo) + 1 /\ 1 \in 1 .. Len(m.todo)
    <3> PICK n, k, j : n = Len(q.todo) /\ k = Len(Mandatory) /\ j = Len(m.todo)
      OBVIOUS
    <3>1. n \in Nat /\ k \in Nat /\ j = n + 1
      BY <1>2
    <3>2. i \in 1 .. k - n /\ ~(i \in 1 .. k - j)
      BY <1>4 DEF Earlier
    <3>3. i = k - j + 1 /\ 1 \in 1 .. j
      BY <3>1, <3>2
    <3> QED
      BY <3>3
  <2>2. Mandatory[i] = m.todo[1]
    BY <1>1, <2>1
  <2>3. Head(m.todo) = m.todo[1]
    BY <1>1
  <2> QED
    BY <2>2, <2>3
<1> QED
  BY <1>3, <1>4

LEMMA NextAsked ==
    ASSUME NEW m, NEW q, NEW w, Progress(m, w), m.op = "get", q.op = "get", m.todo # <<>>,
           q.todo = Tail(m.todo), q.wd = m.wd, q.at = "check",
           w \in disturbed \/ Installed(m.wd, Head(m.todo))
    PROVE  Progress(q, w)
<1>1. Asked(q) /\ \A i \in Earlier(q) : i \in Earlier(m) \/ Mandatory[i] = Head(m.todo)
  BY NextEarlier DEF Progress
<1> QED
  BY <1>1 DEF Progress

\* A getAddon looks for the relation of the next addon.
LEMMA GetLooks ==
    ASSUME AddonInv, NEW w \in Workers, NEW q, req' = [req EXCEPT ![w] = q],
           UNCHANGED <<alive, tables, disturbed, parked, lost>>,
           req[w].op = "get", req[w].at \in {"check", "null"},
           DOMAIN q = DOMAIN req[w],
           \A f \in DOMAIN req[w] \ {"at", "todo", "addon"} : q[f] = req[w][f],
           q.at \in {"check", "null", "type"}, Progress(q, w),
           Sequential /\ q.at = "type" => Mine(q) = {}
    PROVE  KeyInv' /\ ListInv' /\ SoleInv'
<1> PICK m : m = req[w]
  OBVIOUS
<1>1. w \in alive /\ Form(m) /\ Complete(m)
  BY Known
<1>2. Kept(m) = {}
  BY DEF Kept, Placing, Typing
<1>3. q.op = "get" /\ q.wd = m.wd /\ q.device = m.device
  BY <1>1 DEF Form
<1>4. Complete(q)
  BY <1>1, <1>3 DEF Complete
<1>5. Sequential => Fine(q)
  BY <1>1, <1>3 DEF Fine, FineType, FineRow, FineDrop, FineRead, Stores
<1> QED
  BY <1>1, <1>2, <1>4, <1>5, Looks

LEMMA CheckMandatoryInv ==
    ASSUME AddonInv, NEW w \in Workers, CheckMandatory(w)
    PROVE  KeyInv' /\ ListInv' /\ SoleInv'
<1> PICK m : m = req[w]
  OBVIOUS
<1>1. /\ m.op = "get" /\ m.at = "check" /\ m.todo # <<>> /\ Form(m) /\ Complete(m) /\ Progress(m, w)
      /\ UNCHANGED <<alive, tables, disturbed, parked, lost>>
  BY Known DEF CheckMandatory, At, hist, Continue
<1>2. {"op", "at", "wd", "addon", "todo"} \subseteq DOMAIN m
  BY <1>1 DEF Form, Complete
<1>3. CASE RowAt(m.wd, Head(m.todo), m.dev) # {}
  <2> DEFINE q == [m EXCEPT !.todo = Tail(m.todo)]
  <2>1. /\ DOMAIN q = DOMAIN m /\ q.todo = Tail(m.todo) /\ q.at = "check"
        /\ \A f \in DOMAIN m \ {"todo"} : q[f] = m[f]
    BY <1>1, <1>2
  <2>2. q.op = "get" /\ q.wd = m.wd
    BY <1>1, <1>2, <2>1
  <2>3. Installed(m.wd, Head(m.todo))
    BY <1>3 DEF RowAt, Rows, Installed
  <2>4. req' = [req EXCEPT ![w] = q]
    BY <1>3 DEF CheckMandatory, Continue
  <2> HIDE DEF q
  <2>5. Progress(q, w)
    BY <1>1, <2>1, <2>2, <2>3, NextAsked
  <2> QED
    BY <1>1, <2>1, <2>4, <2>5, GetLooks
<1>4. CASE RowAt(m.wd, Head(m.todo), m.dev) = {}
  <2> PICK q : q = [m EXCEPT !.at = "null", !.addon = Head(m.todo)]
    OBVIOUS
  <2>1. /\ DOMAIN q = DOMAIN m /\ q.at = "null" /\ q.addon = Head(m.todo)
        /\ \A f \in DOMAIN m \ {"at", "addon"} : q[f] = m[f]
    BY <1>1, <1>2
  <2>2. q.op = "get" /\ q.wd = m.wd /\ q.todo = m.todo
    BY <1>1, <1>2, <2>1
  <2>3. Asked(q) /\ Earlier(q) = Earlier(m)
    BY <1>1, <2>1, <2>2 DEF Progress, Asked, Earlier
  <2>4. Progress(q, w)
    BY <1>1, <2>1, <2>2, <2>3 DEF Progress
  <2>5. req' = [req EXCEPT ![w] = q]
    BY <1>4 DEF CheckMandatory, Continue
  <2> QED
    BY <1>1, <2>1, <2>4, <2>5, GetLooks
<1> QED
  BY <1>3, <1>4

LEMMA CheckFallbackInv ==
    ASSUME AddonInv, NEW w \in Workers, CheckFallback(w)
    PROVE  KeyInv' /\ ListInv' /\ SoleInv'
<1> PICK m : m = req[w]
  OBVIOUS
<1>1. /\ m.op = "get" /\ m.at = "null" /\ Form(m) /\ Complete(m) /\ Progress(m, w)
      /\ UNCHANGED <<alive, tables, disturbed, parked, lost>>
  BY Known DEF CheckFallback, At, hist, Continue, Goto
<1>2. {"op", "at", "wd", "addon", "device", "todo"} \subseteq DOMAIN m
  BY <1>1 DEF Form, Complete
<1>3. m.todo # <<>> /\ m.addon = Head(m.todo)
  BY <1>1 DEF Progress, Asked
<1>4. CASE RowAt(m.wd, m.addon, NullDevice) # {}
  <2> DEFINE q == [m EXCEPT !.at = "check", !.todo = Tail(m.todo)]
  <2>1. /\ DOMAIN q = DOMAIN m /\ q.todo = Tail(m.todo) /\ q.at = "check"
        /\ \A f \in DOMAIN m \ {"at", "todo"} : q[f] = m[f]
    BY <1>1, <1>2
  <2>2. q.op = "get" /\ q.wd = m.wd
    BY <1>1, <1>2, <2>1
  <2>3. Installed(m.wd, Head(m.todo))
    BY <1>3, <1>4 DEF RowAt, Rows, Installed
  <2>4. req' = [req EXCEPT ![w] = q]
    BY <1>4 DEF CheckFallback, Continue
  <2> HIDE DEF q
  <2>5. Progress(q, w)
    BY <1>1, <1>3, <2>1, <2>2, <2>3, NextAsked
  <2> QED
    BY <1>1, <2>1, <2>4, <2>5, GetLooks
<1>5. CASE RowAt(m.wd, m.addon, NullDevice) = {}
  <2> PICK q : q = [m EXCEPT !.at = "type"]
    OBVIOUS
  <2>1. /\ DOMAIN q = DOMAIN m /\ q.at = "type" /\ \A f \in DOMAIN m \ {"at"} : q[f] = m[f]
    BY <1>1, <1>2
  <2>2. q.op = "get" /\ q.wd = m.wd /\ q.todo = m.todo /\ q.addon = m.addon /\ q.device = m.device
    BY <1>1, <1>2, <2>1
  <2>3. Asked(q) /\ Earlier(q) = Earlier(m)
    BY <1>1, <1>3, <2>1, <2>2 DEF Progress, Asked, Earlier
  <2>4. Progress(q, w)
    BY <1>1, <2>1, <2>2, <2>3 DEF Progress
  <2>5. req' = [req EXCEPT ![w] = q]
    BY <1>5 DEF CheckFallback, Goto, Continue
  <2>6. Mine(q) = {}
    BY <1>1, <1>5, <2>2 DEF Mine, Complete
  <2> QED
    BY <1>1, <2>1, <2>4, <2>5, <2>6, GetLooks
<1> QED
  BY <1>4, <1>5

\* The handler that awaited the delivery of its message goes on.
LEMMA UnparkInv ==
    ASSUME AddonInv, NEW w \in Workers, NEW p \in parked, Unpark(w, p)
    PROVE  KeyInv' /\ ListInv' /\ SoleInv'
<1>1. /\ w \in alive /\ req[w] = Idle /\ p.w = w /\ req' = [req EXCEPT ![w] = p.req]
      /\ UNCHANGED <<alive, tables, disturbed, lost>> /\ parked' \subseteq parked
  BY DEF Unpark, Free, Continue, hist
<1>2. /\ Complete(p.req) /\ Progress(p.req, w) /\ Kept(req[w]) = {}
  BY <1>1, IdleIsFine DEF AddonInv, KeyInv, ListInv
<1>3. p.req.op = "get" /\ p.req.at = "check"
  BY DEF AddonInv, PInv, Requests
<1>4. Fine(p.req)
  BY <1>3 DEF Fine, FineType, FineRow, FineDrop, FineRead
<1> QED
  BY <1>1, <1>2, <1>4, Looks

LEMMA CrashInv ==
    ASSUME AddonInv, NEW w \in Workers, AddonCrash(w)
    PROVE  KeyInv' /\ ListInv' /\ SoleInv'
<1>1. /\ w \in alive /\ req' = [req EXCEPT ![w] = Idle] /\ UNCHANGED <<alive, tables, disturbed>>
      /\ parked' \subseteq parked /\ lost' = lost \cup (Held(w) \cap configs)
  BY DEF AddonCrash, Answer, Continue
<1>2. Kept(req[w]) \subseteq Held(w)
  BY DEF Kept, Held, Placing, Typing
<1> QED
  BY <1>1, <1>2, Ends

\* The rest of getAddon, getType, and of what uninstall and remove note first.
LEMMA ListAddonsInv ==
    ASSUME AddonInv, NEW w \in Workers, ListAddons(w)
    PROVE  KeyInv' /\ ListInv' /\ SoleInv'
<1> PICK m : m = req[w]
  OBVIOUS
<1>1. /\ m.op = "get" /\ m.at = "check" /\ m.todo = <<>> /\ Progress(m, w) /\ w \in alive
      /\ UNCHANGED <<alive, tables, disturbed, parked, lost>>
  BY Known DEF ListAddons, At, hist, Continue, Answer
<1>2. Kept(m) = {}
  BY <1>1 DEF Kept, Placing, Typing
<1>3. CASE m.dev = NoDevice
  <2> DEFINE q == [op |-> "listed", rows |-> {r \in wds : r.wd = m.wd}]
  <2>1. req' = [req EXCEPT ![w] = q] /\ q.op = "listed"
    BY <1>3 DEF ListAddons, Continue
  <2>2. w \in disturbed \/ AllNamed(q.rows)
    <3>1. Earlier(m) = DOMAIN Mandatory
      BY <1>1, AddonAssumption DEF Earlier
    <3> QED
      BY <1>1, <3>1 DEF Progress, Installed, AllNamed
  <2> HIDE DEF q
  <2>3. Complete(q) /\ Progress(q, w) /\ Fine(q)
    BY <2>1, <2>2 DEF Complete, Progress, Fine, FineType, FineRow, FineDrop, FineRead, Stores
  <2> QED
    BY <1>1, <1>2, <2>1, <2>3, Looks
<1>4. CASE m.dev # NoDevice
  <2>1. req' = [req EXCEPT ![w] = Idle]
    BY <1>4 DEF ListAddons, Answer, Continue
  <2> QED
    BY <1>1, <1>2, <2>1, Ends
<1> QED
  BY <1>3, <1>4

LEMMA AnswersInv ==
    ASSUME AddonInv, NEW w \in Workers, SendList(w) \/ SendTypes(w)
    PROVE  KeyInv' /\ ListInv' /\ SoleInv'
<1>1. req[w].op \in {"listed", "types"} /\ Answer(w) /\ UNCHANGED <<tables, parked, hist>>
  BY DEF SendList, SendTypes, At
<1>2. w \in alive /\ Kept(req[w]) = {}
  BY <1>1, Known DEF Kept, Placing, Typing
<1> QED
  BY <1>1, <1>2, Ends DEF Answer, Continue, hist

LEMMA SelectConfigInv ==
    ASSUME AddonInv, NEW w \in Workers, SelectConfig(w)
    PROVE  KeyInv' /\ ListInv' /\ SoleInv'
<1> PICK m : m = req[w]
  OBVIOUS
<1>1. /\ m.op = "types" /\ ~m.none /\ Form(m) /\ Complete(m) /\ w \in alive
      /\ Sequential => m.ids \subseteq configs
      /\ UNCHANGED <<tables, disturbed, parked, lost>>
  BY Known DEF SelectConfig, At, hist, Fine, FineRead
<1>2. PICK id \in m.ids : Continue(w, IF id \in configs THEN [m EXCEPT !.ids = @ \ {id}]
                                      ELSE [m EXCEPT !.none = TRUE])
  BY DEF SelectConfig
<1> DEFINE q == IF id \in configs THEN [m EXCEPT !.ids = @ \ {id}] ELSE [m EXCEPT !.none = TRUE]
<1>3. {"op", "at", "ids", "none"} \subseteq DOMAIN m
  BY <1>1 DEF Form, Complete
<1>4. /\ q.op = "types" /\ DOMAIN q = DOMAIN m
      /\ id \in configs => q.ids \subseteq m.ids /\ q.none = m.none
  BY <1>1, <1>3
<1>5. req' = [req EXCEPT ![w] = q] /\ UNCHANGED alive
  BY <1>2 DEF Continue
<1> HIDE DEF q
<1>6. Complete(q) /\ Progress(q, w)
  BY <1>3, <1>4 DEF Complete, Progress
<1>7. Sequential => Fine(q)
  BY <1>1, <1>2, <1>4 DEF Fine, FineType, FineRow, FineDrop, FineRead, Stores
<1>8. Kept(m) = {}
  BY <1>1 DEF Kept, Placing, Typing
<1> QED
  BY <1>1, <1>5, <1>6, <1>7, <1>8, Looks

LEMMA NotingInv ==
    ASSUME AddonInv, NEW w \in Workers, SelectDefault(w) \/ SelectIds(w)
    PROVE  KeyInv' /\ ListInv' /\ SoleInv'
<1> PICK m : m = req[w]
  OBVIOUS
<1>1. /\ m.op = "drop" /\ m.at \in {"default", "ids"} /\ Form(m) /\ Complete(m) /\ w \in alive
      /\ Sequential => FineDrop(m)
      /\ UNCHANGED <<tables, disturbed, parked, lost>>
  BY Known DEF SelectDefault, SelectIds, At, hist, Fine
<1>2. Kept(m) = {}
  BY <1>1 DEF Kept, Placing, Typing
<1>3. {"op", "at", "addon", "wds", "whole", "default", "ids"} \subseteq DOMAIN m
  BY <1>1 DEF Form, Complete
<1>4. ASSUME NEW q, req' = [req EXCEPT ![w] = q], UNCHANGED alive, DOMAIN q = DOMAIN m, q.op = "drop",
             q.wds = m.wds, q.whole = m.whole, Sequential => FineDrop(q), q.at \in {"ids", "rows"}
      PROVE  KeyInv' /\ ListInv' /\ SoleInv'
  <2>1. Complete(q) /\ Progress(q, w)
    BY <1>1, <1>3, <1>4 DEF Complete, Progress
  <2>2. Sequential => Fine(q)
    BY <1>4 DEF Fine, FineType, FineRow, FineRead, Stores
  <2> QED
    BY <1>1, <1>2, <1>4, <2>1, <2>2, Looks
<1>5. CASE SelectDefault(w) /\ m.addon \in Types
  <2> DEFINE q == [m EXCEPT !.at = "ids", !.default = addons[m.addon]]
  <2>1. /\ DOMAIN q = DOMAIN m /\ q.op = "drop" /\ q.wds = m.wds /\ q.whole = m.whole
        /\ q.at = "ids" /\ q.addon = m.addon /\ q.default = addons[m.addon]
    BY <1>1, <1>3
  <2>2. req' = [req EXCEPT ![w] = q] /\ UNCHANGED alive
    BY <1>5 DEF SelectDefault, Continue
  <2> HIDE DEF q
  <2>3. FineDrop(q)
    BY <1>5, <2>1 DEF FineDrop
  <2> QED
    BY <1>4, <2>1, <2>2, <2>3
<1>6. CASE SelectDefault(w) /\ m.addon \notin Types
  <2>1. req' = [req EXCEPT ![w] = Idle] /\ UNCHANGED alive
    BY <1>6 DEF SelectDefault, Answer, Continue
  <2> QED
    BY <1>1, <1>2, <2>1, Ends
<1>7. CASE SelectIds(w)
  <2> DEFINE q == [m EXCEPT !.at = "rows", !.ids = {r.config : r \in Dropped(w)}]
  <2>1. /\ DOMAIN q = DOMAIN m /\ q.op = "drop" /\ q.wds = m.wds /\ q.whole = m.whole /\ q.at = "rows"
        /\ q.addon = m.addon /\ q.default = m.default /\ q.ids = {r.config : r \in Dropped(w)}
    BY <1>1, <1>3
  <2>2. req' = [req EXCEPT ![w] = q] /\ UNCHANGED alive /\ m.at = "ids"
    BY <1>7 DEF SelectIds, At, Continue
  <2> HIDE DEF q
  <2>3. Dropped(w) = {s \in wds : s.addon = q.addon /\ s.wd \in q.wds}
    BY <2>1 DEF Dropped
  <2>4. Sequential => FineDrop(q)
    BY <1>1, <2>1, <2>2, <2>3 DEF FineDrop
  <2> QED
    BY <1>4, <2>1, <2>2, <2>4
<1> QED
  BY <1>5, <1>6, <1>7

\* A process that is free takes a request.
LEMMA Takes ==
    ASSUME AddonInv, NEW w \in Workers, NEW q, Receive(w, q),
           UNCHANGED <<tables, disturbed, parked, lost>>, Complete(q), Progress(q, w),
           Sequential => Fine(q)
    PROVE  KeyInv' /\ ListInv' /\ SoleInv'
<1>1. /\ w \in alive /\ req[w] = Idle /\ UNCHANGED alive
      /\ req' = [req EXCEPT ![w] = q]
  BY DEF Receive, Free
<1>2. Kept(req[w]) = {}
  BY <1>1, IdleIsFine
<1> QED
  BY <1>1, <1>2, Looks

LEMMA TypeArrivesInv ==
    ASSUME AddonInv, NEW w \in Workers, NEW a \in Addons, ModifyType(w, a)
    PROVE  KeyInv' /\ ListInv' /\ SoleInv'
<1> DEFINE q == IF a \in Types THEN [op |-> "type", at |-> "row", addon |-> a, id |-> addons[a]]
                ELSE [op |-> "type", at |-> "new", addon |-> a, id |-> 0]
<1>1. Receive(w, q) /\ UNCHANGED <<tables, disturbed, parked, lost>>
  BY DEF ModifyType, hist
<1>2. /\ q.op = "type" /\ q.addon = a /\ q.at \in {"row", "new"}
      /\ q.at = "row" => q.id = addons[a]
      /\ q.at = "new" => a \notin Types
  OBVIOUS
<1> HIDE DEF q
<1>3. Complete(q) /\ Progress(q, w) /\ Fine(q)
  BY <1>2 DEF Complete, Progress, Fine, FineType, FineRow, FineDrop, FineRead, Stores
<1> QED
  BY <1>1, <1>3, Takes

LEMMA DropArrivesInv ==
    ASSUME AddonInv, NEW w \in Workers, NEW a \in Addons,
           RemoveType(w, a) \/ \E wd \in Watchdogs : Uninstall(w, wd, a)
    PROVE  KeyInv' /\ ListInv' /\ SoleInv'
<1>1. ASSUME NEW whose, NEW whole, whole => whose = Watchdogs,
             Receive(w, [op |-> "drop", at |-> "default", addon |-> a, wds |-> whose, whole |-> whole,
                         default |-> 0, ids |-> {}]),
             UNCHANGED <<tables, disturbed, parked, lost>>
      PROVE  KeyInv' /\ ListInv' /\ SoleInv'
  <2> DEFINE q == [op |-> "drop", at |-> "default", addon |-> a, wds |-> whose, whole |-> whole,
                   default |-> 0, ids |-> {}]
  <2>1. q.op = "drop" /\ q.at = "default" /\ q.wds = whose /\ q.whole = whole
        /\ DOMAIN q = {"op", "at", "addon", "wds", "whole", "default", "ids"}
    OBVIOUS
  <2>2. Receive(w, q)
    BY <1>1
  <2> HIDE DEF q
  <2>3. Complete(q) /\ Progress(q, w) /\ Fine(q)
    BY <1>1, <2>1 DEF Complete, Progress, Fine, FineType, FineRow, FineDrop, FineRead, Stores
  <2> QED
    BY <1>1, <2>2, <2>3, Takes
<1>2. CASE RemoveType(w, a)
  BY <1>1, <1>2 DEF RemoveType, hist
<1>3. ASSUME NEW wd \in Watchdogs, Uninstall(w, wd, a) PROVE KeyInv' /\ ListInv' /\ SoleInv'
  BY <1>1, <1>3 DEF Uninstall, hist
<1> QED
  BY <1>2, <1>3

LEMMA InstallArrivesInv ==
    ASSUME AddonInv, NEW w \in Workers, NEW wd \in Watchdogs, NEW a \in Addons, Install(w, wd, a)
    PROVE  KeyInv' /\ ListInv' /\ SoleInv'
<1> DEFINE q == [op |-> "install", at |-> "type", wd |-> wd, addon |-> a, device |-> NullDevice, id |-> 0]
<1>1. Receive(w, q) /\ UNCHANGED <<tables, disturbed, parked, lost>> /\ Rows(wd, a) = {}
  BY DEF Install, hist
<1>2. q.op = "install" /\ q.at = "type" /\ q.wd = wd /\ q.addon = a /\ q.device = NullDevice
  OBVIOUS
<1> HIDE DEF q
<1>3. Mine(q) = {}
  BY <1>1, <1>2 DEF Mine, RowAt
<1>4. Complete(q) /\ Progress(q, w) /\ Fine(q)
  BY <1>2, <1>3 DEF Complete, Progress, Fine, FineType, FineRow, FineDrop, FineRead, Stores
<1> QED
  BY <1>1, <1>4, Takes

LEMMA ModifyArrivesInv ==
    ASSUME AddonInv, NEW w \in Workers, NEW wd \in Watchdogs, NEW a \in Addons, NEW d,
           NEW config, ModifyAddon(w, wd, a, d, config)
    PROVE  KeyInv' /\ ListInv' /\ SoleInv'
<1>1. UNCHANGED <<tables, disturbed, parked, lost>>
  BY DEF ModifyAddon, hist
<1>2. ASSUME NEW r \in RowAt(wd, a, d),
             Receive(w, [op |-> "modify", at |-> "row", wd |-> wd, addon |-> a,
                         device |-> d, id |-> r.config, config |-> config])
      PROVE  KeyInv' /\ ListInv' /\ SoleInv'
  <2> DEFINE q == [op |-> "modify", at |-> "row", wd |-> wd, addon |-> a,
                   device |-> d, id |-> r.config, config |-> config]
  <2>1. /\ q.op = "modify" /\ q.at = "row" /\ q.wd = wd /\ q.addon = a /\ q.device = d
        /\ q.id = r.config
    OBVIOUS
  <2>2. Receive(w, q)
    BY <1>2
  <2> HIDE DEF q
  <2>3. q.addon \in Types
    BY <2>1 DEF RowAt, Rows, AddonInv, KeyInv, Keys
  <2>4. \A s \in Mine(q) : s.config = q.id
    BY <2>1 DEF Mine, RowAt, Rows, AddonInv, PInv, RowsApart, SameKey
  <2>5. Complete(q) /\ Progress(q, w) /\ Fine(q)
    BY <2>1, <2>3, <2>4 DEF Complete, Progress, Fine, FineType, FineRow, FineDrop, FineRead, Stores
  <2> QED
    BY <1>1, <2>2, <2>5, Takes
<1>3. ASSUME RowAt(wd, a, d) = {},
             Receive(w, [op |-> "modify", at |-> "fallback", wd |-> wd, addon |-> a,
                         device |-> d, id |-> 0, config |-> config])
      PROVE  KeyInv' /\ ListInv' /\ SoleInv'
  <2> DEFINE q == [op |-> "modify", at |-> "fallback", wd |-> wd, addon |-> a,
                   device |-> d, id |-> 0, config |-> config]
  <2>1. q.op = "modify" /\ q.at = "fallback" /\ q.wd = wd /\ q.addon = a /\ q.device = d
    OBVIOUS
  <2>2. Receive(w, q)
    BY <1>3
  <2> HIDE DEF q
  <2>3. Complete(q) /\ Progress(q, w) /\ Fine(q)
    BY <1>3, <2>1 DEF Complete, Progress, Fine, FineType, FineRow, FineDrop, FineRead, Stores, Mine
  <2> QED
    BY <1>1, <2>2, <2>3, Takes
<1> QED
  BY <1>2, <1>3 DEF ModifyAddon

LEMMA GetTypeInv ==
    ASSUME AddonInv, NEW w \in Workers, NEW as, GetType(w, as)
    PROVE  KeyInv' /\ ListInv' /\ SoleInv'
<1> DEFINE q == [op |-> "types", at |-> "configs", ids |-> {addons[a] : a \in as}, none |-> FALSE]
<1>1. Receive(w, q) /\ UNCHANGED <<tables, disturbed, parked, lost>> /\ as \subseteq Types
  BY DEF GetType, hist
<1>2. /\ q.op = "types" /\ DOMAIN q = {"op", "at", "ids", "none"} /\ ~q.none
      /\ q.ids = {addons[a] : a \in as}
  OBVIOUS
<1> HIDE DEF q
<1>3. q.ids \subseteq configs
  BY <1>1, <1>2 DEF AddonInv, KeyInv, Keys
<1>4. Complete(q) /\ Progress(q, w) /\ Fine(q)
  BY <1>2, <1>3 DEF Complete, Progress, Fine, FineType, FineRow, FineDrop, FineRead, Stores
<1> QED
  BY <1>1, <1>4, Takes

\* getAddon starts with all mandatory addons to look for; nothing of this process
\* was disturbed unless an earlier request of it awaits a message.
LEMMA GetArrivesInv ==
    ASSUME AddonInv, NEW w \in Workers, NEW wd \in Watchdogs, NEW d, NEW user, GetAddon(w, wd, d, user)
    PROVE  KeyInv' /\ ListInv' /\ SoleInv'
<1> DEFINE q == [op |-> "get", at |-> "check", wd |-> wd, dev |-> d, user |-> user,
                 todo |-> Mandatory, addon |-> Mandatory[1], device |-> NullDevice, id |-> 0]
<1>1. /\ req' = [req EXCEPT ![w] = q] /\ UNCHANGED <<alive, tables, parked, lost>>
      /\ w \in alive /\ req[w] = Idle
      /\ disturbed' = IF \E p \in parked : p.w = w THEN disturbed ELSE disturbed \ {w}
  BY DEF GetAddon, Receive, Free
<1>2. /\ q.op = "get" /\ q.at = "check" /\ q.wd = wd /\ q.device = NullDevice /\ q.todo = Mandatory
      /\ DOMAIN q = {"op", "at", "wd", "dev", "user", "todo", "addon", "device", "id"}
  OBVIOUS
<1> HIDE DEF q
<1>3. Complete(q) /\ Fine(q)
  BY <1>2 DEF Complete, Fine, FineType, FineRow, FineDrop, FineRead
<1>4. Asked(q) /\ Earlier(q) = {}
  <2>1. Mandatory \in Seq(Addons) /\ Len(Mandatory) \in Nat
    BY AddonAssumption
  <2>2. \A i \in 1 .. Len(Mandatory) : Len(Mandatory) - Len(Mandatory) + i = i
    BY <2>1
  <2>3. 1 .. Len(Mandatory) - Len(Mandatory) = {}
    BY <2>1
  <2> QED
    BY <1>2, <2>1, <2>2, <2>3 DEF Asked, Earlier
<1>5. Progress(q, w)'
  BY <1>2, <1>4 DEF Progress
<1>6. \A v \in Workers \ {w} : \A p : Progress(p, v) => Progress(p, v)'
  BY <1>1 DEF Progress, Installed, tables
<1>7. \A p \in parked' : Complete(p.req) /\ p.w \in Workers /\ Progress(p.req, p.w)'
  <2> SUFFICES ASSUME NEW p \in parked
               PROVE  Complete(p.req) /\ p.w \in Workers /\ Progress(p.req, p.w)'
    BY <1>1
  <2>1. Complete(p.req) /\ p.w \in Workers /\ Progress(p.req, p.w)
    BY DEF AddonInv, KeyInv, ListInv
  <2>2. p.w \in disturbed => p.w \in disturbed'
    BY <1>1
  <2>3. Progress(p.req, p.w)'
    BY <1>1, <2>1, <2>2 DEF Progress, Installed, tables
  <2> QED
    BY <2>1, <2>3
<1>8. Keys'
  BY <1>1 DEF AddonInv, KeyInv, Keys, tables, Types
<1>9. ASSUME Sequential
      PROVE  Fine(q)' /\ configs' \subseteq Referenced' \cup lost' \cup Kept(q)
  <2>1. configs \subseteq Referenced \cup lost
    BY <1>1, <1>9, IdleIsFine, Known
  <2>2. configs' = configs /\ Referenced' = Referenced /\ lost' = lost
    BY <1>1 DEF tables, Referenced, Types
  <2>3. Fine(q)'
    BY <1>2 DEF Fine, FineType, FineRow, FineDrop, FineRead
  <2> QED
    BY <2>1, <2>2, <2>3
<1> QED
  BY <1>1, <1>3, <1>5, <1>6, <1>7, <1>8, <1>9, Turns

-----------------------------------------------------------------------------
(* The statements that write.                                              *)

\* Who works on something else sees its relations stay where they were.
LEMMA OthersGoOn ==
    ASSUME AddonInv, UNCHANGED disturbed, \A wd, a : Installed(wd, a) => Installed(wd, a)'
    PROVE  \A p, v : Progress(p, v) => Progress(p, v)'
<1> SUFFICES ASSUME NEW p, NEW v, Progress(p, v) PROVE Progress(p, v)'
  OBVIOUS
<1>1. v \in disturbed => v \in disturbed'
  OBVIOUS
<1> QED
  BY <1>1, ProgressStays

\* Process w goes on with q, after a statement that took no relation away.
LEMMA Stored ==
    ASSUME AddonInv, NEW w \in alive, NEW q, req' = [req EXCEPT ![w] = q],
           UNCHANGED <<alive, disturbed, parked>>,
           \A wd, a : Installed(wd, a) => Installed(wd, a)',
           Complete(q), Keys', Progress(q, w)',
           Sequential => /\ Fine(q)'
                         /\ configs' \subseteq Referenced' \cup lost' \cup Kept(q)
    PROVE  KeyInv' /\ ListInv' /\ SoleInv'
<1>1. \A p, v : Progress(p, v) => Progress(p, v)'
  BY OthersGoOn
<1>2. \A p \in parked' : Complete(p.req) /\ p.w \in Workers /\ Progress(p.req, p.w)'
  <2> SUFFICES ASSUME NEW p \in parked
               PROVE  Complete(p.req) /\ p.w \in Workers /\ Progress(p.req, p.w)'
    OBVIOUS
  <2>1. Complete(p.req) /\ p.w \in Workers /\ Progress(p.req, p.w)
    BY DEF AddonInv, KeyInv, ListInv
  <2> QED
    BY <1>1, <2>1
<1> QED
  BY <1>1, <1>2, Turns

LEMMA NewConfigInv ==
    ASSUME AddonInv, NEW w \in Workers, NewConfig(w)
    PROVE  KeyInv' /\ ListInv' /\ SoleInv'
<1> PICK m : m = req[w]
  OBVIOUS
<1> PICK n : n = lastConfig + 1
  OBVIOUS
<1> DEFINE q == [m EXCEPT !.at = "row", !.id = n]
<1>1. /\ m.op \in {"type", "install", "get", "modify"} /\ m.at = "new"
      /\ configs' = configs \cup {n} /\ req' = [req EXCEPT ![w] = q]
      /\ UNCHANGED <<alive, addons, wds, parked, disturbed, lost>>
  BY DEF NewConfig, Continue, hist
<1>2. /\ Form(m) /\ Complete(m) /\ Progress(m, w) /\ w \in alive
      /\ Sequential => Fine(m) /\ configs \subseteq Referenced \cup lost \cup Kept(m)
  BY <1>1, Known
<1>3. {"op", "at", "addon", "id"} \subseteq DOMAIN m
  BY <1>1, <1>2 DEF Form
<1>4. /\ DOMAIN q = DOMAIN m /\ q.at = "row" /\ q.id = n /\ q.op = m.op /\ q.addon = m.addon
      /\ \A f \in DOMAIN m \ {"at", "id"} : q[f] = m[f]
  BY <1>3
<1> HIDE DEF q
<1>5. Complete(q) /\ Progress(q, w) /\ (Sequential => Fine(q))
  <2>1. CASE m.op = "type"
    BY <1>1, <1>2, <1>4, <2>1 DEF Complete, Progress, Fine, FineType, FineRow, FineDrop, FineRead, Stores
  <2>2. CASE m.op # "type"
    <3>1. Stores(m)
      BY <1>1, <2>2 DEF Stores
    <3>2. Complete(q) /\ Mine(q) = Mine(m) /\ Stores(q) /\ Progress(q, w)
      BY <1>1, <1>2, <1>4, <3>1, StoreGoesOn
    <3>3. Sequential => Fine(q)
      BY <1>1, <1>2, <1>4, <3>2 DEF Fine, FineType, FineRow, FineDrop, FineRead, Stores
    <3> QED
      BY <3>2, <3>3
  <2> QED
    BY <2>1, <2>2
<1>6. Keys' /\ Referenced' = Referenced /\ \A wd, a : Installed(wd, a) => Installed(wd, a)'
  BY <1>1 DEF AddonInv, KeyInv, Keys, Types, Referenced, Installed
<1>7. Progress(q, w)'
  BY <1>1, <1>5 DEF Progress, Installed
<1>8. ASSUME Sequential
      PROVE  Fine(q)' /\ configs' \subseteq Referenced' \cup lost' \cup Kept(q)
  <2>1. Kept(m) = {} /\ Kept(q) = {n}
    BY <1>1, <1>4 DEF Kept, Placing, Typing
  <2>2. Fine(q)'
    BY <1>1, <1>4, <1>5, <1>8 DEF Fine, FineType, FineRow, FineDrop, FineRead, Stores, Mine, RowAt, Rows, Types
  <2> QED
    BY <1>1, <1>2, <1>6, <1>8, <2>1, <2>2
<1> QED
  BY <1>1, <1>2, <1>5, <1>6, <1>7, <1>8, Stored

LEMMA InsertTypeInv ==
    ASSUME AddonInv, NEW w \in Workers, InsertType(w)
    PROVE  KeyInv' /\ ListInv' /\ SoleInv'
<1> PICK m : m = req[w]
  OBVIOUS
<1>1. /\ m.op = "type" /\ m.at = "row" /\ UNCHANGED <<alive, configs, wds, lastConfig, parked, disturbed, lost>>
      /\ Form(m) /\ Complete(m) /\ w \in alive
      /\ Sequential => FineType(m) /\ configs \subseteq Referenced \cup lost \cup Kept(m)
      /\ Kept(m) = {m.id}
  BY Known DEF InsertType, At, hist, Goto, Answer, Continue, Fine, Kept, Placing, Typing
<1>2. CASE m.addon \in Types
  <2> DEFINE q == [m EXCEPT !.at = "update"]
  <2>1. q.op = "type" /\ q.at = "update" /\ q.addon = m.addon /\ q.id = m.id
    BY <1>1 DEF Form
  <2>2. req' = [req EXCEPT ![w] = q] /\ UNCHANGED addons
    BY <1>2 DEF InsertType, Goto, Continue
  <2> HIDE DEF q
  <2>3. Complete(q) /\ Progress(q, w) /\ Kept(q) = {m.id}
    BY <2>1 DEF Complete, Progress, Kept, Placing, Typing
  <2>4. Sequential => Fine(q)
    BY <1>1, <1>2, <2>1 DEF Fine, FineType, FineRow, FineDrop, FineRead, Stores
  <2> QED
    BY <1>1, <2>2, <2>3, <2>4, Looks DEF tables
<1>3. CASE m.addon \notin Types /\ m.id \notin configs
  <2>1. req' = [req EXCEPT ![w] = Idle] /\ UNCHANGED addons
    BY <1>3 DEF InsertType, Answer, Continue
  <2> QED
    BY <1>1, <1>3, <2>1, Ends DEF tables
<1>4. CASE m.addon \notin Types /\ m.id \in configs
  <2> PICK q : q = Idle
    OBVIOUS
  <2>1. req' = [req EXCEPT ![w] = q]
        /\ addons' = [b \in Types \cup {m.addon} |-> IF b = m.addon THEN m.id ELSE addons[b]]
    BY <1>4 DEF InsertType, Answer, Continue
  <2>2. Types' = Types \cup {m.addon} /\ addons'[m.addon] = m.id /\ \A b \in Types : addons'[b] = addons[b]
    BY <1>4, <2>1 DEF Types
  <2>3. Keys' /\ Referenced \cup {m.id} \subseteq Referenced'
    BY <1>1, <1>4, <2>2 DEF AddonInv, KeyInv, Keys, Referenced
  <2>4. Complete(q) /\ Progress(q, w)' /\ Fine(q)' /\ Kept(q) = {}
    BY DEF Complete, Progress, Fine, FineType, FineRow, FineDrop, FineRead, Stores, Kept, Placing, Typing, Idle
  <2>5. \A wd, a : Installed(wd, a) => Installed(wd, a)'
    BY <1>1 DEF Installed
  <2> QED
    BY <1>1, <2>1, <2>3, <2>4, <2>5, Stored
<1> QED
  BY <1>2, <1>3, <1>4

LEMMA UpdateTypeInv ==
    ASSUME AddonInv, NEW w \in Workers, UpdateType(w)
    PROVE  KeyInv' /\ ListInv' /\ SoleInv'
<1> PICK m : m = req[w]
  OBVIOUS
<1> PICK q : q = Idle
  OBVIOUS
<1>1. /\ m.op = "type" /\ m.at = "update" /\ UNCHANGED <<alive, configs, wds, lastConfig, parked, disturbed, lost>>
      /\ w \in alive /\ req' = [req EXCEPT ![w] = q]
      /\ Sequential => FineType(m) /\ configs \subseteq Referenced \cup lost \cup Kept(m)
      /\ Kept(m) = {m.id}
      /\ addons' = IF m.addon \in Types /\ m.id \in configs THEN [addons EXCEPT ![m.addon] = m.id] ELSE addons
  BY Known DEF UpdateType, At, hist, Answer, Continue, Fine, Kept, Placing, Typing
<1>2. Types' = Types /\ \A a \in Types : addons'[a] = addons[a] \/ (a = m.addon /\ addons'[a] = m.id /\ m.id \in configs)
  BY <1>1 DEF Types
<1>3. Keys'
  BY <1>1, <1>2 DEF AddonInv, KeyInv, Keys
<1>4. Complete(q) /\ Progress(q, w)' /\ Fine(q)' /\ Kept(q) = {}
  BY DEF Complete, Progress, Fine, FineType, FineRow, FineDrop, FineRead, Stores, Kept, Placing, Typing, Idle
<1>5. \A wd, a : Installed(wd, a) => Installed(wd, a)'
  BY <1>1 DEF Installed
<1>6. ASSUME Sequential PROVE configs' \subseteq Referenced' \cup lost' \cup Kept(q)
  <2>1. \A a \in Types : addons'[a] = addons[a]
    BY <1>1, <1>2, <1>6 DEF FineType
  <2>2. m.id \in Referenced /\ Referenced' = Referenced
    BY <1>1, <1>2, <1>6, <2>1 DEF FineType, Referenced
  <2> QED
    BY <1>1, <1>6, <2>2
<1> QED
  BY <1>1, <1>3, <1>4, <1>5, <1>6, Stored

\* The relation is stored; getAddon notes that it has looked for this addon.
LEMMA RelationDoneInv ==
    ASSUME AddonInv, NEW w \in Workers, RelationDone(w), Placing(req[w]),
           UNCHANGED <<configs, addons, disturbed, lost>>, Keys',
           \A wd, a : Installed(wd, a) => Installed(wd, a)',
           \A m : m = req[w] /\ m.op = "get" => w \in disturbed \/ Installed(m.wd, m.addon)',
           Sequential => configs \subseteq Referenced' \cup lost
    PROVE  KeyInv' /\ ListInv' /\ SoleInv'
<1> PICK m : m = req[w]
  OBVIOUS
<1> DEFINE next == [m EXCEPT !.at = "check", !.todo = Tail(m.todo)]
<1>1. w \in alive /\ Form(m) /\ Complete(m) /\ Progress(m, w) /\ m.at \in {"row", "update"}
  BY Known DEF Placing
<1>2. UNCHANGED alive
  BY DEF RelationDone, Answer, Continue
<1>3. ASSUME m.op = "get"
      PROVE  /\ next.op = "get" /\ next.at = "check" /\ next.todo = Tail(m.todo) /\ next.wd = m.wd
             /\ "todo" \in DOMAIN next /\ next.device = NullDevice
  BY <1>1, <1>3 DEF Form, Complete
<1>4. /\ m.op # "get" => req' = [req EXCEPT ![w] = Idle] /\ parked' = parked
      /\ m.op = "get" => \/ req' = [req EXCEPT ![w] = Idle] /\ parked' = parked \cup {[w |-> w, req |-> next]}
                         \/ req' = [req EXCEPT ![w] = next] /\ parked' = parked
  BY DEF RelationDone, Answer, Continue
<1> HIDE DEF next
<1>5. ASSUME m.op = "get" PROVE Complete(next) /\ Progress(next, w)'
  <2>1. m.todo # <<>> /\ m.addon = Head(m.todo) /\ Asked(m)
    BY <1>1, <1>5 DEF Progress, Asked
  <2>2. Asked(next) /\ \A i \in Earlier(next) : i \in Earlier(m) \/ Mandatory[i] = Head(m.todo)
    BY <1>3, <1>5, <2>1, NextEarlier
  <2>3. w \in disturbed' \/ \A i \in Earlier(next) : Installed(m.wd, Mandatory[i])'
    <3> SUFFICES ASSUME w \notin disturbed, NEW i \in Earlier(next) PROVE Installed(m.wd, Mandatory[i])'
      OBVIOUS
    <3>1. CASE i \in Earlier(m)
      <4>1. Installed(m.wd, Mandatory[i])
        BY <1>1, <1>5, <3>1 DEF Progress
      <4> QED
        BY <4>1
    <3>2. CASE i \notin Earlier(m)
      <4>1. Mandatory[i] = m.addon
        BY <2>1, <2>2, <3>2
      <4> QED
        BY <1>5, <4>1
    <3> QED
      BY <3>1, <3>2
  <2>4. Progress(next, w)'
    BY <1>3, <1>5, <2>2, <2>3 DEF Progress
  <2>5. Complete(next)
    BY <1>1, <1>3, <1>5 DEF Complete
  <2> QED
    BY <2>4, <2>5
<1>6. \A p, v : Progress(p, v) => Progress(p, v)'
  BY OthersGoOn
<1>7. ASSUME NEW q, req' = [req EXCEPT ![w] = q], q = Idle \/ (m.op = "get" /\ q = next)
      PROVE  KeyInv' /\ ListInv' /\ SoleInv'
  <2>1. Complete(q) /\ Progress(q, w)'
    BY <1>5, <1>7, <1>6, IdleIsFine
  <2>2. Fine(q)' /\ Kept(q) = {}
    <3>1. q.op = "idle" \/ (q.op = "get" /\ q.at = "check")
      BY <1>3, <1>7 DEF Idle
    <3> QED
      BY <3>1 DEF Fine, FineType, FineRow, FineDrop, FineRead, Kept, Placing, Typing, Stores
  <2>3. \A p \in parked' : Complete(p.req) /\ p.w \in Workers /\ Progress(p.req, p.w)'
    <3> SUFFICES ASSUME NEW p \in parked'
                 PROVE  Complete(p.req) /\ p.w \in Workers /\ Progress(p.req, p.w)'
      OBVIOUS
    <3>1. CASE p \in parked
      <4>1. Complete(p.req) /\ p.w \in Workers /\ Progress(p.req, p.w)
        BY <3>1 DEF AddonInv, KeyInv, ListInv
      <4> QED
        BY <1>6, <4>1
    <3>2. CASE p \notin parked
      <4>1. m.op = "get" /\ p.w = w /\ p.req = next
        BY <1>4, <3>2
      <4> QED
        BY <1>5, <4>1
    <3> QED
      BY <3>1, <3>2
  <2> QED
    BY <1>1, <1>2, <1>6, <1>7, <2>1, <2>2, <2>3, Turns
<1> QED
  BY <1>4, <1>7

LEMMA InsertRelationInv ==
    ASSUME AddonInv, NEW w \in Workers, InsertRelation(w)
    PROVE  KeyInv' /\ ListInv' /\ SoleInv'
<1> PICK m : m = req[w]
  OBVIOUS
<1>1. /\ Placing(m) /\ Stores(m) /\ m.at = "row" /\ UNCHANGED <<configs, addons, lastConfig, disturbed, lost>>
      /\ Form(m) /\ Complete(m) /\ Progress(m, w) /\ w \in alive
      /\ Sequential => FineRow(m) /\ configs \subseteq Referenced \cup lost \cup Kept(m)
      /\ Kept(m) = {m.id}
  BY Known DEF InsertRelation, hist, Fine, Kept, Placing, Typing, Stores
<1>2. CASE Mine(m) # {}
  <2> DEFINE q == [m EXCEPT !.at = "update"]
  <2>1. /\ DOMAIN q = DOMAIN m /\ q.at = "update" /\ q.id = m.id
        /\ \A f \in DOMAIN m \ {"at", "id"} : q[f] = m[f]
    BY <1>1 DEF Form, Stores
  <2>2. req' = [req EXCEPT ![w] = q] /\ UNCHANGED <<alive, wds, parked>>
    BY <1>2 DEF InsertRelation, Goto, Continue, Mine
  <2> HIDE DEF q
  <2>3. /\ q.op = m.op /\ q.wd = m.wd /\ q.addon = m.addon /\ Complete(q) /\ Mine(q) = Mine(m)
        /\ Stores(q)
    BY <1>1, <2>1, StoreGoesOn
  <2>4. Progress(q, w)
    <3>1. Installed(q.wd, q.addon)
      BY <1>2, <2>3 DEF Mine, RowAt, Rows, Installed
    <3>2. CASE m.op = "get"
      <4>1. "todo" \in DOMAIN m \ {"at", "id"}
        BY <1>1, <3>2 DEF Complete
      <4>2. q.todo = m.todo
        BY <2>1, <4>1
      <4>3. Asked(q) /\ Earlier(q) = Earlier(m)
        BY <1>1, <2>1, <2>3, <3>2, <4>2 DEF Progress, Asked, Earlier
      <4> QED
        BY <1>1, <2>3, <3>1, <3>2, <4>3 DEF Progress
    <3>3. CASE m.op # "get"
      BY <2>3, <3>3 DEF Progress, Stores
    <3> QED
      BY <3>2, <3>3
  <2>5. Sequential => Fine(q)
    BY <1>1, <1>2, <2>1, <2>3 DEF Fine, FineType, FineRow, FineDrop, FineRead, Stores
  <2>6. Kept(q) = {m.id}
    BY <2>1, <2>3 DEF Kept, Placing, Stores
  <2> QED
    BY <1>1, <2>2, <2>3, <2>4, <2>5, <2>6, Looks DEF tables
<1>3. CASE Mine(m) = {} /\ ~(m.addon \in Types /\ m.id \in configs)
  <2>1. req' = [req EXCEPT ![w] = Idle] /\ UNCHANGED <<alive, wds, parked>>
    BY <1>3 DEF InsertRelation, Answer, Continue, Mine
  <2>2. Sequential => Kept(m) \cap configs = {}
    BY <1>1, <1>3 DEF FineRow
  <2> QED
    BY <1>1, <2>1, <2>2, Ends DEF tables
<1>4. CASE Mine(m) = {} /\ m.addon \in Types /\ m.id \in configs
  <2> PICK new : new = [wd |-> m.wd, addon |-> m.addon, device |-> m.device, config |-> m.id]
    OBVIOUS
  <2>1. wds' = wds \cup {new} /\ RelationDone(w)
    BY <1>4 DEF InsertRelation, Mine
  <2>2. new.wd = m.wd /\ new.addon = m.addon /\ new.config = m.id /\ m.wd \in Watchdogs
    BY <1>1 DEF Complete, Stores
  <2>3. Keys'
    BY <1>1, <1>4, <2>1, <2>2 DEF AddonInv, KeyInv, Keys, Types
  <2>4. \A wd, a : Installed(wd, a) => Installed(wd, a)'
    BY <2>1 DEF Installed
  <2>5. Installed(m.wd, m.addon)'
    BY <2>1, <2>2 DEF Installed
  <2>6. Sequential => configs \subseteq Referenced' \cup lost
    <3>1. Referenced \cup {m.id} \subseteq Referenced'
      BY <1>1, <2>1, <2>2 DEF Referenced, Types
    <3> QED
      BY <1>1, <3>1
  <2> QED
    BY <1>1, <2>1, <2>3, <2>4, <2>5, <2>6, RelationDoneInv
<1> QED
  BY <1>2, <1>3, <1>4

LEMMA UpdateRelationInv ==
    ASSUME AddonInv, NEW w \in Workers, UpdateRelation(w)
    PROVE  KeyInv' /\ ListInv' /\ SoleInv'
<1> PICK m : m = req[w]
  OBVIOUS
<1>1. /\ Placing(m) /\ Stores(m) /\ m.at = "update" /\ UNCHANGED <<configs, addons, lastConfig, disturbed, lost>>
      /\ Form(m) /\ Complete(m) /\ Progress(m, w) /\ w \in alive
      /\ Sequential => FineRow(m) /\ configs \subseteq Referenced \cup lost \cup Kept(m)
      /\ Kept(m) = {m.id}
  BY Known DEF UpdateRelation, hist, Fine, Kept, Placing, Typing, Stores
<1>2. Sequential => m.id \in Referenced
  BY <1>1 DEF FineRow, Mine, RowAt, Rows, Referenced
<1>3. CASE ~(m.id \in configs \/ Mine(m) = {})
  <2>1. req' = [req EXCEPT ![w] = Idle] /\ UNCHANGED <<alive, wds, parked>>
    BY <1>3 DEF UpdateRelation, Answer, Continue, Mine
  <2> QED
    BY <1>1, <1>2, <2>1, Ends DEF tables
<1>4. CASE m.id \in configs \/ Mine(m) = {}
  <2>1. wds' = (wds \ Mine(m)) \cup {[o EXCEPT !.config = m.id] : o \in Mine(m)} /\ RelationDone(w)
    BY <1>4 DEF UpdateRelation, Mine
  <2>2. Mine(m) \subseteq wds
    BY DEF Mine, RowAt, Rows
  <2>3. ASSUME NEW o \in wds, NEW n, n = [o EXCEPT !.config = m.id]
        PROVE  n.wd = o.wd /\ n.addon = o.addon /\ n.config = m.id /\ (o.config = m.id => n = o)
    <3>1. o = [wd |-> o.wd, addon |-> o.addon, device |-> o.device, config |-> o.config]
      BY DEF AddonInv, PInv, RowsApart
    <3> QED
      BY <2>3, <3>1
  <2>4. \A n \in wds' : n \in wds \/ \E o \in Mine(m) : n.wd = o.wd /\ n.addon = o.addon /\ n.config = m.id
    BY <2>1, <2>2, <2>3
  <2>5. ASSUME NEW o \in wds PROVE \E n \in wds' : n.wd = o.wd /\ n.addon = o.addon
    <3> PICK n : n = [o EXCEPT !.config = m.id]
      OBVIOUS
    <3>1. n.wd = o.wd /\ n.addon = o.addon
      BY <2>3
    <3>2. o \in wds' \/ n \in wds'
      BY <2>1
    <3> QED
      BY <3>1, <3>2
  <2>6. Keys'
    <3>1. ASSUME NEW n \in wds' PROVE n.wd \in Watchdogs /\ n.addon \in Types /\ n.config \in configs
      BY <1>4, <2>2, <2>4 DEF AddonInv, KeyInv, Keys
    <3> QED
      BY <1>1, <3>1 DEF AddonInv, KeyInv, Keys, Types
  <2>7. \A wd, a : Installed(wd, a) => Installed(wd, a)'
    BY <2>5 DEF Installed
  <2>8. m.op = "get" => w \in disturbed \/ Installed(m.wd, m.addon)
    BY <1>1 DEF Progress
  <2>9. Sequential => configs \subseteq Referenced' \cup lost
    <3> SUFFICES ASSUME Sequential PROVE configs \subseteq Referenced' \cup lost
      OBVIOUS
    <3>1. \A o \in Mine(m) : [o EXCEPT !.config = m.id] = o
      BY <1>1, <2>2, <2>3 DEF FineRow
    <3>2. wds' = wds
      BY <2>1, <2>2, <3>1
    <3> QED
      BY <1>1, <1>2, <3>2 DEF Referenced, Types
  <2> QED
    BY <1>1, <2>1, <2>6, <2>7, <2>8, <2>9, RelationDoneInv
<1> QED
  BY <1>3, <1>4

\* A request that deletes goes on, or is over: no relation is taken away.
LEMMA DropGoesOn ==
    ASSUME AddonInv, NEW w \in alive, NEW q, req' = [req EXCEPT ![w] = q], req[w].op = "drop",
           UNCHANGED <<alive, disturbed, parked, wds, lost>>,
           q = Idle \/ (DOMAIN q = DOMAIN req[w] /\ q.op = "drop" /\ q.wds = req[w].wds /\ q.whole = req[w].whole),
           Keys',
           Sequential => /\ FineDrop(q)'
                         /\ configs' \subseteq Referenced' \cup lost \cup Kept(q)
    PROVE  KeyInv' /\ ListInv' /\ SoleInv'
<1> PICK m : m = req[w]
  OBVIOUS
<1>1. Complete(m) /\ m.op = "drop"
  BY Known DEF AddonInv, KeyInv
<1>2. q.op \in {"idle", "drop"}
  BY DEF Idle
<1>3. Complete(q)
  BY <1>1, <1>2, IdleIsFine DEF Complete
<1>4. Progress(q, w)' /\ FineType(q)' /\ FineRow(q)' /\ FineRead(q)'
  BY <1>2 DEF Progress, FineType, FineRow, FineRead, Stores
<1>5. \A wd, a : Installed(wd, a) => Installed(wd, a)'
  BY DEF Installed
<1> QED
  BY <1>3, <1>4, <1>5, Stored DEF Fine

LEMMA DeleteTypeInv ==
    ASSUME AddonInv, NEW w \in Workers, DeleteType(w)
    PROVE  KeyInv' /\ ListInv' /\ SoleInv'
<1> PICK m : m = req[w]
  OBVIOUS
<1>1. /\ m.op = "drop" /\ m.at = "addon" /\ UNCHANGED <<alive, configs, wds, lastConfig, parked, disturbed, lost>>
      /\ Form(m) /\ Complete(m) /\ w \in alive
      /\ Sequential => FineDrop(m) /\ configs \subseteq Referenced \cup lost \cup Kept(m)
      /\ Kept(m) = m.ids
  BY Known DEF DeleteType, At, hist, Goto, Answer, Continue, Fine, Kept, Placing, Typing
<1>2. CASE \E r \in wds : r.addon = m.addon
  <2>1. req' = [req EXCEPT ![w] = Idle] /\ UNCHANGED addons
    BY <1>2 DEF DeleteType, Answer, Continue
  <2>2. ~Sequential
    BY <1>1, <1>2 DEF FineDrop
  <2> QED
    BY <1>1, <2>1, <2>2, Ends DEF tables
<1>3. CASE ~\E r \in wds : r.addon = m.addon
  <2> DEFINE q == [m EXCEPT !.at = "defaults"]
  <2>1. req' = [req EXCEPT ![w] = q] /\ addons' = [a \in Types \ {m.addon} |-> addons[a]]
    BY <1>3 DEF DeleteType, Goto, Continue
  <2>2. /\ DOMAIN q = DOMAIN m /\ q.op = "drop" /\ q.at = "defaults" /\ q.wds = m.wds
        /\ q.whole = m.whole /\ q.ids = m.ids /\ q.default = m.default
    BY <1>1 DEF Complete, Form
  <2> HIDE DEF q
  <2>3. Types' = Types \ {m.addon} /\ \A a \in Types' : addons'[a] = addons[a]
    BY <2>1 DEF Types
  <2>4. Keys'
    BY <1>1, <1>3, <2>3 DEF AddonInv, KeyInv, Keys
  <2>5. ASSUME Sequential
        PROVE  FineDrop(q)' /\ configs' \subseteq Referenced' \cup lost \cup Kept(q)
    <3>1. /\ m.addon \in Types /\ addons[m.addon] = m.default /\ m.whole
          /\ m.ids \cap Referenced = {}
      BY <1>1, <2>5 DEF FineDrop
    <3>2. Referenced' \subseteq Referenced /\ Referenced \subseteq Referenced' \cup {m.default}
      BY <1>1, <2>3, <3>1 DEF Referenced
    <3>3. m.default \notin Referenced'
      BY <1>1, <2>3, <3>1 DEF Referenced, AddonInv, PInv, RowsApart
    <3>4. FineDrop(q)'
      BY <2>2, <3>1, <3>2, <3>3 DEF FineDrop
    <3>5. Kept(q) = m.ids \cup {m.default}
      BY <2>2 DEF Kept, Placing, Typing
    <3> QED
      BY <1>1, <2>5, <3>2, <3>4, <3>5
  <2> QED
    BY <1>1, <2>1, <2>2, <2>4, <2>5, DropGoesOn
<1> QED
  BY <1>2, <1>3

LEMMA DeleteDefaultInv ==
    ASSUME AddonInv, NEW w \in Workers, DeleteDefault(w)
    PROVE  KeyInv' /\ ListInv' /\ SoleInv'
<1> PICK m : m = req[w]
  OBVIOUS
<1>1. /\ m.op = "drop" /\ m.at = "defaults" /\ UNCHANGED <<alive, addons, wds, lastConfig, parked, disturbed, lost>>
      /\ Form(m) /\ Complete(m) /\ w \in alive
      /\ Sequential => FineDrop(m) /\ configs \subseteq Referenced \cup lost \cup Kept(m)
      /\ Kept(m) = m.ids \cup {m.default}
  BY Known DEF DeleteDefault, At, hist, Goto, Answer, Continue, Fine, Kept, Placing, Typing
<1>2. CASE m.default \in Referenced
  <2>1. req' = [req EXCEPT ![w] = Idle] /\ UNCHANGED configs
    BY <1>2 DEF DeleteDefault, Deletable, Answer, Continue
  <2>2. ~Sequential
    BY <1>1, <1>2 DEF FineDrop
  <2> QED
    BY <1>1, <2>1, <2>2, Ends DEF tables
<1>3. CASE m.default \notin Referenced
  <2> DEFINE q == [m EXCEPT !.at = "configs"]
  <2>1. req' = [req EXCEPT ![w] = q] /\ configs' = configs \ {m.default}
    BY <1>3 DEF DeleteDefault, Deletable, Goto, Continue
  <2>2. /\ DOMAIN q = DOMAIN m /\ q.op = "drop" /\ q.at = "configs" /\ q.wds = m.wds
        /\ q.whole = m.whole /\ q.ids = m.ids
    BY <1>1 DEF Complete, Form
  <2> HIDE DEF q
  <2>3. Referenced' = Referenced
    BY <1>1 DEF Referenced, Types
  <2>4. Keys'
    BY <1>1, <1>3, <2>1 DEF AddonInv, KeyInv, Keys, Types, Referenced
  <2>5. ASSUME Sequential
        PROVE  FineDrop(q)' /\ configs' \subseteq Referenced' \cup lost \cup Kept(q)
    <3>1. m.whole /\ m.ids \cap Referenced = {}
      BY <1>1, <2>5 DEF FineDrop
    <3>2. FineDrop(q)'
      BY <2>2, <2>3, <3>1 DEF FineDrop
    <3>3. Kept(q) = m.ids
      BY <2>2 DEF Kept, Placing, Typing
    <3> QED
      BY <1>1, <2>1, <2>3, <2>5, <3>2, <3>3
  <2> QED
    BY <1>1, <2>1, <2>2, <2>4, <2>5, DropGoesOn
<1> QED
  BY <1>2, <1>3

LEMMA DeleteConfigInv ==
    ASSUME AddonInv, NEW w \in Workers, DeleteConfig(w)
    PROVE  KeyInv' /\ ListInv' /\ SoleInv'
<1> PICK m : m = req[w]
  OBVIOUS
<1> PICK ids : ids = IF m.whole THEN m.ids ELSE m.ids \ {m.default}
  OBVIOUS
<1>1. At(w, "drop", "configs") /\ UNCHANGED <<addons, wds, lastConfig, parked, hist>>
  BY DEF DeleteConfig
<1>2. /\ ids = {} => Answer(w) /\ UNCHANGED configs
      /\ ids # {} => \E id \in ids :
           \/ Deletable(id) /\ configs' = configs \ {id} /\ Continue(w, [m EXCEPT !.ids = ids \ {id}])
           \/ ~Deletable(id) /\ Answer(w) /\ UNCHANGED configs
  BY DEF DeleteConfig
<1>3. /\ m.op = "drop" /\ m.at = "configs" /\ Form(m) /\ Complete(m) /\ w \in alive
      /\ Sequential => FineDrop(m) /\ configs \subseteq Referenced \cup lost \cup Kept(m)
      /\ Kept(m) = m.ids
  BY <1>1, Known DEF At, Fine, Kept, Placing, Typing
<1>4. ASSUME Sequential PROVE m.ids \cap Referenced = {} /\ ids = m.ids
  <2>1. m.ids \cap Referenced = {} /\ (~m.whole => m.addon \in Types /\ addons[m.addon] = m.default)
    BY <1>3, <1>4 DEF FineDrop
  <2>2. ~m.whole => m.default \in Referenced
    BY <2>1 DEF Referenced
  <2> QED
    BY <2>1, <2>2
<1>5. CASE Answer(w) /\ UNCHANGED configs /\ (Sequential => ids = {})
  <2>1. req' = [req EXCEPT ![w] = Idle] /\ UNCHANGED <<alive, tables, disturbed, parked, lost>>
    BY <1>1, <1>5 DEF Answer, Continue, tables, hist
  <2>2. Sequential => Kept(m) = {}
    BY <1>3, <1>4, <1>5
  <2> QED
    BY <1>3, <2>1, <2>2, Ends
<1>6. ASSUME NEW id \in ids, Deletable(id), configs' = configs \ {id},
             Continue(w, [m EXCEPT !.ids = ids \ {id}])
      PROVE  KeyInv' /\ ListInv' /\ SoleInv'
  <2> DEFINE q == [m EXCEPT !.ids = ids \ {id}]
  <2>1. req' = [req EXCEPT ![w] = q] /\ UNCHANGED alive
    BY <1>6 DEF Continue
  <2>2. /\ DOMAIN q = DOMAIN m /\ q.op = "drop" /\ q.at = "configs" /\ q.wds = m.wds
        /\ q.whole = m.whole /\ q.ids = ids \ {id} /\ q.default = m.default /\ q.addon = m.addon
    BY <1>3 DEF Complete, Form
  <2> HIDE DEF q
  <2>3. Referenced' = Referenced /\ Types' = Types
    BY <1>1 DEF Referenced, Types
  <2>4. Keys'
    BY <1>1, <1>6 DEF AddonInv, KeyInv, Keys, Types, Referenced, Deletable
  <2>5. ASSUME Sequential
        PROVE  FineDrop(q)' /\ configs' \subseteq Referenced' \cup lost \cup Kept(q)
    <3>1. FineDrop(q)'
      BY <1>1, <1>3, <1>4, <2>2, <2>3, <2>5 DEF FineDrop
    <3>2. Kept(q) = m.ids \ {id}
      BY <1>4, <2>2, <2>5 DEF Kept, Placing, Typing
    <3> QED
      BY <1>3, <1>6, <2>3, <2>5, <3>1, <3>2
  <2> QED
    BY <1>1, <1>3, <2>1, <2>2, <2>4, <2>5, DropGoesOn DEF hist
<1>7. CASE ids = {}
  BY <1>2, <1>5, <1>7
<1>8. CASE ids # {}
  <2>1. PICK id \in ids :
           \/ Deletable(id) /\ configs' = configs \ {id} /\ Continue(w, [m EXCEPT !.ids = ids \ {id}])
           \/ ~Deletable(id) /\ Answer(w) /\ UNCHANGED configs
    BY <1>2, <1>8
  <2>2. ~Deletable(id) => ~Sequential
    BY <1>4 DEF Deletable
  <2> QED
    BY <1>5, <1>6, <2>1, <2>2
<1> QED
  BY <1>7, <1>8

\* Relations are deleted: what a getAddon of one of these watchdogs has found may be gone.
LEMMA DeleteRelationsInv ==
    ASSUME AddonInv, NEW w \in Workers, DeleteRelations(w)
    PROVE  KeyInv' /\ ListInv' /\ SoleInv'
<1> PICK m : m = req[w]
  OBVIOUS
<1> PICK dropped : dropped = Dropped(w)
  OBVIOUS
<1> DEFINE q == [m EXCEPT !.at = IF m.whole THEN "addon" ELSE "configs"]
<1>1. /\ m.op = "drop" /\ m.at = "rows" /\ UNCHANGED <<alive, configs, addons, lastConfig, parked, lost>>
      /\ wds' = wds \ dropped /\ req' = [req EXCEPT ![w] = q]
      /\ disturbed' = disturbed \cup
           {v \in Workers : \E r \in {req[v]} \cup {p.req : p \in {s \in parked : s.w = v}} :
              r.op \in {"get"} /\ r.wd \in m.wds}
  BY DEF DeleteRelations, At, Goto, Continue
<1>2. dropped = {s \in wds : s.addon = m.addon /\ s.wd \in m.wds}
  BY DEF Dropped
<1>3. /\ Form(m) /\ Complete(m) /\ w \in alive
      /\ Sequential => FineDrop(m) /\ configs \subseteq Referenced \cup lost \cup Kept(m)
      /\ Kept(m) = {}
  BY <1>1, Known DEF Fine, Kept, Placing, Typing
<1>4. /\ DOMAIN q = DOMAIN m /\ q.op = "drop" /\ q.at = (IF m.whole THEN "addon" ELSE "configs")
      /\ q.wds = m.wds /\ q.whole = m.whole /\ q.ids = m.ids /\ q.default = m.default /\ q.addon = m.addon
  BY <1>1, <1>3 DEF Complete, Form
<1> HIDE DEF q
<1>5. Keys'
  BY <1>1 DEF AddonInv, KeyInv, Keys, Types
<1>6. ASSUME NEW v \in Workers, NEW p, Progress(p, v), p = req[v] \/ \E s \in parked : s.w = v /\ s.req = p
      PROVE  Progress(p, v)'
  <2>1. disturbed \subseteq disturbed'
    BY <1>1
  <2>2. CASE p.op = "get" /\ p.wd \in m.wds
    <3>1. v \in disturbed'
      BY <1>1, <1>6, <2>2
    <3> QED
      BY <1>6, <2>2, <3>1 DEF Progress
  <2>3. CASE p.op = "get" /\ p.wd \notin m.wds
    <3>1. \A a : Installed(p.wd, a) => Installed(p.wd, a)'
      BY <1>1, <1>2, <2>3 DEF Installed
    <3> QED
      BY <1>6, <2>1, <2>3, <3>1 DEF Progress
  <2>4. CASE p.op # "get"
    BY <1>6, <2>1, <2>4 DEF Progress
  <2> QED
    BY <2>2, <2>3, <2>4
<1>7. \A p \in parked' : Complete(p.req) /\ p.w \in Workers /\ Progress(p.req, p.w)'
  <2> SUFFICES ASSUME NEW p \in parked
               PROVE  Complete(p.req) /\ p.w \in Workers /\ Progress(p.req, p.w)'
    BY <1>1
  <2>1. Complete(p.req) /\ p.w \in Workers /\ Progress(p.req, p.w)
    BY DEF AddonInv, KeyInv, ListInv
  <2> QED
    BY <1>6, <2>1
<1>8. Complete(q) /\ Progress(q, w)'
  <2>1. Complete(q)
    BY <1>1, <1>3, <1>4 DEF Complete
  <2> QED
    BY <1>4, <2>1 DEF Progress
<1>9. ASSUME Sequential
      PROVE  Fine(q)' /\ configs' \subseteq Referenced' \cup lost' \cup Kept(q)
  <2>1. /\ m.addon \in Types /\ addons[m.addon] = m.default /\ m.ids = {r.config : r \in dropped}
        /\ configs \subseteq Referenced \cup lost
    BY <1>1, <1>2, <1>3, <1>9 DEF FineDrop
  <2>2. dropped \subseteq wds /\ Types' = Types
    BY <1>1, <1>2 DEF Types
  <2>3. Referenced \subseteq Referenced' \cup m.ids
    BY <1>1, <2>1, <2>2 DEF Referenced
  <2>4. m.ids \cap Referenced' = {}
    BY <1>1, <2>1, <2>2 DEF Referenced, AddonInv, PInv, RowsApart
  <2>5. m.whole => \A r \in wds' : r.addon # m.addon
    BY <1>1, <1>2, <1>3 DEF Complete, AddonInv, KeyInv, Keys
  <2>6. FineDrop(q)'
    BY <1>1, <1>4, <2>1, <2>2, <2>4, <2>5 DEF FineDrop
  <2>7. Kept(q) = m.ids
    BY <1>4 DEF Kept, Placing, Typing
  <2>8. FineType(q)' /\ FineRow(q)' /\ FineRead(q)'
    BY <1>4 DEF FineType, FineRow, FineRead, Stores
  <2> QED
    BY <1>1, <2>1, <2>3, <2>6, <2>7, <2>8 DEF Fine
<1> QED
  BY <1>1, <1>3, <1>5, <1>6, <1>7, <1>8, <1>9, Turns

-----------------------------------------------------------------------------
(* The theorem.                                                            *)

LEMMA InitAddonInv == AddonInit => AddonInv
<1> SUFFICES ASSUME AddonInit PROVE AddonInv
  OBVIOUS
<1>1. /\ \A w \in Workers : req[w] = Idle
      /\ alive \subseteq Workers /\ parked = {} /\ configs = {} /\ wds = {} /\ Types = {}
  BY DEF AddonInit, ServiceInit, Types
<1>2. KeyInv /\ ListInv
  BY <1>1, IdleIsFine DEF KeyInv, ListInv, Keys
<1>3. SoleInv
  BY <1>1, IdleIsFine DEF SoleInv
<1> QED
  BY <1>2, <1>3, InitPInv DEF AddonInv

LEMMA NextAddonInv == AddonInv /\ [AddonNext]_addonVars => AddonInv'
<1> SUFFICES ASSUME AddonInv, [AddonNext]_addonVars PROVE AddonInv'
  OBVIOUS
<1>1. PInv'
  BY NextPInv DEF AddonInv
<1>2. CASE UNCHANGED addonVars
  <2>1. KeyInv'
    BY <1>2 DEF AddonInv, KeyInv, Complete, Keys, Types, addonVars, serviceVars
  <2>2. ListInv'
    BY <1>2 DEF AddonInv, ListInv, Progress, Installed, addonVars, serviceVars
  <2>3. SoleInv'
    BY <1>2 DEF AddonInv, SoleInv, Sequential, Fine, FineType, FineRow, FineDrop, FineRead, Stores, Mine,
                RowAt, Rows, Types, Referenced, Kept, Placing, Typing, addonVars, serviceVars
  <2> QED
    BY <1>1, <2>1, <2>2, <2>3 DEF AddonInv
<1>3. CASE AddonNext
  <2>1. KeyInv' /\ ListInv' /\ SoleInv'
    BY <1>3, TypeArrivesInv, DropArrivesInv, InstallArrivesInv, ModifyArrivesInv, GetArrivesInv, GetTypeInv,
       NewConfigInv, InsertTypeInv, UpdateTypeInv, SelectTypeInv, CopyConfigInv, SelectFallbackInv,
       InsertRelationInv, UpdateRelationInv, CheckMandatoryInv, CheckFallbackInv, ListAddonsInv,
       AnswersInv, UnparkInv, SelectConfigInv, NotingInv, DeleteRelationsInv, DeleteTypeInv,
       DeleteDefaultInv, DeleteConfigInv, CrashInv DEF AddonNext
  <2> QED
    BY <1>1, <2>1 DEF AddonInv
<1> QED
  BY <1>2, <1>3

LEMMA SoundFromAddonInv == ASSUME AddonInv PROVE AddonsSound
<1>1. PrivateConfigs
  BY DEF AddonInv, PInv, RowsApart, PrivateConfigs
<1>2. Sequential => \E w \in Workers : w \in alive
  <2> SUFFICES ASSUME Sequential PROVE \E w \in Workers : w \in alive
    OBVIOUS
  <2>1. IsFiniteSet(alive) /\ alive \subseteq Workers
    BY ServiceAssumption, FS_Subset DEF AddonInv, KeyInv
  <2>2. PICK x : alive = {x}
    BY <2>1, FS_Singleton DEF Sequential
  <2> QED
    BY <2>1, <2>2
<1>3. \A w \in Workers : Kept(req[w]) \subseteq Held(w)
  BY DEF Kept, Held, Placing, Typing
<1>4. NoOrphanConfig
  BY <1>2, <1>3 DEF AddonInv, SoleInv, NoOrphanConfig
<1>5. TypesReadable
  BY Known DEF TypesReadable, Fine, FineRead
<1>6. MandatoryListed
  BY Known DEF MandatoryListed, Progress, AllNamed
<1> QED
  BY <1>1, <1>4, <1>5, <1>6 DEF AddonsSound

\* A relation's configuration is made for it alone, and so is a type's default
\* (modifyAddon, app.py: an entry "already has a unique configID number, compared
\* to the defaultConfigID"); getAddon lists every mandatory addon unless one was
\* uninstalled while it ran: both however many processes serve requests and wherever
\* one dies.  A process that is alone reads every type it knows and leaves no
\* configuration without an owner but those that it held when it died.
THEOREM AddonsStaySound == AddonSpec => []AddonsSound
<1> QED
  BY InitAddonInv, NextAddonInv, SoundFromAddonInv, PTL DEF AddonSpec

-----------------------------------------------------------------------------
(* The device control backend: the inductive invariant.                                                *)

\* What a request has to know of the tables: rows are never deleted, so what
\* it has found is still there when it uses it.
Grounded(q) ==
    /\ "op" \in DOMAIN q
    /\ q.op = "gadget" => q.dev \in Gadgets
    /\ q.op = "mail" => /\ q.dev \in Registered
                        /\ (q.at = "email" /\ q.policy) => <<q.dev, MailPolicy>> \in settings
    /\ q.op = "setting" => q.user \/ q.row[1] \in Registered

\* A device that nobody registered has the status of a new one.
NewAsDecided ==
    /\ decided \in [Gadgets -> Statuses]
    /\ Registered \subseteq Gadgets
    /\ \A g \in Gadgets \ Registered : decided[g] = Normal

\* Alone, a process that puts an answer together has read all devices there are.
ReadAll ==
    Sequential => \A w \in Workers : req[w].op = "info" => req[w].read = Registered

CInv ==
    /\ DOMAIN req = Workers /\ alive \subseteq Workers
    /\ \A w \in Workers : Grounded(req[w]) /\ (req[w] # Idle => w \in alive)
    /\ \A n \in notices : n[2] \in Registered
    /\ NewAsDecided /\ ReadAll /\ ControlSound

-----------------------------------------------------------------------------

\* Process w goes on with q; the tables only grow.
LEMMA Goes ==
    ASSUME CInv, NEW w \in alive, NEW q, req' = [req EXCEPT ![w] = q], UNCHANGED alive,
           Registered \subseteq Registered', settings \subseteq settings',
           Grounded(q)', q.op = "info" => q.read = Registered',
           Registered' = Registered \/ q.op # "info",
           \A n \in notices' : n[2] \in Registered',
           NewAsDecided', ControlSound'
    PROVE  CInv'
<1>1. w \in Workers /\ req'[w] = q /\ \A v \in Workers \ {w} : req'[v] = req[v]
  BY DEF CInv
<1>2. \A v \in Workers : Grounded(req[v])' /\ (req'[v] # Idle => v \in alive')
  <2>1. Grounded(req[w])'
    BY <1>1 DEF Grounded
  <2>2. ASSUME NEW v \in Workers \ {w} PROVE Grounded(req[v])'
    <3>1. Grounded(req[v]) /\ req'[v] = req[v]
      BY <1>1 DEF CInv
    <3> QED
      BY <3>1 DEF Grounded
  <2> QED
    BY <1>1, <2>1, <2>2 DEF CInv
<1>3. ReadAll'
  <2> SUFFICES ASSUME Sequential, NEW v \in Workers, req'[v].op = "info"
               PROVE  req'[v].read = Registered'
    BY DEF ReadAll, Sequential
  <2>1. CASE v = w
    BY <1>1, <2>1
  <2>2. CASE v # w
    <3>1. req[v] # Idle
      BY <1>1, <2>2 DEF Idle
    <3>2. v \in alive
      BY <3>1 DEF CInv
    <3> QED
      BY <2>2, <3>2, TheOnlyOne DEF CInv
  <2> QED
    BY <2>1, <2>2
<1> QED
  BY <1>1, <1>2, <1>3 DEF CInv

\* The request of w ends.
LEMMA RequestEnds ==
    ASSUME CInv, NEW w \in alive, Answer(w),
           Registered \subseteq Registered', settings \subseteq settings',
           \A n \in notices' : n[2] \in Registered',
           NewAsDecided', ControlSound'
    PROVE  CInv'
<1>1. Grounded(Idle)' /\ Idle.op # "info"
  BY DEF Grounded, Idle
<1>2. req' = [req EXCEPT ![w] = Idle] /\ UNCHANGED alive
  BY DEF Answer, Continue
<1> QED
  BY <1>1, <1>2, Goes

\* No request moves.
LEMMA Apart ==
    ASSUME CInv, UNCHANGED serviceVars, Registered' = Registered, UNCHANGED settings,
           \A n \in notices' : n[2] \in Registered',
           NewAsDecided', ControlSound'
    PROVE  CInv'
<1>1. ReadAll'
  BY DEF CInv, ReadAll, Sequential, serviceVars
<1>2. \A w \in Workers : Grounded(req[w])'
  BY DEF CInv, Grounded, serviceVars
<1> QED
  BY <1>1, <1>2 DEF CInv, serviceVars

\* The tables of devices and options are the same, and so is what was mailed.
LEMMA SoundStays ==
    ASSUME CInv, UNCHANGED <<alive, gadgets, settings, decided, homeless, confused, owner, mailed, unmailed>>
    PROVE  NewAsDecided' /\ ControlSound' /\ Registered' = Registered
BY DEF CInv, NewAsDecided, ControlSound, StatusAsDecided, OptionsHaveDevice, MailsWanted,
       Sequential, Registered

-----------------------------------------------------------------------------
(* The actions.                                                            *)

\* A request arrives at w.
LEMMA ArrivesCInv ==
    ASSUME CInv, NEW w \in Workers, NEW q, Receive(w, q),
           UNCHANGED <<gadgets, settings, decided, welcomed, homeless, confused, mailVars>>,
           Grounded(q), q.op = "info" => q.read = Registered
    PROVE  CInv'
<1>1. w \in alive /\ req' = [req EXCEPT ![w] = q] /\ UNCHANGED alive
  BY DEF Receive, Free
<1>2. Grounded(q)' /\ \A n \in notices' : n[2] \in Registered'
  BY DEF Grounded, Registered, CInv, mailVars
<1>3. NewAsDecided' /\ ControlSound' /\ Registered' = Registered
  BY <1>1, SoundStays DEF mailVars
<1> QED
  BY <1>1, <1>2, <1>3, Goes

\* Process w that is working on a request is one of those that were started.
LEMMA WorksCInv ==
    ASSUME CInv, NEW w \in Workers, req[w].op # "idle"
    PROVE  w \in alive
<1>1. req[w] # Idle
  BY DEF Idle
<1> QED
  BY <1>1 DEF CInv

\* A request about one device.
LEMMA ReceivedCInv ==
    ASSUME CInv, NEW w \in Workers, NEW g \in Gadgets, NEW k \in Settings, NEW user \in BOOLEAN,
           RegisterGadget(w, g) \/ UpdateSetting(w, g, k, user)
    PROVE  CInv'
<1>1. CASE RegisterGadget(w, g)
  <2> PICK q : q = [op |-> "gadget", at |-> IF g \in Registered THEN "known" ELSE "insert", dev |-> g]
    OBVIOUS
  <2>1. Grounded(q) /\ q.op # "info"
    BY DEF Grounded
  <2> QED
    BY <1>1, <2>1, ArrivesCInv DEF RegisterGadget
<1>2. CASE UpdateSetting(w, g, k, user)
  <2> PICK q : q = [op |-> "setting", at |-> IF <<g, k>> \in settings THEN "update" ELSE "insert",
                    row |-> <<g, k>>, user |-> user]
    OBVIOUS
  <2>1. Grounded(q) /\ q.op # "info"
    BY <1>2 DEF Grounded, UpdateSetting
  <2> QED
    BY <1>2, <2>1, ArrivesCInv DEF UpdateSetting
<1> QED
  BY <1>1, <1>2

\* Answers that say what is in the tables, or that there is nothing to do.
LEMMA AnsweredCInv ==
    ASSUME CInv, NEW w \in Workers, InsertUser(w) \/ GadgetKnown(w) \/ ControlCrash(w)
    PROVE  CInv'
<1>1. w \in alive
  BY WorksCInv DEF InsertUser, GadgetKnown, ControlCrash, At
<1>2. /\ Answer(w) /\ notices' \subseteq notices
      /\ UNCHANGED <<gadgets, settings, decided, homeless, confused, mailed, unmailed>>
      /\ owner => owner'
  BY DEF InsertUser, GadgetKnown, ControlCrash, mailVars
<1>3. NewAsDecided' /\ ControlSound' /\ Registered' = Registered
  <2>1. UNCHANGED alive
    BY <1>2 DEF Answer, Continue
  <2>2. NewAsDecided' /\ StatusAsDecided' /\ OptionsHaveDevice' /\ Registered' = Registered
    BY <1>2, <2>1 DEF CInv, ControlSound, NewAsDecided, StatusAsDecided, OptionsHaveDevice,
                      Sequential, Registered
  <2>3. MailsWanted'
    BY <1>2 DEF CInv, ControlSound, MailsWanted, Registered
  <2> QED
    BY <2>2, <2>3 DEF ControlSound
<1> QED
  BY <1>1, <1>2, <1>3, RequestEnds DEF CInv

\* The mail: what the request knows of the device stays true.
LEMMA MailCInv ==
    ASSUME CInv, NEW w \in Workers, NEW g,
           Unheard(w, g) \/ SelectPolicy(w) \/ SelectEmail(w)
    PROVE  CInv'
<1>1. CASE Unheard(w, g)
  <2> PICK q : q = [op |-> "mail", at |-> "policy", dev |-> g]
    OBVIOUS
  <2>1. w \in alive /\ req' = [req EXCEPT ![w] = q] /\ UNCHANGED alive
    BY <1>1 DEF Unheard, Free, Continue
  <2>2. NewAsDecided' /\ ControlSound' /\ Registered' = Registered
    BY <1>1, <2>1, SoundStays DEF Unheard
  <2>3. <<w, g>>[2] \in Registered /\ notices' \subseteq notices
    BY <1>1 DEF Unheard, CInv
  <2>4. Grounded(q)' /\ q.op # "info"
    BY <2>2, <2>3 DEF Grounded
  <2>5. settings' = settings
    BY <1>1 DEF Unheard
  <2> QED
    BY <2>1, <2>2, <2>3, <2>4, <2>5, Goes DEF CInv
<1>2. CASE SelectPolicy(w)
  <2> PICK q : q = [op |-> "mail", at |-> "email", dev |-> req[w].dev,
                    policy |-> <<req[w].dev, MailPolicy>> \in settings]
    OBVIOUS
  <2>1. w \in alive /\ req' = [req EXCEPT ![w] = q] /\ UNCHANGED alive
    BY <1>2, WorksCInv DEF SelectPolicy, Continue, At
  <2>2. /\ NewAsDecided' /\ ControlSound' /\ Registered' = Registered
        /\ settings' = settings /\ notices' = notices
    BY <1>2, <2>1, SoundStays DEF SelectPolicy, mailVars
  <2>3. req[w].dev \in Registered
    BY <1>2 DEF CInv, Grounded, SelectPolicy, At
  <2>4. Grounded(q)' /\ q.op # "info"
    BY <2>2, <2>3 DEF Grounded
  <2> QED
    BY <2>1, <2>2, <2>4, Goes DEF CInv
<1>3. CASE SelectEmail(w)
  <2>1. w \in alive /\ Answer(w) /\ UNCHANGED alive
    BY <1>3, WorksCInv DEF SelectEmail, Answer, Continue, At
  <2>2. UNCHANGED <<gadgets, settings, decided, homeless, confused, notices, owner>>
    BY <1>3 DEF SelectEmail
  <2>3. NewAsDecided' /\ StatusAsDecided' /\ OptionsHaveDevice' /\ Registered' = Registered
    BY <2>1, <2>2 DEF CInv, ControlSound, NewAsDecided, StatusAsDecided, OptionsHaveDevice,
                      Sequential, Registered
  <2>4. req[w].dev \in Registered /\ (req[w].policy => <<req[w].dev, MailPolicy>> \in settings)
    BY <1>3 DEF CInv, Grounded, SelectEmail, At
  <2>5. MailsWanted'
    BY <1>3, <2>2, <2>3, <2>4 DEF CInv, ControlSound, MailsWanted, SelectEmail
  <2> QED
    BY <2>1, <2>2, <2>3, <2>5, RequestEnds DEF CInv, ControlSound
<1> QED
  BY <1>1, <1>2, <1>3

\* A device is new: until now its status was decided to be that of a new one.
LEMMA InsertGadgetCInv ==
    ASSUME CInv, NEW w \in Workers, InsertGadget(w)
    PROVE  CInv'
<1> PICK d : d = req[w].dev
  OBVIOUS
<1>1. w \in alive /\ Answer(w) /\ UNCHANGED <<alive, settings, decided, homeless, confused>>
  BY WorksCInv DEF InsertGadget, At, Answer, Continue
<1>2. d \in Gadgets
  BY DEF CInv, Grounded, InsertGadget, At
<1>3. CASE d \in Registered
  <2>1. UNCHANGED <<gadgets, mailVars>>
    BY <1>3 DEF InsertGadget
  <2>2. NewAsDecided' /\ ControlSound' /\ Registered' = Registered
    BY <1>1, <2>1, SoundStays DEF mailVars
  <2> QED
    BY <1>1, <2>1, <2>2, RequestEnds DEF CInv, mailVars
<1>4. CASE d \notin Registered
  <2>1. gadgets' = WithGadget(d) /\ notices' = notices \cup {<<w, d>>} /\ UNCHANGED <<owner, mailed, unmailed>>
    BY <1>4 DEF InsertGadget, Notify
  <2>2. Registered' = Registered \cup {d}
    BY <2>1 DEF WithGadget, Registered
  <2>3. decided[d] = Normal
    BY <1>2, <1>4 DEF CInv, NewAsDecided
  <2>4. NewAsDecided'
    BY <1>1, <1>2, <2>2 DEF CInv, NewAsDecided
  <2>5. StatusAsDecided'
    <3> SUFFICES ASSUME NEW g \in Registered \cup {d} PROVE gadgets'[g] = decided[g]
      BY <1>1, <2>2 DEF StatusAsDecided
    <3>1. gadgets'[g] = IF g = d THEN Normal ELSE gadgets[g]
      BY <2>1 DEF WithGadget
    <3> QED
      BY <2>3, <3>1 DEF CInv, ControlSound, StatusAsDecided
  <2>6. OptionsHaveDevice' /\ MailsWanted'
    BY <1>1, <2>1, <2>2 DEF CInv, ControlSound, OptionsHaveDevice, MailsWanted, Sequential
  <2>7. \A n \in notices' : n[2] \in Registered'
    BY <2>1, <2>2 DEF CInv
  <2> QED
    BY <1>1, <2>2, <2>4, <2>5, <2>6, <2>7, RequestEnds DEF ControlSound
<1> QED
  BY <1>3, <1>4

\* What is told of, or not, and statuses that are decided.
LEMMA DirectCInv ==
    ASSUME CInv, NEW w \in Workers, NEW g \in Gadgets, NEW s \in Statuses, NEW user \in BOOLEAN,
           Heard(w, g) \/ UpdateGadgetType(w, g) \/ UpdateStatus(w, g, s, user)
    PROVE  CInv'
<1>1. UNCHANGED <<serviceVars, settings, homeless, confused, owner, mailed, unmailed>>
  BY DEF Heard, UpdateGadgetType, UpdateStatus, Notify, mailVars
<1>2. \A n \in notices' : n[2] \in Registered
  BY DEF CInv, Heard, UpdateGadgetType, UpdateStatus, Notify, mailVars
<1>3. CASE Heard(w, g) \/ UpdateGadgetType(w, g)
  <2>1. UNCHANGED <<alive, gadgets, decided>>
    BY <1>3 DEF Heard, UpdateGadgetType, serviceVars
  <2> QED
    BY <1>1, <1>2, <2>1, SoundStays, Apart
<1>4. CASE UpdateStatus(w, g, s, user)
  <2>1. /\ g \in Registered /\ gadgets' = [gadgets EXCEPT ![g] = s]
        /\ decided' = [decided EXCEPT ![g] = s]
    BY <1>4 DEF UpdateStatus
  <2>2. Registered' = Registered
    BY <2>1 DEF Registered
  <2>3. NewAsDecided'
    BY <2>1, <2>2 DEF CInv, NewAsDecided
  <2>4. StatusAsDecided'
    <3> SUFFICES ASSUME NEW h \in Registered PROVE gadgets'[h] = decided'[h]
      BY <2>2 DEF StatusAsDecided
    <3>1. gadgets'[h] = IF h = g THEN s ELSE gadgets[h]
      BY <2>1 DEF Registered
    <3>2. decided'[h] = IF h = g THEN s ELSE decided[h]
      BY <2>1 DEF CInv, NewAsDecided
    <3> QED
      BY <3>1, <3>2 DEF CInv, ControlSound, StatusAsDecided
  <2>5. OptionsHaveDevice' /\ MailsWanted'
    BY <1>1, <2>2 DEF CInv, ControlSound, OptionsHaveDevice, MailsWanted, Sequential, serviceVars
  <2> QED
    BY <1>1, <1>2, <2>2, <2>3, <2>4, <2>5, Apart DEF ControlSound
<1> QED
  BY <1>3, <1>4

\* An option of a device that is not registered is a user's.
LEMMA WriteSettingCInv ==
    ASSUME CInv, NEW w \in Workers, WriteSetting(w)
    PROVE  CInv'
<1> PICK row : row = req[w].row
  OBVIOUS
<1>1. /\ w \in alive /\ Answer(w) /\ settings' = settings \cup {row}
      /\ UNCHANGED <<alive, gadgets, decided, confused, notices, owner, mailed, unmailed>>
      /\ Registered' = Registered
  BY WorksCInv DEF WriteSetting, At, Answer, Continue, mailVars, Registered
<1>2. homeless \subseteq homeless' /\ (row[1] \in Registered \/ row \in homeless')
  BY DEF WriteSetting, CInv, Grounded, At
<1>3. NewAsDecided' /\ StatusAsDecided'
  BY <1>1 DEF CInv, ControlSound, NewAsDecided, StatusAsDecided
<1>4. OptionsHaveDevice'
  BY <1>1, <1>2 DEF CInv, ControlSound, OptionsHaveDevice, Sequential
<1>5. MailsWanted'
  BY <1>1 DEF CInv, ControlSound, MailsWanted
<1> QED
  BY <1>1, <1>3, <1>4, <1>5, RequestEnds DEF CInv, ControlSound

\* A device that is lacking from the list has only options of users, unless
\* another process registered it meanwhile.
LEMMA RequestOptionsCInv ==
    ASSUME CInv, NEW w \in Workers, RequestOptions(w)
    PROVE  CInv'
<1>1. /\ w \in alive /\ Answer(w) /\ confused' = confused \cup Lacking(w)
      /\ UNCHANGED <<alive, gadgets, settings, decided, homeless, notices, owner, mailed, unmailed>>
      /\ Registered' = Registered
  BY WorksCInv DEF RequestOptions, At, Answer, Continue, mailVars, Registered
<1>2. ASSUME Sequential, NEW g \in Lacking(w) PROVE \E row \in homeless : row[1] = g
  <2>1. req[w].read = Registered
    BY <1>2 DEF CInv, ReadAll, RequestOptions, At
  <2>2. PICK row \in settings : row[1] = g /\ g \notin Registered
    BY <2>1 DEF Lacking
  <2> QED
    BY <2>2 DEF CInv, ControlSound, OptionsHaveDevice
<1>3. OptionsHaveDevice'
  BY <1>1, <1>2 DEF CInv, ControlSound, OptionsHaveDevice, Sequential
<1>4. NewAsDecided' /\ StatusAsDecided' /\ MailsWanted'
  BY <1>1 DEF CInv, ControlSound, NewAsDecided, StatusAsDecided, MailsWanted
<1> QED
  BY <1>1, <1>3, <1>4, RequestEnds DEF CInv, ControlSound

-----------------------------------------------------------------------------

LEMMA InitCInv == ControlInit => CInv
<1> SUFFICES ASSUME ControlInit PROVE CInv
  OBVIOUS
<1>1. DOMAIN req = Workers /\ alive \subseteq Workers /\ \A w \in Workers : req[w] = Idle
  BY DEF ControlInit, ServiceInit
<1>2. Grounded(Idle) /\ Idle.op # "info"
  BY DEF Grounded, Idle
<1>3. Registered = {} /\ settings = {} /\ notices = {} /\ mailed = {} /\ unmailed = {} /\ confused = {}
  BY DEF ControlInit, Registered
<1>4. NewAsDecided
  BY <1>3, ControlAssumption DEF ControlInit, NewAsDecided
<1>5. ControlSound
  BY <1>3 DEF ControlSound, StatusAsDecided, OptionsHaveDevice, MailsWanted
<1> QED
  BY <1>1, <1>2, <1>3, <1>4, <1>5 DEF CInv, ReadAll

LEMMA NextCInv == CInv /\ [ControlNext]_controlVars => CInv'
<1> SUFFICES ASSUME CInv, [ControlNext]_controlVars PROVE CInv'
  OBVIOUS
<1>1. ASSUME NEW w \in Workers, NEW g \in Gadgets,
             \/ RegisterGadget(w, g) \/ UpdateGadgetType(w, g)
             \/ \E s \in Statuses, user \in BOOLEAN : UpdateStatus(w, g, s, user)
             \/ Heard(w, g) \/ Unheard(w, g)
             \/ \E k \in Settings, user \in BOOLEAN : UpdateSetting(w, g, k, user)
      PROVE  CInv'
  <2>1. CASE RegisterGadget(w, g)
    BY <2>1, ControlAssumption, ReceivedCInv
  <2>2. CASE UpdateGadgetType(w, g) \/ Heard(w, g)
    BY <2>2, ControlAssumption, DirectCInv
  <2>3. CASE \E s \in Statuses, user \in BOOLEAN : UpdateStatus(w, g, s, user)
    BY <2>3, DirectCInv
  <2>4. CASE Unheard(w, g)
    BY <2>4, MailCInv
  <2>5. CASE \E k \in Settings, user \in BOOLEAN : UpdateSetting(w, g, k, user)
    BY <2>5, ReceivedCInv
  <2> QED
    BY <1>1, <2>1, <2>2, <2>3, <2>4, <2>5
<1>2. ASSUME NEW w \in Workers, ConnectUser(w) \/ RequestDevices(w)
      PROVE  CInv'
  <2> PICK q : q = IF RequestDevices(w) THEN [op |-> "info", at |-> "options", read |-> Registered]
                   ELSE [op |-> "user", at |-> "insert"]
    OBVIOUS
  <2>1. Grounded(q) /\ (q.op = "info" => q.read = Registered)
    BY DEF Grounded
  <2> QED
    BY <1>2, <2>1, ArrivesCInv DEF ConnectUser, RequestDevices
<1>3. ASSUME NEW w \in Workers, InsertUser(w) \/ GadgetKnown(w) \/ ControlCrash(w)
      PROVE  CInv'
  BY <1>3, AnsweredCInv
<1>4. ASSUME NEW w \in Workers, SelectPolicy(w) \/ SelectEmail(w)
      PROVE  CInv'
  BY <1>4, MailCInv
<1>5. CASE UNCHANGED controlVars
  <2>1. UNCHANGED <<serviceVars, gadgets, settings, decided, homeless, confused, notices, owner, mailed, unmailed>>
    BY <1>5 DEF controlVars, mailVars
  <2> QED
    BY <2>1, SoundStays, Apart DEF CInv, serviceVars
<1> QED
  BY <1>1, <1>2, <1>3, <1>4, <1>5, InsertGadgetCInv, WriteSettingCInv, RequestOptionsCInv
     DEF ControlNext

\* Every device has the status that was decided for it last, options belong to
\* devices but for what users ask for, and mails are sent where they are wanted:
\* with any number of processes that overtake each other and die anywhere.
THEOREM DevicesAsDecided == ControlSpec => []ControlSound
<1>1. CInv => ControlSound
  BY DEF CInv
<1> QED
  BY <1>1, InitCInv, NextCInv, PTL DEF ControlSpec

-----------------------------------------------------------------------------
(* The machine-learning backend: the inductive invariant.                                                *)

StoreRequest == [op : {"store"}, at : {"models", "devices"}, dev : Things,
                 known : BOOLEAN, model : Model]

\* What a process works on is to store a model or something else.
StoreRequests ==
    /\ DOMAIN req = Workers
    /\ \A w \in Workers : \/ req[w] \in StoreRequest
                          \/ "op" \in DOMAIN req[w] /\ req[w].op # "store"

\* The tables, and that the names noted for a device are those of its models.
Tables ==
    /\ models \subseteq Model
    /\ DOMAIN devices \subseteq Things
    /\ \A d \in DOMAIN devices : devices[d] \in models /\ devices[d].name \in named[d]
    /\ named \in [Things -> SUBSET Names]
    /\ \A d \in Things : IsFiniteSet(named[d])

Storing(w) == req[w] \in StoreRequest
Assigns(w) == Storing(w) /\ req[w].at = "devices"

\* A request that found its device finds it again; one that did not stores a
\* version 1.  What is about to be assigned has been stored, by one request.
UnderWay ==
    /\ \A w \in Workers : Storing(w) => IF req[w].known THEN req[w].dev \in DOMAIN devices
                                           ELSE req[w].model.version = 1
    /\ \A w \in Workers : Assigns(w) => /\ req[w].model \in models
                            /\ req[w].model.name \in named[req[w].dev]
    /\ \A v, w \in Workers : Assigns(v) /\ Assigns(w) /\ req[v].model = req[w].model => v = w

Single(d) == \A n, m \in named[d] : n = m

\* As long as a device's models have one name, all versions up to the device's
\* are there, no request is ahead of the next one, and one that is about to
\* assign has that one.
Climb ==
    \A d \in DOMAIN devices : Single(d) =>
        /\ \A k \in 1 .. devices[d].version : [name |-> devices[d].name, version |-> k] \in models
        /\ \A w \in Workers : (Storing(w) /\ req[w].dev = d /\ req[w].known) =>
             /\ req[w].model.version <= devices[d].version + 1
             /\ Assigns(w) => req[w].model.version = devices[d].version + 1

MInv == StoreRequests /\ Tables /\ UnderWay /\ Climb

-----------------------------------------------------------------------------
\* A model is its name and its version.
LEMMA ModelParts ==
    ASSUME NEW m \in Model
    PROVE  /\ m.name \in Names /\ m.version \in Nat \ {0}
           /\ m = [name |-> m.name, version |-> m.version]
BY ModelAssumption DEF Model

\* At most one name, counted, is one name.
LEMMA OneNameIsSingle ==
    ASSUME Tables, NEW d \in Things, OneName(d)
    PROVE  Single(d)
<1>1. IsFiniteSet(named[d]) /\ Cardinality(named[d]) \in Nat
  BY FS_CardinalityType DEF Tables
<1>2. CASE Cardinality(named[d]) = 0
  <2>1. named[d] = {}
    BY <1>1, <1>2, FS_EmptySet
  <2> QED
    BY <2>1 DEF Single
<1>3. CASE Cardinality(named[d]) = 1
  <2>1. \E n : named[d] = {n}
    BY <1>1, <1>3, FS_Singleton
  <2> QED
    BY <2>1 DEF Single
<1> QED
  BY <1>1, <1>2, <1>3 DEF OneName

\* A process that is done, or that does something else than storing, disturbs
\* nothing.
LEMMA SomethingElse ==
    ASSUME MInv, NEW w \in Workers, NEW r, req' = [req EXCEPT ![w] = r],
           "op" \in DOMAIN r, r.op # "store", UNCHANGED <<models, devices, named>>
    PROVE  MInv'
<1>1. /\ DOMAIN req' = Workers /\ req'[w] = r
      /\ \A v \in Workers \ {w} : req'[v] = req[v]
  BY DEF MInv, StoreRequests
<1>2. r \notin StoreRequest
  BY DEF StoreRequest
<1>3. \A v \in Workers : Storing(v)' => Storing(v) /\ req'[v] = req[v]
  BY <1>1, <1>2 DEF Storing, StoreRequest
<1>4. StoreRequests'
  BY <1>1 DEF MInv, StoreRequests, StoreRequest
<1>5. Tables'
  BY DEF MInv, Tables
<1>6. UnderWay'
  BY <1>3 DEF MInv, UnderWay, Assigns
<1>7. Climb'
  BY <1>3 DEF MInv, Climb, Assigns, Single
<1> QED
  BY <1>4, <1>5, <1>6, <1>7 DEF MInv

LEMMA SameRequests ==
    ASSUME MInv, UNCHANGED <<req, models, devices, named>>
    PROVE  MInv'
BY DEF MInv, StoreRequests, Tables, UnderWay, Climb, Storing, Assigns, Single

\* The next statement of a request that is not to store a model.
LEMMA NextStatement ==
    ASSUME MInv, NEW w \in Workers, NEW at, Goto(w, at), req[w].op # "store",
           UNCHANGED <<models, devices, named>>
    PROVE  MInv'
<1> DEFINE r == [req[w] EXCEPT !.at = at]
<1>1. "op" \in DOMAIN req[w]
  BY DEF MInv, StoreRequests, StoreRequest
<1>2. DOMAIN r = DOMAIN req[w] /\ r.op = req[w].op
  BY <1>1
<1>3. req' = [req EXCEPT ![w] = r]
  BY DEF Goto, Continue
<1> HIDE DEF r
<1> QED
  BY <1>1, <1>2, <1>3, SomethingElse

LEMMA Ended ==
    ASSUME MInv, NEW w \in Workers, Answer(w), UNCHANGED <<models, devices, named>>
    PROVE  MInv'
<1>1. "op" \in DOMAIN Idle /\ Idle.op # "store"
  BY DEF Idle
<1>2. req' = [req EXCEPT ![w] = Idle]
  BY DEF Answer, Continue
<1> QED
  BY <1>1, <1>2, SomethingElse

-----------------------------------------------------------------------------
(* storeModel.                                                             *)

LEMMA StoreModelMInv ==
    ASSUME MInv, NEW w \in Workers, NEW d \in Things, NEW n \in Names, StoreModel(w, d, n)
    PROVE  MInv'
<1> USE DEF MInv
<1> DEFINE known == d \in DOMAIN devices
           version == IF known THEN devices[d].version + 1 ELSE 1
           r == [op |-> "store", at |-> "models", dev |-> d, known |-> known,
                 model |-> [name |-> n, version |-> version]]
<1>1. /\ version <= MaxVersion /\ req' = [req EXCEPT ![w] = r]
      /\ UNCHANGED <<models, devices, named>>
  BY DEF StoreModel, Receive
<1>2. version \in 1 .. MaxVersion
  <2>1. CASE known
    <3>1. devices[d].version \in Nat
      BY <2>1, ModelParts DEF Tables
    <3> QED
      BY <1>1, <2>1, <3>1, ModelAssumption
  <2>2. CASE ~known
    BY <1>1, <2>2, ModelAssumption
  <2> QED
    BY <2>1, <2>2
<1> HIDE DEF version
<1>3. r \in StoreRequest
  BY <1>2 DEF StoreRequest, Model
<1>4. r.at = "models" /\ r.dev = d /\ r.known = known /\ r.model.version = version
  OBVIOUS
<1>5. known => version = devices[d].version + 1
  BY DEF version
<1>6. ~known => version = 1
  BY DEF version
<1> HIDE DEF r, known
<1>7. DOMAIN req' = Workers /\ req'[w] = r /\ \A v \in Workers \ {w} : req'[v] = req[v]
  BY <1>1 DEF StoreRequests
<1>8. ~Assigns(w)' /\ \A v \in Workers \ {w} : (Storing(v)' <=> Storing(v)) /\ (Assigns(v)' <=> Assigns(v))
  BY <1>4, <1>7 DEF Assigns, Storing
<1>9. StoreRequests'
  BY <1>3, <1>7 DEF StoreRequests
<1>10. Tables'
  BY <1>1 DEF Tables
<1>11. UnderWay'
  <2>1. IF known THEN d \in DOMAIN devices ELSE version = 1
    BY <1>6 DEF known
  <2>2. \A v \in Workers : Storing(v)' =>
          IF req'[v].known THEN req'[v].dev \in DOMAIN devices' ELSE req'[v].model.version = 1
    BY <1>1, <1>4, <1>7, <1>8, <2>1 DEF UnderWay
  <2>3. \A v \in Workers : Assigns(v)' => /\ req'[v].model \in models'
                                         /\ req'[v].model.name \in named'[req'[v].dev]
    BY <1>1, <1>7, <1>8 DEF UnderWay
  <2>4. \A u, v \in Workers : Assigns(u)' /\ Assigns(v)' /\ req'[u].model = req'[v].model => u = v
    BY <1>7, <1>8 DEF UnderWay
  <2> QED
    BY <2>2, <2>3, <2>4 DEF UnderWay
<1>12. Climb'
  <2> SUFFICES ASSUME NEW e \in DOMAIN devices, Single(e)
               PROVE  /\ \A k \in 1 .. devices[e].version :
                            [name |-> devices[e].name, version |-> k] \in models
                      /\ \A v \in Workers : (Storing(v)' /\ req'[v].dev = e /\ req'[v].known) =>
                            /\ req'[v].model.version <= devices[e].version + 1
                            /\ Assigns(v)' => req'[v].model.version = devices[e].version + 1
    BY <1>1 DEF Climb, Single
  <2>1. ASSUME NEW v \in Workers \ {w}, Storing(v)', req'[v].dev = e, req'[v].known
        PROVE  /\ req'[v].model.version <= devices[e].version + 1
               /\ Assigns(v)' => req'[v].model.version = devices[e].version + 1
    BY <1>7, <1>8, <2>1 DEF Climb
  <2>2. ASSUME req'[w].dev = e, req'[w].known
        PROVE  req'[w].model.version <= devices[e].version + 1
    <3>1. version = devices[e].version + 1 /\ version \in Nat
      BY <1>2, <1>4, <1>5, <1>7, <2>2
    <3> QED
      BY <1>4, <1>7, <3>1
  <2> QED
    BY <1>8, <2>1, <2>2 DEF Climb
<1> QED
  BY <1>9, <1>10, <1>11, <1>12

LEMMA InsertModelMInv ==
    ASSUME MInv, NEW w \in Workers, InsertModel(w)
    PROVE  MInv'
<1> USE DEF MInv
<1> DEFINE m == req[w].model
           d == req[w].dev
<1>1. CASE m \in models
  BY <1>1, Ended DEF InsertModel
<1>2. CASE m \notin models
  <2>1. /\ models' = models \cup {m} /\ named' = [named EXCEPT ![d] = @ \cup {m.name}]
        /\ req' = [req EXCEPT ![w] = [req[w] EXCEPT !.at = "devices"]] /\ devices' = devices
    BY <1>2 DEF InsertModel, Goto, Continue
  <2>2. req[w] \in StoreRequest /\ req[w].at = "models"
    BY DEF InsertModel, At, StoreRequests
  <2>3. m \in Model /\ d \in Things /\ req[w].known \in BOOLEAN
    BY <2>2 DEF StoreRequest
  <2>4. /\ DOMAIN req' = Workers /\ \A v \in Workers \ {w} : req'[v] = req[v]
        /\ req'[w] \in StoreRequest /\ req'[w].at = "devices"
        /\ req'[w].dev = d /\ req'[w].known = req[w].known /\ req'[w].model = m
    BY <2>1, <2>2 DEF StoreRequests, StoreRequest
  <2> HIDE DEF m, d
  <2>5. Storing(w) /\ Storing(w)' /\ Assigns(w)' /\ ~Assigns(w)
    BY <2>2, <2>4 DEF Storing, Assigns
  <2>6. \A v \in Workers \ {w} : (Storing(v)' <=> Storing(v)) /\ (Assigns(v)' <=> Assigns(v))
    BY <2>4 DEF Storing, Assigns
  <2>7. StoreRequests'
    BY <2>4 DEF StoreRequests
  <2>8. /\ named'[d] = named[d] \cup {m.name} /\ \A e \in Things : named[e] \subseteq named'[e]
        /\ \A e \in Things \ {d} : named'[e] = named[e]
    BY <2>1, <2>3 DEF Tables
  <2>9. Tables'
    <3>1. m.name \in Names
      BY <2>3, ModelParts
    <3>2. named' \in [Things -> SUBSET Names]
      BY <2>1, <3>1 DEF Tables
    <3>3. \A e \in Things : IsFiniteSet(named'[e])
      <4>1. IsFiniteSet(named'[d])
        BY <2>3, <2>8, FS_AddElement DEF Tables
      <4> QED
        BY <2>8, <4>1 DEF Tables
    <3> QED
      BY <2>1, <2>3, <2>8, <3>2, <3>3 DEF Tables
  <2>10. UnderWay'
    <3>1. \A v \in Workers : Storing(v)' =>
            IF req'[v].known THEN req'[v].dev \in DOMAIN devices' ELSE req'[v].model.version = 1
      <4>1. IF req[w].known THEN d \in DOMAIN devices ELSE m.version = 1
        BY <2>5 DEF UnderWay, m, d
      <4> QED
        BY <2>1, <2>4, <2>6, <4>1 DEF UnderWay
    <3>2. \A v \in Workers : Assigns(v)' => /\ req'[v].model \in models'
                                           /\ req'[v].model.name \in named'[req'[v].dev]
      <4>1. ASSUME NEW v \in Workers \ {w}, Assigns(v)'
            PROVE  req'[v].model \in models' /\ req'[v].model.name \in named'[req'[v].dev]
        <5>1. req[v].dev \in Things
          BY <2>6, <4>1 DEF Assigns, Storing, StoreRequest
        <5> QED
          BY <2>1, <2>4, <2>6, <2>8, <4>1, <5>1 DEF UnderWay
      <4> QED
        BY <2>1, <2>4, <2>8, <4>1
    <3>3. \A u, v \in Workers : Assigns(u)' /\ Assigns(v)' /\ req'[u].model = req'[v].model => u = v
      <4>1. \A v \in Workers \ {w} : Assigns(v)' => req'[v].model # m
        BY <1>2, <2>4, <2>6 DEF UnderWay
      <4> QED
        BY <2>4, <2>6, <4>1 DEF UnderWay
    <3> QED
      BY <3>1, <3>2, <3>3 DEF UnderWay
  <2>11. Climb'
    <3> SUFFICES ASSUME NEW e \in DOMAIN devices, Single(e)'
                 PROVE  /\ \A k \in 1 .. devices[e].version :
                              [name |-> devices[e].name, version |-> k] \in models'
                        /\ \A v \in Workers : (Storing(v)' /\ req'[v].dev = e /\ req'[v].known) =>
                              /\ req'[v].model.version <= devices[e].version + 1
                              /\ Assigns(v)' => req'[v].model.version = devices[e].version + 1
      BY <2>1 DEF Climb
    <3>1. Single(e) /\ e \in Things
      BY <2>8 DEF Single, Tables
    <3>2. \A k \in 1 .. devices[e].version : [name |-> devices[e].name, version |-> k] \in models'
      BY <2>1, <3>1 DEF Climb
    <3>3. ASSUME NEW v \in Workers \ {w}, Storing(v)', req'[v].dev = e, req'[v].known
          PROVE  /\ req'[v].model.version <= devices[e].version + 1
                 /\ Assigns(v)' => req'[v].model.version = devices[e].version + 1
      BY <2>4, <2>6, <3>1, <3>3 DEF Climb
    <3>4. ASSUME d = e, req[w].known
          PROVE  m.version = devices[e].version + 1
      <4>1. m.version <= devices[e].version + 1
        BY <2>5, <3>1, <3>4 DEF Climb, m, d
      <4>2. m.name = devices[e].name
        BY <2>8, <3>4 DEF Single, Tables
      <4>3. devices[e].version \in Nat /\ m.version \in Nat \ {0}
        BY <2>3, ModelParts DEF Tables
      <4>4. m = [name |-> devices[e].name, version |-> m.version]
        BY <2>3, <4>2, ModelParts
      <4>5. m.version \notin 1 .. devices[e].version
        BY <1>2, <3>1, <4>4 DEF Climb
      <4> QED
        BY <4>1, <4>3, <4>5
    <3>5. devices[e].version \in Nat
      BY ModelParts DEF Tables
    <3>6. ASSUME req'[w].dev = e, req'[w].known
          PROVE  req'[w].model.version = devices[e].version + 1
      BY <2>4, <3>4, <3>6
    <3> QED
      BY <3>2, <3>3, <3>5, <3>6
  <2> QED
    BY <2>7, <2>9, <2>10, <2>11
<1> QED
  BY <1>1, <1>2

-----------------------------------------------------------------------------
(* The model of a device.                                                  *)

\* A device whose models have one name gets the version after its own.
LEMMA AssignIsNext ==
    ASSUME MInv, NEW w \in Workers, AssignModel(w), devices' # devices,
           req[w].dev \in DOMAIN devices, Single(req[w].dev)
    PROVE  /\ req[w].model.version = devices[req[w].dev].version + 1
           /\ req[w].model.name = devices[req[w].dev].name
<1>1. req[w] \in StoreRequest /\ Storing(w) /\ Assigns(w)
  BY DEF MInv, AssignModel, At, StoreRequests, Storing, Assigns
<1>2. req[w].known
  BY <1>1 DEF AssignModel, StoreRequest
<1>3. req[w].model.name \in named[req[w].dev]
  BY <1>1 DEF MInv, UnderWay
<1>4. devices[req[w].dev].name \in named[req[w].dev]
  BY DEF MInv, Tables
<1> QED
  BY <1>1, <1>2, <1>3, <1>4 DEF MInv, Climb, Single

LEMMA AssignModelMInv ==
    ASSUME MInv, NEW w \in Workers, AssignModel(w)
    PROVE  MInv'
<1> DEFINE m == req[w].model
           d == req[w].dev
<1>1. req[w] \in StoreRequest /\ Storing(w) /\ Assigns(w) /\ m \in Model /\ d \in Things
      /\ req[w].known \in BOOLEAN
  BY DEF MInv, AssignModel, At, StoreRequests, Storing, Assigns, StoreRequest
<1>2. CASE devices' = devices
  BY <1>2, Ended DEF AssignModel
<1>3. CASE devices' # devices
  <2>1. devices' = Put(devices, d, m) /\ UNCHANGED <<models, named>> /\ req' = [req EXCEPT ![w] = Idle]
    BY <1>3 DEF AssignModel, Answer, Continue
  <2>2. /\ DOMAIN devices' = DOMAIN devices \cup {d} /\ devices'[d] = m
        /\ \A e \in DOMAIN devices \ {d} : devices'[e] = devices[e]
    BY <2>1 DEF Put
  <2>3. m \in models /\ m.name \in named[d]
    BY <1>1 DEF MInv, UnderWay
  <2>4. /\ DOMAIN req' = Workers /\ \A v \in Workers \ {w} : req'[v] = req[v]
        /\ "op" \in DOMAIN req'[w] /\ req'[w].op # "store"
    BY <2>1 DEF MInv, StoreRequests, Idle
  <2>5. ~Storing(w)' /\ \A v \in Workers \ {w} : (Storing(v)' <=> Storing(v)) /\ (Assigns(v)' <=> Assigns(v))
    BY <2>4 DEF Storing, Assigns, StoreRequest
  <2>6. d \in DOMAIN devices \/ ~req[w].known
    BY <1>1 DEF MInv, UnderWay
  <2>7. ~req[w].known => m.version = 1 /\ d \notin DOMAIN devices
    BY <1>1, <1>3 DEF MInv, UnderWay, AssignModel
  <2>8. (d \in DOMAIN devices /\ Single(d)) =>
          m.version = devices[d].version + 1 /\ m.name = devices[d].name
    BY <1>3, AssignIsNext
  <2> HIDE DEF m, d
  <2>9. StoreRequests'
    BY <2>4 DEF MInv, StoreRequests
  <2>10. Tables'
    BY <1>1, <2>1, <2>2, <2>3 DEF MInv, Tables
  <2>11. UnderWay'
    BY <2>1, <2>2, <2>4, <2>5 DEF MInv, UnderWay, Assigns
  <2>12. Climb'
    <3> SUFFICES ASSUME NEW e \in DOMAIN devices', Single(e)
                 PROVE  /\ \A k \in 1 .. devices'[e].version :
                              [name |-> devices'[e].name, version |-> k] \in models
                        /\ \A v \in Workers : (Storing(v)' /\ req'[v].dev = e /\ req'[v].known) =>
                              /\ req'[v].model.version <= devices'[e].version + 1
                              /\ Assigns(v)' => req'[v].model.version = devices'[e].version + 1
      BY <2>1 DEF Climb, Single
    <3>1. CASE e # d
      BY <2>2, <2>4, <2>5, <3>1 DEF MInv, Climb
    <3>2. CASE e = d /\ d \notin DOMAIN devices
      <4>1. m.version = 1 /\ m = [name |-> m.name, version |-> m.version]
        BY <1>1, <2>6, <2>7, <3>2, ModelParts
      <4>2. \A k \in 1 .. 1 : k = 1
        OBVIOUS
      <4>3. \A v \in Workers : ~(Storing(v)' /\ req'[v].dev = d /\ req'[v].known)
        BY <2>4, <2>5, <3>2 DEF MInv, UnderWay
      <4> QED
        BY <2>2, <2>3, <3>2, <4>1, <4>2, <4>3
    <3>3. CASE e = d /\ d \in DOMAIN devices
      <4> DEFINE old == devices[d].version
      <4>1. m.version = old + 1 /\ m.name = devices[d].name /\ old \in Nat
        BY <2>8, <3>3, ModelParts DEF MInv, Tables
      <4>2. m = [name |-> m.name, version |-> m.version]
        BY <1>1, ModelParts
      <4>3. \A k \in 1 .. old : [name |-> m.name, version |-> k] \in models
        BY <3>3, <4>1 DEF MInv, Climb
      <4>4. \A k \in 1 .. m.version : [name |-> m.name, version |-> k] \in models
        <5>1. \A k \in 1 .. m.version : k \in 1 .. old \/ k = m.version
          BY <4>1
        <5> QED
          BY <2>3, <4>2, <4>3, <5>1
      <4>5. ASSUME NEW v \in Workers \ {w}, Storing(v)', req'[v].dev = d, req'[v].known
            PROVE  req'[v].model.version <= m.version + 1 /\ ~Assigns(v)'
        <5>1. req'[v] = req[v] /\ Storing(v) /\ req[v].model \in Model
          BY <2>4, <2>5, <4>5 DEF Storing, StoreRequest
        <5>2. req[v].model.version <= old + 1 /\ (Assigns(v) => req[v].model.version = old + 1)
          BY <3>3, <4>5, <5>1 DEF MInv, Climb
        <5>3. req[v].model.version <= m.version + 1
          <6>1. req[v].model.version \in Nat
            BY <5>1, ModelParts
          <6> QED
            BY <4>1, <5>2, <6>1
        <5>4. ASSUME Assigns(v) PROVE FALSE
          <6>1. req[v].model.name \in named[d]
            BY <4>5, <5>1, <5>4 DEF MInv, UnderWay
          <6>2. req[v].model.name = m.name
            BY <2>3, <3>3, <6>1 DEF Single
          <6>3. req[v].model = [name |-> m.name, version |-> m.version]
            BY <4>1, <5>1, <5>2, <5>4, <6>2, ModelParts
          <6> QED
            BY <1>1, <4>2, <5>4, <6>3 DEF MInv, UnderWay, m
        <5> QED
          BY <2>5, <5>1, <5>3, <5>4
      <4> QED
        BY <2>2, <2>5, <3>3, <4>4, <4>5
    <3> QED
      BY <2>2, <3>1, <3>2, <3>3
  <2> QED
    BY <2>9, <2>10, <2>11, <2>12 DEF MInv
<1> QED
  BY <1>2, <1>3

-----------------------------------------------------------------------------
(* The other requests, every step, and the theorem.                        *)

LEMMA InitMInv == ModelInit => MInv
<1> SUFFICES ASSUME ModelInit PROVE MInv
  OBVIOUS
<1>1. DOMAIN req = Workers /\ \A w \in Workers : req[w] = Idle
  BY DEF ModelInit, ServiceInit
<1>2. Idle \notin StoreRequest /\ "op" \in DOMAIN Idle /\ Idle.op # "store"
  BY DEF Idle, StoreRequest
<1>3. DOMAIN devices = {} /\ models = {}
  BY DEF ModelInit
<1>4. Tables
  BY <1>3, FS_EmptySet DEF ModelInit, Tables
<1> QED
  BY <1>1, <1>2, <1>3, <1>4 DEF MInv, StoreRequests, UnderWay, Climb, Storing, Assigns

LEMMA PullMInv ==
    ASSUME MInv, NEW w \in Workers,
           \/ \E b \in Boxes, d \in Things :
                GetLatestModel(w, b, d) \/ \E v \in 1 .. MaxVersion : GetModel(w, b, d, v)
           \/ FindVersion(w) \/ InsertPulled(w) \/ UpdatePulled(w)
    PROVE  MInv'
<1>1. ASSUME NEW b \in Boxes, NEW d \in Things, GetLatestModel(w, b, d) PROVE MInv'
  <2> DEFINE r == [op |-> "pull", at |-> "insert", pair |-> <<b, d>>, model |-> devices[d]]
  <2>1. req' = [req EXCEPT ![w] = r] /\ UNCHANGED <<models, devices, named>>
    BY <1>1 DEF GetLatestModel, Receive
  <2>2. "op" \in DOMAIN r /\ r.op # "store"
    OBVIOUS
  <2> HIDE DEF r
  <2> QED
    BY <2>1, <2>2, SomethingElse
<1>2. ASSUME NEW b \in Boxes, NEW d \in Things, NEW v \in 1 .. MaxVersion, GetModel(w, b, d, v)
      PROVE  MInv'
  <2> DEFINE r == [op |-> "pull", at |-> "models", pair |-> <<b, d>>, model |-> devices[d],
                   version |-> v]
  <2>1. req' = [req EXCEPT ![w] = r] /\ UNCHANGED <<models, devices, named>>
    BY <1>2 DEF GetModel, Receive
  <2>2. "op" \in DOMAIN r /\ r.op # "store"
    OBVIOUS
  <2> HIDE DEF r
  <2> QED
    BY <2>1, <2>2, SomethingElse
<1>3. CASE FindVersion(w)
  BY <1>3, Ended, NextStatement DEF FindVersion, At
<1>4. CASE InsertPulled(w)
  BY <1>4, Ended, NextStatement DEF InsertPulled, At
<1>5. CASE UpdatePulled(w)
  BY <1>5, Ended DEF UpdatePulled
<1> QED
  BY <1>1, <1>2, <1>3, <1>4, <1>5

LEMMA NextMInv == MInv /\ [ModelNext]_modelVars => MInv'
<1> SUFFICES ASSUME MInv, [ModelNext]_modelVars PROVE MInv'
  OBVIOUS
<1>1. CASE UNCHANGED modelVars
  BY <1>1, SameRequests DEF modelVars, serviceVars
<1>2. ASSUME NEW w \in Workers,
             \/ \E d \in Things, m \in models : SelectAffected(w, d, m)
             \/ \E b \in Boxes : TellNext(w, b)
             \/ AllTold(w)
      PROVE  MInv'
  BY <1>2, SameRequests DEF SelectAffected, TellNext, AllTold, serviceVars
<1>3. ASSUME NEW w \in Workers, ModelCrash(w) PROVE MInv'
  BY <1>3, Ended DEF ModelCrash
<1> QED
  BY <1>1, <1>2, <1>3, StoreModelMInv, InsertModelMInv, AssignModelMInv, PullMInv DEF ModelNext

\* A device whose models all have one name only moves to a higher version
\* (storeModel, app.py:250-284), however many processes store models for however many
\* devices at once, and wherever one of them dies.
THEOREM VersionsOnlyGrow == ModelSpec => VersionsGrow
<1>1. MInv /\ [ModelNext]_modelVars =>
        [\A d \in DOMAIN devices :
           (OneName(d) /\ devices'[d] # devices[d]) => devices'[d].version > devices[d].version]_modelVars
  <2> SUFFICES ASSUME MInv, ModelNext, NEW d \in DOMAIN devices, OneName(d), devices'[d] # devices[d]
               PROVE  devices'[d].version > devices[d].version
    OBVIOUS
  <2>1. PICK w \in Workers : AssignModel(w)
    BY DEF ModelNext, StoreModel, InsertModel, GetLatestModel, GetModel, FindVersion, InsertPulled,
           UpdatePulled, SelectAffected, TellNext, AllTold, ModelCrash
  <2>2. devices' = Put(devices, req[w].dev, req[w].model)
    BY <2>1 DEF AssignModel
  <2>3. d = req[w].dev /\ devices'[d] = req[w].model
    BY <2>2 DEF Put
  <2>4. Single(d)
    BY OneNameIsSingle DEF MInv, Tables
  <2>5. req[w].model.version = devices[d].version + 1
    BY <2>1, <2>3, <2>4, AssignIsNext
  <2>6. devices[d].version \in Nat
    BY ModelParts DEF MInv, Tables
  <2> QED
    BY <2>3, <2>5, <2>6
<1>2. ModelSpec => []MInv
  BY InitMInv, NextMInv, PTL DEF ModelSpec
<1> QED
  BY <1>1, <1>2, PTL DEF ModelSpec, VersionsGrow

-----------------------------------------------------------------------------
(* One process.                                                            *)

\* A request to pull a model, which notes the pair.
Pulls(w) == /\ {"op", "at", "pair", "model"} \subseteq DOMAIN req[w]
            /\ req[w].op = "pull" /\ req[w].model \in Model

Alive ==
    /\ alive \subseteq Workers /\ \A w \in Workers : req[w] # Idle => w \in alive
    /\ \A w \in Workers : req[w].op = "pull" => Pulls(w)
    /\ \A p \in DOMAIN pulled : pulled[p] \in Model

\* A request still finds the device's model as it read it, or still no model.
Current(w) ==
    /\ Storing(w) => IF req[w].known
                    THEN /\ req[w].dev \in DOMAIN devices
                         /\ req[w].model.version = devices[req[w].dev].version + 1
                    ELSE req[w].dev \notin DOMAIN devices
    /\ Pulls(w) => /\ req[w].pair[2] \in DOMAIN devices
                   /\ req[w].model = devices[req[w].pair[2]]

\* No watchdog is noted to have a newer model than the device's.
Behind == \A p \in DOMAIN pulled : p[2] \in DOMAIN devices /\ pulled[p].version <= devices[p[2]].version

SInv == MInv /\ Alive /\ (Sequential => Behind /\ \A w \in Workers : Current(w))

\* The one process is every process.
LEMMA OthersRest ==
    ASSUME Alive, Sequential, NEW w \in alive, NEW v \in Workers \ {w}
    PROVE  req[v] = Idle
<1>1. IsFiniteSet(alive)
  BY ServiceAssumption, FS_Subset DEF Alive
<1>2. \E x : alive = {x}
  BY <1>1, FS_Singleton DEF Sequential
<1> QED
  BY <1>2 DEF Alive

LEMMA IdleIsCurrent == \A w \in Workers : req[w] = Idle => Current(w) /\ ~Pulls(w)
BY DEF Idle, Current, Storing, Pulls, StoreRequest

\* Process w goes on with r; what is noted is as it should be.
LEMMA OneGoesOn ==
    ASSUME SInv, [ModelNext]_modelVars, NEW w \in alive, NEW r, req' = [req EXCEPT ![w] = r],
           UNCHANGED alive, r.op = "pull" => Pulls(w)',
           \A p \in DOMAIN pulled' : pulled'[p] \in Model,
           Sequential => Behind' /\ Current(w)'
    PROVE  SInv'
<1> USE DEF SInv
<1>1. /\ w \in Workers /\ req'[w] = r /\ \A v \in Workers \ {w} : req'[v] = req[v]
  BY DEF Alive, MInv, StoreRequests
<1>2. MInv'
  BY NextMInv
<1>3. Alive'
  BY <1>1 DEF Alive, Pulls
<1>4. ASSUME Sequential PROVE Behind' /\ \A v \in Workers : Current(v)'
  <2>1. \A v \in Workers \ {w} : req'[v] = Idle
    BY <1>1, <1>4, OthersRest
  <2>2. \A v \in Workers \ {w} : Current(v)'
    BY <2>1 DEF Idle, Current, Storing, Pulls, StoreRequest
  <2> QED
    BY <1>4, <2>2
<1> QED
  BY <1>2, <1>3, <1>4 DEF Sequential

\* ... in particular when it only answers.
LEMMA OneIsDone ==
    ASSUME SInv, [ModelNext]_modelVars, NEW w \in alive, Answer(w),
           \A p \in DOMAIN pulled' : pulled'[p] \in Model, Sequential => Behind'
    PROVE  SInv'
<1>1. req' = [req EXCEPT ![w] = Idle] /\ UNCHANGED alive /\ w \in Workers
  BY DEF Answer, Continue, SInv, Alive
<1>2. Idle.op # "pull"
  BY DEF Idle
<1>3. req'[w] = Idle
  BY <1>1 DEF SInv, MInv, StoreRequests
<1>4. Current(w)'
  BY <1>3 DEF Idle, Current, Storing, Pulls, StoreRequest
<1> QED
  BY <1>1, <1>2, <1>4, OneGoesOn

LEMMA SameNotes ==
    ASSUME SInv, UNCHANGED <<pulled, devices>>
    PROVE  (\A p \in DOMAIN pulled' : pulled'[p] \in Model) /\ (Sequential => Behind')
BY DEF SInv, Alive, Behind

LEMMA NothingNoted ==
    ASSUME SInv, [ModelNext]_modelVars, UNCHANGED <<alive, req, pulled, devices>>
    PROVE  SInv'
<1>1. MInv'
  BY NextMInv DEF SInv
<1> QED
  BY <1>1 DEF SInv, Alive, Behind, Current, Storing, Pulls, Sequential

LEMMA BusyIsAlive ==
    ASSUME SInv, NEW w \in Workers, req[w].op # "idle"
    PROVE  w \in alive
BY DEF SInv, Alive, Idle

-----------------------------------------------------------------------------
(* storeModel, with one process.                                           *)

LEMMA StoreSInv ==
    ASSUME SInv, ModelNext, NEW w \in Workers, NEW d \in Things, NEW n \in Names, StoreModel(w, d, n)
    PROVE  SInv'
<1> DEFINE known == d \in DOMAIN devices
           version == IF known THEN devices[d].version + 1 ELSE 1
           r == [op |-> "store", at |-> "models", dev |-> d, known |-> known,
                 model |-> [name |-> n, version |-> version]]
<1>1. w \in alive /\ req' = [req EXCEPT ![w] = r] /\ UNCHANGED <<alive, pulled, devices>>
  BY DEF StoreModel, Receive, Free
<1>2. req'[w] = r
  BY <1>1 DEF SInv, MInv, StoreRequests
<1>3. Current(w)'
  <2>1. r.op = "store" /\ r.dev = d /\ r.known = known /\ r.model.version = version
    OBVIOUS
  <2> HIDE DEF r
  <2> QED
    BY <1>1, <1>2, <2>1 DEF Current, Storing, Pulls
<1>4. r.op # "pull"
  OBVIOUS
<1> HIDE DEF r
<1> QED
  BY <1>1, <1>3, <1>4, SameNotes, OneGoesOn

LEMMA InsertSInv == ASSUME SInv, ModelNext, NEW w \in Workers, InsertModel(w) PROVE SInv'
<1>1. req[w].op = "store" /\ w \in alive /\ UNCHANGED <<pulled, devices>>
  BY BusyIsAlive DEF InsertModel, At
<1>2. CASE req[w].model \in models
  BY <1>1, <1>2, SameNotes, OneIsDone DEF InsertModel
<1>3. CASE req[w].model \notin models
  <2> DEFINE r == [req[w] EXCEPT !.at = "devices"]
  <2>1. req' = [req EXCEPT ![w] = r] /\ UNCHANGED alive
    BY <1>3 DEF InsertModel, Goto, Continue
  <2>2. req[w] \in StoreRequest
    BY <1>1 DEF SInv, MInv, StoreRequests
  <2>3. /\ r \in StoreRequest /\ r.dev = req[w].dev /\ r.known = req[w].known
        /\ r.model = req[w].model /\ r.op = "store"
    BY <2>2 DEF StoreRequest
  <2>4. req'[w] = r
    BY <2>1 DEF SInv, MInv, StoreRequests
  <2> HIDE DEF r
  <2>5. ASSUME Sequential PROVE Current(w)'
    <3>1. Current(w) /\ Storing(w)
      BY <2>2, <2>5 DEF SInv, Storing
    <3> QED
      BY <1>1, <2>3, <2>4, <3>1 DEF Current, Storing, Pulls
  <2> QED
    BY <1>1, <2>1, <2>3, <2>5, SameNotes, OneGoesOn
<1> QED
  BY <1>2, <1>3

LEMMA AssignSInv == ASSUME SInv, ModelNext, NEW w \in Workers, AssignModel(w) PROVE SInv'
<1>1. req[w].op = "store" /\ w \in alive /\ Answer(w) /\ UNCHANGED pulled
  BY BusyIsAlive DEF AssignModel, At
<1>2. \A p \in DOMAIN pulled' : pulled'[p] \in Model
  BY <1>1 DEF SInv, Alive
<1>3. ASSUME Sequential PROVE Behind'
  <2>1. CASE devices' = devices
    BY <1>1, <1>3, <2>1 DEF SInv, Behind
  <2>2. CASE devices' # devices
    <3> DEFINE d == req[w].dev
               m == req[w].model
    <3>1. /\ DOMAIN devices' = DOMAIN devices \cup {d} /\ devices'[d] = m
          /\ \A e \in DOMAIN devices \ {d} : devices'[e] = devices[e]
      BY <2>2 DEF AssignModel, Put
    <3>2. Current(w) /\ Storing(w) /\ req[w].known \in BOOLEAN
      BY <1>1, <1>3 DEF SInv, Storing, MInv, StoreRequests, StoreRequest
    <3>3. d \in DOMAIN devices => m.version = devices[d].version + 1
      BY <3>2 DEF Current
    <3> HIDE DEF d, m
    <3>4. ASSUME NEW p \in DOMAIN pulled
          PROVE  p[2] \in DOMAIN devices' /\ pulled[p].version <= devices'[p[2]].version
      <4>1. p[2] \in DOMAIN devices /\ pulled[p].version <= devices[p[2]].version
        BY <1>3 DEF SInv, Behind
      <4>2. pulled[p].version \in Nat /\ devices[p[2]].version \in Nat
        BY <4>1, ModelParts DEF SInv, Alive, MInv, Tables
      <4>3. CASE p[2] = d
        BY <3>1, <3>3, <4>1, <4>2, <4>3
      <4>4. CASE p[2] # d
        BY <3>1, <4>1, <4>4
      <4> QED
        BY <4>3, <4>4
    <3> QED
      BY <1>1, <3>4 DEF Behind
  <2> QED
    BY <2>1, <2>2
<1> QED
  BY <1>1, <1>2, <1>3, OneIsDone

-----------------------------------------------------------------------------
(* Pulling a model, with one process.                                      *)

LEMMA PullSInv ==
    ASSUME SInv, ModelNext, NEW w \in Workers, NEW b \in Boxes, NEW d \in Things,
           GetLatestModel(w, b, d) \/ \E v \in 1 .. MaxVersion : GetModel(w, b, d, v)
    PROVE  SInv'
<1>1. ASSUME NEW r, {"op", "at", "pair", "model"} \subseteq DOMAIN r, r.op = "pull",
             r.pair = <<b, d>>, r.model = devices[d], d \in DOMAIN devices,
             Receive(w, r), UNCHANGED <<pulled, devices>>
      PROVE  SInv'
  <2>1. w \in alive /\ req' = [req EXCEPT ![w] = r] /\ UNCHANGED alive
    BY <1>1 DEF Receive, Free
  <2>2. req'[w] = r
    BY <2>1 DEF SInv, MInv, StoreRequests
  <2>3. devices[d] \in Model
    BY <1>1 DEF SInv, MInv, Tables
  <2>4. Pulls(w)' /\ Current(w)'
    BY <1>1, <2>2, <2>3 DEF Pulls, Current, Storing, StoreRequest
  <2> QED
    BY <1>1, <2>1, <2>4, SameNotes, OneGoesOn
<1>2. CASE GetLatestModel(w, b, d)
  <2> DEFINE r == [op |-> "pull", at |-> "insert", pair |-> <<b, d>>, model |-> devices[d]]
  <2>1. /\ {"op", "at", "pair", "model"} \subseteq DOMAIN r /\ r.op = "pull"
        /\ r.pair = <<b, d>> /\ r.model = devices[d]
    OBVIOUS
  <2>2. d \in DOMAIN devices /\ Receive(w, r) /\ UNCHANGED <<pulled, devices>>
    BY <1>2 DEF GetLatestModel
  <2> HIDE DEF r
  <2> QED
    BY <1>1, <2>1, <2>2
<1>3. ASSUME NEW v \in 1 .. MaxVersion, GetModel(w, b, d, v) PROVE SInv'
  <2> DEFINE r == [op |-> "pull", at |-> "models", pair |-> <<b, d>>, model |-> devices[d],
                   version |-> v]
  <2>1. /\ {"op", "at", "pair", "model"} \subseteq DOMAIN r /\ r.op = "pull"
        /\ r.pair = <<b, d>> /\ r.model = devices[d]
    OBVIOUS
  <2>2. d \in DOMAIN devices /\ Receive(w, r) /\ UNCHANGED <<pulled, devices>>
    BY <1>3 DEF GetModel
  <2> HIDE DEF r
  <2> QED
    BY <1>1, <2>1, <2>2
<1> QED
  BY <1>2, <1>3

\* The next statement of a request to pull.
LEMMA PullGoesOn ==
    ASSUME SInv, ModelNext, NEW w \in Workers, req[w].op = "pull", NEW at, Goto(w, at),
           UNCHANGED <<pulled, devices>>
    PROVE  SInv'
<1> DEFINE r == [req[w] EXCEPT !.at = at]
<1>1. w \in alive /\ Pulls(w) /\ req' = [req EXCEPT ![w] = r] /\ UNCHANGED alive
  BY BusyIsAlive DEF SInv, Alive, Goto, Continue
<1>2. DOMAIN r = DOMAIN req[w] /\ r.op = "pull" /\ r.pair = req[w].pair /\ r.model = req[w].model
  BY <1>1 DEF Pulls
<1>3. req'[w] = r
  BY <1>1 DEF SInv, MInv, StoreRequests
<1> HIDE DEF r
<1>4. Pulls(w)'
  BY <1>1, <1>2, <1>3 DEF Pulls
<1>5. ASSUME Sequential PROVE Current(w)'
  <2>1. Current(w)
    BY <1>5 DEF SInv
  <2> QED
    BY <1>1, <1>2, <1>3, <2>1 DEF Current, Storing, StoreRequest
<1> QED
  BY <1>1, <1>4, <1>5, SameNotes, OneGoesOn

\* What is noted is the device's model.
LEMMA Noted ==
    ASSUME SInv, ModelNext, NEW w \in Workers, req[w].op = "pull", Answer(w), UNCHANGED devices,
           pulled' = Put(pulled, req[w].pair, req[w].model)
    PROVE  SInv'
<1>1. w \in alive /\ Pulls(w) /\ req[w].model \in Model
  BY BusyIsAlive DEF SInv, Alive, Pulls
<1> DEFINE p == req[w].pair
           m == req[w].model
<1>2. /\ DOMAIN pulled' = DOMAIN pulled \cup {p} /\ pulled'[p] = m
      /\ \A q \in DOMAIN pulled \ {p} : pulled'[q] = pulled[q]
  BY DEF Put
<1>3. \A q \in DOMAIN pulled' : pulled'[q] \in Model
  <2>1. m \in Model
    BY <1>1
  <2> HIDE DEF p, m
  <2>2. ASSUME NEW q \in DOMAIN pulled' PROVE pulled'[q] \in Model
    <3>1. CASE q = p
      BY <1>2, <2>1, <3>1
    <3>2. CASE q # p
      BY <1>2, <2>2, <3>2 DEF SInv, Alive
    <3> QED
      BY <3>1, <3>2
  <2> QED
    BY <2>2
<1>4. ASSUME Sequential PROVE Behind'
  <2>1. p[2] \in DOMAIN devices /\ m = devices[p[2]]
    BY <1>1, <1>4 DEF SInv, Current
  <2>2. m.version \in Nat
    BY <1>1, ModelParts
  <2> HIDE DEF p, m
  <2> QED
    BY <1>2, <1>4, <2>1, <2>2 DEF SInv, Behind
<1> QED
  BY <1>1, <1>3, <1>4, OneIsDone

\* The second statement, after a duplicate, finds the row.
LEMMA FoundAgain ==
    ASSUME SInv, NEW w \in Workers, UpdatePulled(w), req[w].pair \in DOMAIN pulled
    PROVE  pulled' = Put(pulled, req[w].pair, req[w].model)
<1>1. pulled' = [pulled EXCEPT ![req[w].pair] = req[w].model]
  BY DEF UpdatePulled
<1>2. DOMAIN pulled \cup {req[w].pair} = DOMAIN pulled
  OBVIOUS
<1> QED
  BY <1>1, <1>2 DEF Put

LEMMA NotePairSInv ==
    ASSUME SInv, ModelNext, NEW w \in Workers, FindVersion(w) \/ InsertPulled(w) \/ UpdatePulled(w)
    PROVE  SInv'
<1>1. req[w].op = "pull" /\ w \in alive /\ UNCHANGED devices
  BY BusyIsAlive DEF FindVersion, InsertPulled, UpdatePulled, At
<1>2. CASE FindVersion(w)
  BY <1>1, <1>2, SameNotes, OneIsDone, PullGoesOn DEF FindVersion
<1>3. CASE InsertPulled(w)
  BY <1>1, <1>3, PullGoesOn, Noted DEF InsertPulled
<1>4. CASE UpdatePulled(w)
  <2>1. Answer(w)
    BY <1>4 DEF UpdatePulled
  <2>2. CASE req[w].pair \in DOMAIN pulled
    BY <1>1, <1>4, <2>1, <2>2, FoundAgain, Noted
  <2>3. CASE req[w].pair \notin DOMAIN pulled
    <3>1. DOMAIN pulled' = DOMAIN pulled /\ \A p \in DOMAIN pulled : pulled'[p] = pulled[p]
      BY <1>4, <2>3 DEF UpdatePulled
    <3>2. (\A p \in DOMAIN pulled' : pulled'[p] \in Model) /\ (Sequential => Behind')
      BY <1>1, <3>1 DEF SInv, Alive, Behind
    <3> QED
      BY <1>1, <2>1, <3>2, OneIsDone
  <2> QED
    BY <2>2, <2>3
<1> QED
  BY <1>2, <1>3, <1>4

-----------------------------------------------------------------------------
(* Every step, and the second theorem.                                     *)

LEMMA InitSInv == ModelInit => SInv
<1> SUFFICES ASSUME ModelInit PROVE SInv
  OBVIOUS
<1>1. alive \subseteq Workers /\ (\A w \in Workers : req[w] = Idle) /\ DOMAIN pulled = {}
  BY DEF ModelInit, ServiceInit
<1>2. \A w \in Workers : Current(w) /\ req[w].op # "pull"
  BY <1>1, IdleIsCurrent DEF Idle
<1> QED
  BY <1>1, <1>2, InitMInv DEF SInv, Alive, Behind

LEMMA NextSInv == SInv /\ [ModelNext]_modelVars => SInv'
<1> SUFFICES ASSUME SInv, [ModelNext]_modelVars PROVE SInv'
  OBVIOUS
<1>1. CASE UNCHANGED modelVars
  BY <1>1, NothingNoted DEF modelVars, serviceVars
<1>2. ASSUME ModelNext, NEW w \in Workers,
             \/ \E d \in Things, m \in models : SelectAffected(w, d, m)
             \/ \E b \in Boxes : TellNext(w, b)
             \/ AllTold(w)
      PROVE  SInv'
  BY <1>2, NothingNoted DEF SelectAffected, TellNext, AllTold, serviceVars
<1>3. ASSUME ModelNext, NEW w \in Workers, ModelCrash(w) PROVE SInv'
  BY <1>3, SameNotes, OneIsDone DEF ModelCrash
<1>4. CASE ModelNext
  BY <1>2, <1>3, <1>4, StoreSInv, InsertSInv, AssignSInv, PullSInv, NotePairSInv DEF ModelNext
<1> QED
  BY <1>1, <1>4

\* updateWDModelMapping (app.py:64-74): with one process, what is noted for a
\* watchdog never goes back to an older model of the device, though an older
\* version was delivered (getModelByDeviceName).
THEOREM NotesOnlyGrow == ModelSpec => NotedForward
<1> DEFINE Grows == Sequential => \A p \in DOMAIN pulled : pulled'[p].version >= pulled[p].version
<1>1. SInv /\ [ModelNext]_modelVars => [Grows]_modelVars
  <2> SUFFICES ASSUME SInv, ModelNext, Sequential, NEW p \in DOMAIN pulled
               PROVE  pulled'[p].version >= pulled[p].version
    OBVIOUS
  <2>1. pulled[p].version \in Nat
    BY ModelParts DEF SInv, Alive
  <2>2. CASE pulled'[p] = pulled[p]
    BY <2>1, <2>2
  <2>3. CASE pulled'[p] # pulled[p]
    <3>1. PICK w \in Workers : InsertPulled(w) \/ UpdatePulled(w)
      BY <2>3 DEF ModelNext, StoreModel, InsertModel, AssignModel, GetLatestModel, GetModel,
              FindVersion, SelectAffected, TellNext, AllTold, ModelCrash
    <3>2. p = req[w].pair /\ pulled'[p] = req[w].model /\ req[w].op = "pull"
      BY <2>3, <3>1 DEF InsertPulled, UpdatePulled, Put, At
    <3>3. req[w].model = devices[p[2]]
      BY <3>2 DEF SInv, Alive, Current
    <3>4. pulled[p].version <= devices[p[2]].version /\ p[2] \in DOMAIN devices
      BY DEF SInv, Behind
    <3>5. devices[p[2]].version \in Nat
      BY <3>4, ModelParts DEF SInv, MInv, Tables
    <3> QED
      BY <2>1, <3>2, <3>3, <3>4, <3>5
  <2> QED
    BY <2>2, <2>3
<1>2. ModelSpec => []SInv
  BY InitSInv, NextSInv, PTL DEF ModelSpec
<1> QED
  BY <1>1, <1>2, PTL DEF ModelSpec, NotedForward

-----------------------------------------------------------------------------
(* Telling watchdogs to pull, for any number of processes.                 *)

Messages ==
    /\ DOMAIN telling = Workers
    /\ \A w \in Workers : \/ telling[w] = Silent
                          \/ DOMAIN telling[w] = {"dev", "model", "told", "late", "affected"}

Reach == Messages /\ PullReaches

LEMMA NotSilent == \A t : DOMAIN t = {"dev", "model", "told", "late", "affected"} => t # Silent
BY DEF Silent

\* A process that tells has more or fewer watchdogs left, and has told them.
LEMMA TellsOn ==
    ASSUME Reach, NEW w \in Workers, NEW t, telling' = [telling EXCEPT ![w] = t], UNCHANGED pulled,
           \/ t = Silent
           \/ /\ DOMAIN t = {"dev", "model", "told", "late", "affected"}
              /\ \A b \in t.told \cup t.affected : <<b, t.dev>> \in DOMAIN pulled
              /\ \A b \in Boxes : (<<b, t.dev>> \in DOMAIN pulled /\ pulled[<<b, t.dev>>] = t.model) =>
                                      b \in t.told \cup t.affected \cup t.late
    PROVE  Reach'
<1>1. DOMAIN telling' = Workers /\ telling'[w] = t /\ \A v \in Workers \ {w} : telling'[v] = telling[v]
  BY DEF Reach, Messages
<1>2. Messages'
  BY <1>1 DEF Reach, Messages
<1>3. PullReaches'
  <2> SUFFICES ASSUME NEW v \in Workers, telling'[v] # Silent
               PROVE  /\ \A b \in telling'[v].told \cup telling'[v].affected :
                            <<b, telling'[v].dev>> \in DOMAIN pulled
                      /\ \A b \in Boxes :
                            (<<b, telling'[v].dev>> \in DOMAIN pulled
                             /\ pulled[<<b, telling'[v].dev>>] = telling'[v].model) =>
                                 b \in telling'[v].told \cup telling'[v].affected \cup telling'[v].late
    BY DEF PullReaches
  <2>1. CASE v = w
    BY <1>1, <2>1
  <2>2. CASE v # w
    BY <1>1, <2>2 DEF Reach, PullReaches
  <2> QED
    BY <2>1, <2>2
<1> QED
  BY <1>2, <1>3 DEF Reach

\* Who takes the model meanwhile is late.
LEMMA TakenReach ==
    ASSUME Reach, NEW p, NEW m, TakenMeanwhile(p, m), DOMAIN pulled \subseteq DOMAIN pulled',
           \A q \in DOMAIN pulled' : \/ q = p /\ pulled'[q] = m
                                     \/ q \in DOMAIN pulled /\ pulled'[q] = pulled[q]
    PROVE  Reach'
<1>1. ASSUME NEW v \in Workers, telling[v] = Silent PROVE telling'[v] = Silent
  BY <1>1 DEF TakenMeanwhile
<1>2. ASSUME NEW v \in Workers, telling[v] # Silent
      PROVE  /\ DOMAIN telling'[v] = DOMAIN telling[v]
             /\ telling'[v].dev = telling[v].dev /\ telling'[v].model = telling[v].model
             /\ telling'[v].told = telling[v].told /\ telling'[v].affected = telling[v].affected
             /\ telling[v].late \subseteq telling'[v].late
             /\ (telling[v].dev = p[2] /\ telling[v].model = m) => p[1] \in telling'[v].late
  <2> PICK t : t = telling[v]
    OBVIOUS
  <2>1. DOMAIN t = {"dev", "model", "told", "late", "affected"}
    BY <1>2 DEF Reach, Messages
  <2>2. telling'[v] = IF t.dev = p[2] /\ t.model = m THEN [t EXCEPT !.late = @ \cup {p[1]}] ELSE t
    BY <1>2 DEF TakenMeanwhile
  <2>3. CASE t.dev = p[2] /\ t.model = m
    <3>1. telling'[v] = [t EXCEPT !.late = t.late \cup {p[1]}]
      BY <2>2, <2>3
    <3> QED
      BY <2>1, <3>1
  <2>4. CASE ~(t.dev = p[2] /\ t.model = m)
    BY <2>2, <2>4
  <2> QED
    BY <2>3, <2>4
<1>3. Messages'
  <2>1. DOMAIN telling' = Workers
    BY DEF TakenMeanwhile
  <2> QED
    BY <1>1, <1>2, <2>1 DEF Reach, Messages
<1>4. PullReaches'
  <2> SUFFICES ASSUME NEW v \in Workers, telling'[v] # Silent
               PROVE  /\ \A b \in telling'[v].told \cup telling'[v].affected :
                            <<b, telling'[v].dev>> \in DOMAIN pulled'
                      /\ \A b \in Boxes :
                            (<<b, telling'[v].dev>> \in DOMAIN pulled'
                             /\ pulled'[<<b, telling'[v].dev>>] = telling'[v].model) =>
                                 b \in telling'[v].told \cup telling'[v].affected \cup telling'[v].late
    BY DEF PullReaches
  <2>1. telling[v] # Silent
    BY <1>1
  <2>2. \A b \in telling[v].told \cup telling[v].affected : <<b, telling[v].dev>> \in DOMAIN pulled
    BY <2>1 DEF Reach, PullReaches
  <2>3. ASSUME NEW b \in Boxes, <<b, telling[v].dev>> \in DOMAIN pulled',
               pulled'[<<b, telling[v].dev>>] = telling[v].model
        PROVE  b \in telling'[v].told \cup telling'[v].affected \cup telling'[v].late
    <3>1. CASE <<b, telling[v].dev>> = p /\ m = telling[v].model
      <4>1. p[1] = b /\ p[2] = telling[v].dev
        BY <3>1
      <4> QED
        BY <1>2, <2>1, <3>1, <4>1
    <3>2. CASE /\ <<b, telling[v].dev>> \in DOMAIN pulled
               /\ pulled[<<b, telling[v].dev>>] = telling[v].model
      BY <1>2, <2>1, <3>2 DEF Reach, PullReaches
    <3> QED
      BY <2>3, <3>1, <3>2
  <2> QED
    BY <1>2, <2>1, <2>2, <2>3
<1> QED
  BY <1>3, <1>4 DEF Reach

LEMMA InitReach == ModelInit => Reach
BY DEF ModelInit, Reach, Messages, PullReaches

LEMMA SameReach == ASSUME Reach, UNCHANGED <<telling, pulled>> PROVE Reach'
BY DEF Reach, Messages, PullReaches

LEMMA NextReach == Reach /\ [ModelNext]_modelVars => Reach'
<1> SUFFICES ASSUME Reach, [ModelNext]_modelVars PROVE Reach'
  OBVIOUS
<1>1. CASE UNCHANGED modelVars
  BY <1>1, SameReach DEF modelVars
<1>2. ASSUME NEW w \in Workers,
             \/ \E d \in Things, n \in Names : StoreModel(w, d, n)
             \/ InsertModel(w) \/ AssignModel(w)
             \/ \E b \in Boxes, d \in Things :
                  GetLatestModel(w, b, d) \/ \E v \in 1 .. MaxVersion : GetModel(w, b, d, v)
             \/ FindVersion(w)
      PROVE  Reach'
  BY <1>2, SameReach DEF StoreModel, InsertModel, AssignModel, GetLatestModel, GetModel, FindVersion
<1>3. ASSUME NEW w \in Workers, InsertPulled(w) PROVE Reach'
  <2>1. CASE req[w].pair \in DOMAIN pulled
    BY <1>3, <2>1, SameReach DEF InsertPulled
  <2>2. CASE req[w].pair \notin DOMAIN pulled
    BY <1>3, <2>2, TakenReach DEF InsertPulled, Put
  <2> QED
    BY <2>1, <2>2
<1>4. ASSUME NEW w \in Workers, UpdatePulled(w) PROVE Reach'
  BY <1>4, TakenReach DEF UpdatePulled
<1>5. ASSUME NEW w \in Workers, NEW d \in Things, NEW m \in models, SelectAffected(w, d, m) PROVE Reach'
  <2> PICK t : t = [dev |-> d, model |-> m, told |-> {}, late |-> {},
          affected |-> {b \in Boxes : <<b, d>> \in DOMAIN pulled /\ pulled[<<b, d>>] = m}]
    OBVIOUS
  <2>1. telling' = [telling EXCEPT ![w] = t] /\ UNCHANGED pulled
    BY <1>5 DEF SelectAffected
  <2>2. DOMAIN t = {"dev", "model", "told", "late", "affected"}
    OBVIOUS
  <2> QED
    BY <2>1, <2>2, TellsOn
<1>6. ASSUME NEW w \in Workers, NEW b \in Boxes, TellNext(w, b) PROVE Reach'
  <2> PICK s : s = telling[w]
    OBVIOUS
  <2> PICK t : t = [s EXCEPT !.affected = s.affected \ {b}, !.told = s.told \cup {b}]
    OBVIOUS
  <2>1. telling' = [telling EXCEPT ![w] = t] /\ UNCHANGED pulled /\ s # Silent /\ b \in s.affected
    BY <1>6 DEF TellNext, Reach, Messages
  <2>2. DOMAIN s = {"dev", "model", "told", "late", "affected"}
    BY <2>1 DEF Reach, Messages
  <2>3. /\ DOMAIN t = DOMAIN s /\ t.dev = s.dev /\ t.model = s.model /\ t.late = s.late
        /\ t.affected = s.affected \ {b} /\ t.told = s.told \cup {b}
    BY <2>2
  <2>4. t.told \cup t.affected = s.told \cup s.affected
    BY <2>1, <2>3
  <2>5. /\ \A c \in s.told \cup s.affected : <<c, s.dev>> \in DOMAIN pulled
        /\ \A c \in Boxes : (<<c, s.dev>> \in DOMAIN pulled /\ pulled[<<c, s.dev>>] = s.model) =>
                                c \in s.told \cup s.affected \cup s.late
    BY <2>1 DEF Reach, PullReaches
  <2> QED
    BY <2>1, <2>2, <2>3, <2>4, <2>5, TellsOn
<1>7. ASSUME NEW w \in Workers, AllTold(w) \/ ModelCrash(w) PROVE Reach'
  BY <1>7, TellsOn DEF AllTold, ModelCrash
<1> QED
  BY <1>1, <1>2, <1>3, <1>4, <1>5, <1>6, <1>7 DEF ModelNext

-----------------------------------------------------------------------------
(* The next version is free, for any number of processes.                  *)

\* Every model was stored for a device.  When no other device has its name, all
\* models of the device have it and no crash left it alone, the device has come
\* to its version or somebody is about to assign it.
OnlyFor(d, n) == n \in named[d] /\ \A e \in Things \ {d} : n \notin named[e]
Reached(d, m) == d \in DOMAIN devices /\ m.version <= devices[d].version
Coming(d, m) == \E w \in Workers : Assigns(w) /\ req[w].dev = d /\ req[w].model = m

Accounted ==
    /\ \A m \in models : \E d \in Things : m.name \in named[d]
    /\ \A d \in Things, m \in models :
         (Single(d) /\ OnlyFor(d, m.name) /\ m.name \notin halved) => Reached(d, m) \/ Coming(d, m)

VerInv == MInv /\ Accounted

LEMMA NextIsFree == ASSUME VerInv PROVE NextVersionFree
<1> SUFFICES ASSUME NEW d \in DOMAIN devices, NEW next, next = [devices[d] EXCEPT !.version = @ + 1],
                    next \in models, OneName(d), devices[d].name \notin halved,
                    \A e \in Things \ {d} : devices[d].name \notin named[e]
             PROVE  \E w \in Workers : At(w, "store", "devices") /\ req[w].model = next
  BY DEF NextVersionFree
<1>1. d \in Things /\ devices[d] \in Model /\ devices[d].name \in named[d]
  BY DEF VerInv, MInv, Tables
<1>2. /\ next.name = devices[d].name /\ next.version = devices[d].version + 1
      /\ devices[d].version \in Nat
  BY <1>1, ModelParts DEF Model
<1>3. Single(d) /\ OnlyFor(d, next.name)
  BY <1>1, <1>2, OneNameIsSingle DEF VerInv, MInv, OnlyFor
<1>4. ~Reached(d, next)
  BY <1>2 DEF Reached
<1>5. Coming(d, next)
  BY <1>1, <1>2, <1>3, <1>4 DEF VerInv, Accounted
<1> QED
  BY <1>5 DEF Coming, Assigns, Storing, StoreRequest, At

\* Nothing is stored or assigned, and who is about to assign still is, or has died.
LEMMA StillAccounted ==
    ASSUME Accounted, UNCHANGED <<models, devices, named>>, halved \subseteq halved',
           \A v \in Workers : Assigns(v) => \/ Assigns(v)' /\ req'[v] = req[v]
                                            \/ req[v].model.name \in halved'
    PROVE  Accounted'
<1> SUFFICES ASSUME NEW d \in Things, NEW m \in models, Single(d), OnlyFor(d, m.name), m.name \notin halved'
             PROVE  Reached(d, m) \/ Coming(d, m)'
  BY DEF Accounted, Single, OnlyFor, Reached
<1>1. Reached(d, m) \/ Coming(d, m)
  BY DEF Accounted
<1> QED
  BY <1>1 DEF Coming

LEMMA OthersStore ==
    ASSUME MInv, NEW w \in Workers, NEW r, req' = [req EXCEPT ![w] = r]
    PROVE  \A v \in Workers \ {w} : (Assigns(v)' <=> Assigns(v)) /\ req'[v] = req[v]
BY DEF MInv, StoreRequests, Assigns, Storing

\* Process w goes on with r, which it does not do to assign a model.
LEMMA GoesOnAccounted ==
    ASSUME VerInv, NEW w \in Workers, NEW r, req' = [req EXCEPT ![w] = r],
           UNCHANGED <<models, devices, named>>, halved \subseteq halved',
           Assigns(w) => req[w].model.name \in halved'
    PROVE  Accounted'
BY OthersStore, StillAccounted DEF VerInv

LEMMA InsertAccounted ==
    ASSUME VerInv, NEW w \in Workers, InsertModel(w)
    PROVE  Accounted'
<1> PICK m : m = req[w].model
  OBVIOUS
<1> PICK d : d = req[w].dev
  OBVIOUS
<1>1. req[w] \in StoreRequest /\ req[w].at = "models" /\ ~Assigns(w)
  BY DEF InsertModel, At, VerInv, MInv, StoreRequests, Assigns, StoreRequest
<1>2. CASE m \in models
  BY <1>1, <1>2, GoesOnAccounted DEF InsertModel, Answer, Continue
<1>3. CASE m \notin models
  <2> PICK r : r = [req[w] EXCEPT !.at = "devices"]
    OBVIOUS
  <2>1. /\ models' = models \cup {m} /\ named' = [named EXCEPT ![d] = @ \cup {m.name}]
        /\ req' = [req EXCEPT ![w] = r] /\ UNCHANGED <<devices, halved>>
    BY <1>3 DEF InsertModel, Goto, Continue
  <2>2. r \in StoreRequest /\ r.at = "devices" /\ r.dev = d /\ r.model = m /\ d \in Things
    BY <1>1 DEF StoreRequest
  <2>3. Assigns(w)' /\ req'[w] = r
    BY <2>1, <2>2 DEF VerInv, MInv, StoreRequests, Assigns, Storing
  <2>4. /\ named'[d] = named[d] \cup {m.name} /\ \A e \in Things \ {d} : named'[e] = named[e]
    BY <2>1, <2>2 DEF VerInv, MInv, Tables
  <2>5. \A k \in models' : \E e \in Things : k.name \in named'[e]
    <3> SUFFICES ASSUME NEW k \in models' PROVE \E e \in Things : k.name \in named'[e]
      OBVIOUS
    <3>1. CASE k = m
      BY <2>2, <2>4, <3>1
    <3>2. CASE k \in models
      BY <2>4, <3>2 DEF VerInv, Accounted
    <3> QED
      BY <2>1, <3>1, <3>2
  <2>6. ASSUME NEW e \in Things, NEW k \in models',
               Single(e)', OnlyFor(e, k.name)', k.name \notin halved
        PROVE  Reached(e, k)' \/ Coming(e, k)'
    <3>1. CASE k = m
      <4>1. e = d
        BY <2>2, <2>4, <2>6, <3>1 DEF OnlyFor
      <4> QED
        BY <2>2, <2>3, <3>1, <4>1 DEF Coming
    <3>2. CASE k \in models
      <4>1. PICK f \in Things : k.name \in named[f]
        BY <3>2 DEF VerInv, Accounted
      <4>2. f = e
        BY <2>4, <2>6, <4>1 DEF OnlyFor
      <4>3. OnlyFor(e, k.name)
        BY <2>4, <2>6, <4>1, <4>2 DEF OnlyFor
      <4>4. Single(e)
        BY <2>4, <2>6 DEF Single
      <4>5. Reached(e, k) \/ Coming(e, k)
        BY <2>6, <3>2, <4>3, <4>4 DEF VerInv, Accounted
      <4>6. Reached(e, k) => Reached(e, k)'
        BY <2>1 DEF Reached
      <4>7. Coming(e, k) => Coming(e, k)'
        BY <1>1, <2>1, OthersStore DEF Coming, VerInv
      <4> QED
        BY <4>5, <4>6, <4>7
    <3> QED
      BY <2>1, <3>1, <3>2
  <2> QED
    BY <2>1, <2>5, <2>6 DEF Accounted
<1> QED
  BY <1>2, <1>3

LEMMA AssignAccounted ==
    ASSUME VerInv, NEW w \in Workers, AssignModel(w)
    PROVE  Accounted'
<1> PICK m : m = req[w].model
  OBVIOUS
<1> PICK d : d = req[w].dev
  OBVIOUS
<1>1. /\ req[w] \in StoreRequest /\ Storing(w) /\ Assigns(w) /\ m \in Model /\ d \in Things
      /\ req' = [req EXCEPT ![w] = Idle] /\ UNCHANGED <<models, named, halved>>
  BY DEF VerInv, MInv, AssignModel, At, StoreRequests, Storing, Assigns, StoreRequest, Answer, Continue
<1>2. IF req[w].known THEN d \in DOMAIN devices ELSE m.version = 1
  BY <1>1 DEF VerInv, MInv, UnderWay
<1>3. \A e \in DOMAIN devices : devices[e].version \in Nat \ {0}
  BY ModelParts DEF VerInv, MInv, Tables
<1>4. \A k \in models : k.version \in Nat \ {0}
  BY ModelParts DEF VerInv, MInv, Tables
<1>5. /\ DOMAIN devices \subseteq DOMAIN devices'
      /\ \A e \in DOMAIN devices \ {d} : devices'[e] = devices[e]
  BY DEF AssignModel, Put
\* Device d comes to the version that is assigned, and never goes back.
<1>6. ASSUME Single(d)
      PROVE  /\ d \in DOMAIN devices' /\ m.version <= devices'[d].version
             /\ d \in DOMAIN devices => devices[d].version <= devices'[d].version
             /\ devices'[d].version \in Nat
  <2>1. CASE devices' # devices
    <3>1. DOMAIN devices' = DOMAIN devices \cup {d} /\ devices'[d] = m
      BY <2>1 DEF AssignModel, Put
    <3>2. d \in DOMAIN devices => m.version = devices[d].version + 1
      BY <1>6, <2>1, AssignIsNext DEF VerInv
    <3> QED
      BY <1>1, <1>3, <3>1, <3>2, ModelParts
  <2>2. CASE devices' = devices /\ req[w].known
    <3>1. devices' = Put(devices, d, m) /\ d \in DOMAIN devices
      BY <1>2, <2>2 DEF AssignModel
    <3>2. devices'[d] = m
      BY <3>1 DEF Put
    <3> QED
      BY <1>1, <2>2, <3>1, <3>2, ModelParts
  <2>3. CASE devices' = devices /\ ~req[w].known
    <3>1. d \in DOMAIN devices
      BY <2>3 DEF AssignModel, Put
    <3> QED
      BY <1>2, <1>3, <2>3, <3>1
  <2> QED
    BY <2>1, <2>2, <2>3
<1>7. ASSUME NEW e \in Things, NEW k \in models, Single(e), OnlyFor(e, k.name), k.name \notin halved
      PROVE  Reached(e, k)' \/ Coming(e, k)'
  <2>1. Reached(e, k) \/ Coming(e, k)
    BY <1>7 DEF VerInv, Accounted
  <2>2. CASE Reached(e, k)
    <3>1. e \in DOMAIN devices /\ k.version <= devices[e].version
      BY <2>2 DEF Reached
    <3>2. CASE e = d
      BY <1>3, <1>4, <1>6, <1>7, <3>1, <3>2 DEF Reached
    <3>3. CASE e # d
      BY <1>5, <3>1, <3>3 DEF Reached
    <3> QED
      BY <3>2, <3>3
  <2>3. CASE Coming(e, k)
    <3>1. PICK v \in Workers : Assigns(v) /\ req[v].dev = e /\ req[v].model = k
      BY <2>3 DEF Coming
    <3>2. CASE v = w
      BY <1>6, <1>7, <3>1, <3>2 DEF Reached
    <3>3. CASE v # w
      BY <1>1, <3>1, <3>3, OthersStore DEF Coming, VerInv
    <3> QED
      BY <3>2, <3>3
  <2> QED
    BY <2>1, <2>2, <2>3
<1> QED
  BY <1>1, <1>7 DEF VerInv, Accounted, Single, OnlyFor

LEMMA InitVerInv == ModelInit => VerInv
BY InitMInv DEF ModelInit, VerInv, Accounted

LEMMA NextVerInv == VerInv /\ [ModelNext]_modelVars => VerInv'
<1> SUFFICES ASSUME VerInv, [ModelNext]_modelVars PROVE Accounted'
  BY NextMInv DEF VerInv
<1>1. ASSUME UNCHANGED <<req, models, devices, named, halved>> PROVE Accounted'
  BY <1>1, StillAccounted DEF VerInv, Assigns, Storing
<1>2. CASE UNCHANGED modelVars
  BY <1>1, <1>2 DEF modelVars, serviceVars
<1>3. ASSUME NEW w \in Workers, NEW d \in Things, NEW n \in Names, StoreModel(w, d, n) PROVE Accounted'
  <2>1. ~Assigns(w) /\ UNCHANGED <<models, devices, named, halved>>
    BY <1>3 DEF StoreModel, Receive, Free, Idle, Assigns, Storing, StoreRequest
  <2> QED
    BY <1>3, <2>1, GoesOnAccounted DEF StoreModel, Receive
<1>4. ASSUME NEW w \in Workers, NEW b \in Boxes, NEW d \in Things,
             GetLatestModel(w, b, d) \/ \E v \in 1 .. MaxVersion : GetModel(w, b, d, v)
      PROVE  Accounted'
  <2>1. ~Assigns(w) /\ UNCHANGED <<models, devices, named, halved>>
    BY <1>4 DEF GetLatestModel, GetModel, Receive, Free, Idle, Assigns, Storing, StoreRequest
  <2>2. \E r : req' = [req EXCEPT ![w] = r]
    BY <1>4 DEF GetLatestModel, GetModel, Receive
  <2> QED
    BY <2>1, <2>2, GoesOnAccounted
<1>5. ASSUME NEW w \in Workers, FindVersion(w) \/ InsertPulled(w) \/ UpdatePulled(w)
      PROVE  Accounted'
  <2>1. ~Assigns(w) /\ UNCHANGED <<models, devices, named, halved>>
    BY <1>5 DEF FindVersion, InsertPulled, UpdatePulled, At, Assigns, Storing, StoreRequest
  <2>2. \E r : req' = [req EXCEPT ![w] = r]
    BY <1>5 DEF FindVersion, InsertPulled, UpdatePulled, Answer, Goto, Continue
  <2> QED
    BY <2>1, <2>2, GoesOnAccounted
<1>6. ASSUME NEW w \in Workers,
             \/ \E d \in Things, m \in models : SelectAffected(w, d, m)
             \/ \E b \in Boxes : TellNext(w, b)
             \/ AllTold(w)
      PROVE  Accounted'
  BY <1>1, <1>6 DEF SelectAffected, TellNext, AllTold, serviceVars
<1>7. ASSUME NEW w \in Workers, ModelCrash(w) PROVE Accounted'
  <2>1. Assigns(w) => At(w, "store", "devices")
    BY DEF Assigns, Storing, StoreRequest, At
  <2> QED
    BY <1>7, <2>1, GoesOnAccounted DEF ModelCrash, Answer, Continue
<1> QED
  BY <1>2, <1>3, <1>4, <1>5, <1>6, <1>7, InsertAccounted, AssignAccounted DEF ModelNext

\* storeModel and requestPullLatestModel, for any number of processes: the version
\* after that of a device can be stored, unless a crash, a second name or a second
\* device is in the way; and whoever has the older model is told of the newer one.
THEOREM NextFreeAllTold == ModelSpec => [](NextVersionFree /\ PullReaches)
<1>1. ModelSpec => []VerInv
  BY InitVerInv, NextVerInv, PTL DEF ModelSpec
<1>2. ModelSpec => []Reach
  BY InitReach, NextReach, PTL DEF ModelSpec
<1>3. VerInv /\ Reach => NextVersionFree /\ PullReaches
  BY NextIsFree DEF Reach
<1> QED
  BY <1>1, <1>2, <1>3, PTL

-----------------------------------------------------------------------------
(* The monitoring backend: the inductive invariant.                        *)

\* A process that is about to insert statistics has none of this hour, of a list
\* it has stored what comes before the next message, and it updates only a
\* configuration that is there.
Owed(w) ==
    LET q == req[w]
    IN /\ q.op = "submit" =>
            \A s \in statistics : s.by = w /\ s.home = q.home => s.hour < hour
       /\ q.op = "upload" =>
            /\ DOMAIN q = {"op", "at", "list", "next", "length", "bad"}
            /\ q.next \in Nat /\ \A i \in 1 .. q.next - 1 : <<q.list, i>> \in logs
       /\ (q.op = "config" /\ q.at = "update") => q.home \in remotes

Measured ==
    /\ hour \in Nat
    /\ \A s \in statistics : s.hour \in Nat /\ s.hour <= hour /\ s.by \in alive
    /\ \A r, s \in statistics : (r.home = s.home /\ r.hour = s.hour /\ r.by = s.by) => r = s

Uploaded ==
    /\ \A l \in logs : l[2] \in Nat
    /\ UploadsWhole

NInv ==
    /\ DOMAIN req = Workers /\ alive \subseteq Workers
    /\ \A w \in Workers : Owed(w) /\ (req[w] # Idle => w \in alive)
    /\ Measured /\ Uploaded

\* Statistics that differ in the process that inserted them are as many as there
\* are processes, or fewer.
LEMMA OnePerProcess ==
    ASSUME NEW S, alive \subseteq Workers, \A s \in S : s.by \in alive,
           \A r, s \in S : r.by = s.by => r = s
    PROVE  Cardinality(S) <= Cardinality(alive)
<1>1. IsFiniteSet(alive)
  BY ServiceAssumption, FS_Subset
<1>2. [s \in S |-> s.by] \in Injection(S, alive)
  BY DEF Injection, IsInjective
<1> QED
  BY <1>1, <1>2, FS_Injection

LEMMA SoundFromNInv == ASSUME NInv PROVE MonitoringSound
<1>1. ASSUME NEW h \in Homes, NEW t \in 0 .. MaxHour
      PROVE  Cardinality({s \in statistics : s.home = h /\ s.hour = t}) <= Cardinality(alive)
  <2> DEFINE S == {s \in statistics : s.home = h /\ s.hour = t}
  <2>1. \A s \in S : s.by \in alive
    BY DEF NInv, Measured
  <2>2. \A r, s \in S : r.by = s.by => r = s
    BY DEF NInv, Measured
  <2> HIDE DEF S
  <2>3. Cardinality(S) <= Cardinality(alive)
    BY <2>1, <2>2, OnePerProcess DEF NInv
  <2> QED
    BY <2>3 DEF S
<1> QED
  BY <1>1 DEF NInv, Uploaded, MonitoringSound, HourlyLimit

\* Process w goes on with q; logs and configurations only grow, and statistics of
\* others are added.
LEMMA OneMoves ==
    ASSUME NInv, NEW w \in alive, NEW q, req' = [req EXCEPT ![w] = q], UNCHANGED <<alive, hour>>,
           \A s \in statistics' \ statistics : s.by = w,
           logs \subseteq logs', remotes \subseteq remotes',
           Owed(w)', Measured', Uploaded'
    PROVE  NInv'
<1>1. w \in Workers /\ DOMAIN req' = Workers /\ req'[w] = q /\ \A v \in Workers \ {w} : req'[v] = req[v]
  BY DEF NInv
<1>2. ASSUME NEW v \in Workers \ {w} PROVE Owed(v)'
  BY <1>1 DEF NInv, Owed
<1> QED
  BY <1>1, <1>2 DEF NInv

LEMMA SameStores ==
    ASSUME NInv, UNCHANGED <<alive, hour, statistics, logs, remotes, finished, configured>>
    PROVE  Measured' /\ Uploaded'
BY DEF NInv, Measured, Uploaded, UploadsWhole

LEMMA HourNInv == ASSUME NInv, HourPasses PROVE NInv'
<1>1. hour \in Nat /\ hour' = hour + 1
      /\ UNCHANGED <<req, alive, statistics, logs, remotes, finished, configured>>
  BY DEF NInv, Measured, HourPasses, serviceVars
<1>2. Measured' /\ Uploaded'
  BY <1>1 DEF NInv, Measured, Uploaded, UploadsWhole
<1>3. ASSUME NEW w \in Workers PROVE Owed(w)'
  <2>1. \A s \in statistics : s.hour < hour'
    BY <1>1 DEF NInv, Measured
  <2> QED
    BY <1>1, <2>1 DEF NInv, Owed
<1> QED
  BY <1>1, <1>2, <1>3 DEF NInv

LEMMA ArriveNInv ==
    ASSUME NInv, NEW w \in Workers, NEW h,
           InsertConfig(w, h) \/ (\E s \in Sensors : SubmitStatistics(w, h, s)) \/ UploadLogs(w)
    PROVE  NInv'
<1>1. w \in alive /\ UNCHANGED <<alive, hour, statistics, logs, remotes, finished, configured>>
  BY DEF InsertConfig, SubmitStatistics, UploadLogs, Receive, Free
<1>2. ASSUME NEW q, req' = [req EXCEPT ![w] = q], Owed(w)' PROVE NInv'
  BY <1>1, <1>2, SameStores, OneMoves
<1>3. ASSUME NEW q, req' = [req EXCEPT ![w] = q] PROVE req'[w] = q
  BY <1>3 DEF NInv
<1>4. CASE InsertConfig(w, h)
  <2> PICK q : q = [op |-> "config", at |-> "insert", home |-> h]
    OBVIOUS
  <2>1. req' = [req EXCEPT ![w] = q]
    BY <1>4 DEF InsertConfig, Receive
  <2>2. q.op = "config" /\ q.at = "insert"
    OBVIOUS
  <2>3. Owed(w)'
    BY <1>3, <2>1, <2>2 DEF Owed
  <2> QED
    BY <1>2, <2>1, <2>3
<1>5. ASSUME NEW n \in Sensors, SubmitStatistics(w, h, n) PROVE NInv'
  <2> PICK q : q = [op |-> "submit", at |-> "insert", home |-> h, sensor |-> n]
    OBVIOUS
  <2>1. req' = [req EXCEPT ![w] = q] /\ TooEarly(h) = {}
    BY <1>5 DEF SubmitStatistics, Receive
  <2>2. \A s \in statistics : s.home = h => s.hour < hour
    BY <2>1 DEF TooEarly, NInv, Measured
  <2>3. q.home = h /\ q.op = "submit"
    OBVIOUS
  <2>4. Owed(w)'
    BY <1>1, <1>3, <2>1, <2>2, <2>3 DEF Owed
  <2> QED
    BY <1>2, <2>1, <2>4
<1>6. CASE UploadLogs(w)
  <2> PICK n \in 1 .. Entries, bad \in 1 .. Entries + 1 :
         Receive(w, [op |-> "upload", at |-> "insert", list |-> uploads + 1, next |-> 1,
                     length |-> n, bad |-> bad])
    BY <1>6 DEF UploadLogs
  <2> PICK q : q = [op |-> "upload", at |-> "insert", list |-> uploads + 1, next |-> 1,
                    length |-> n, bad |-> bad]
    OBVIOUS
  <2>1. req' = [req EXCEPT ![w] = q]
    BY DEF Receive
  <2>2. q.op = "upload" /\ q.next = 1 /\ DOMAIN q = {"op", "at", "list", "next", "length", "bad"}
    OBVIOUS
  <2>3. q.next \in Nat /\ \A i \in 1 .. q.next - 1 : <<q.list, i>> \in logs'
    BY <2>2
  <2>4. Owed(w)'
    BY <1>3, <2>1, <2>2, <2>3 DEF Owed
  <2> QED
    BY <1>2, <2>1, <2>4
<1> QED
  BY <1>4, <1>5, <1>6

\* A process with a request was started, and when its request ends it owes nothing.
LEMMA Works ==
    ASSUME NInv, NEW w \in Workers, req[w].op # "idle"
    PROVE  w \in alive
<1>1. req[w] # Idle
  BY DEF Idle
<1> QED
  BY <1>1 DEF NInv

LEMMA Concludes ==
    ASSUME NInv, NEW w \in alive, Answer(w), UNCHANGED <<alive, hour>>,
           \A s \in statistics' \ statistics : s.by = w,
           logs \subseteq logs', remotes \subseteq remotes', Measured', Uploaded'
    PROVE  NInv'
<1>1. req' = [req EXCEPT ![w] = Idle] /\ req'[w] = Idle
  BY DEF Answer, Continue, NInv
<1>2. Owed(w)'
  BY <1>1 DEF Owed, Idle
<1> QED
  BY <1>1, <1>2, OneMoves

LEMMA StatisticsNInv == ASSUME NInv, NEW w \in Workers, InsertStatistics(w) PROVE NInv'
<1> PICK r : r = [home |-> req[w].home, sensor |-> req[w].sensor, hour |-> hour, by |-> w]
  OBVIOUS
<1>1. /\ w \in alive /\ Answer(w) /\ req[w].op = "submit" /\ statistics' = statistics \cup {r}
      /\ UNCHANGED <<alive, hour, logs, remotes, finished, configured>>
  BY Works DEF InsertStatistics, At, Answer, Continue
<1>2. r.home = req[w].home /\ r.hour = hour /\ r.by = w
  OBVIOUS
<1>3. \A s \in statistics : (s.by = w /\ s.home = r.home) => s.hour # hour
  BY <1>1, <1>2 DEF NInv, Owed, Measured
<1>4. Measured' /\ Uploaded'
  <2>1. \A s \in statistics' : s.hour \in Nat /\ s.hour <= hour /\ s.by \in alive
    BY <1>1, <1>2 DEF NInv, Measured
  <2>2. \A s, t \in statistics' : (s.home = t.home /\ s.hour = t.hour /\ s.by = t.by) => s = t
    BY <1>1, <1>2, <1>3 DEF NInv, Measured
  <2> QED
    BY <1>1, <2>1, <2>2 DEF NInv, Measured, Uploaded, UploadsWhole
<1> QED
  BY <1>1, <1>2, <1>4, Concludes

LEMMA LogNInv == ASSUME NInv, NEW w \in Workers, InsertLog(w) PROVE NInv'
<1> PICK r : r = req[w]
  OBVIOUS
<1>1. /\ w \in alive /\ r.op = "upload" /\ DOMAIN r = {"op", "at", "list", "next", "length", "bad"}
      /\ r.next \in Nat /\ \A i \in 1 .. r.next - 1 : <<r.list, i>> \in logs
      /\ UNCHANGED <<alive, hour, statistics, remotes, configured>>
  BY Works DEF InsertLog, At, NInv, Owed, Answer, Continue
<1>2. CASE r.next = r.bad
  BY <1>1, <1>2, SameStores, Concludes DEF InsertLog
<1>3. CASE r.next # r.bad
  <2>1. logs' = logs \cup {<<r.list, r.next>>}
    BY <1>3 DEF InsertLog
  <2>2. \A i \in 1 .. r.next : <<r.list, i>> \in logs'
    BY <1>1, <2>1
  <2>3. \A l \in logs' : l[2] \in Nat /\ \A i \in 1 .. l[2] : <<l[1], i>> \in logs'
    <3> SUFFICES ASSUME NEW l \in logs'
                 PROVE  l[2] \in Nat /\ \A i \in 1 .. l[2] : <<l[1], i>> \in logs'
      OBVIOUS
    <3>1. CASE l \in logs
      BY <2>1, <3>1 DEF NInv, Uploaded, UploadsWhole
    <3>2. CASE l = <<r.list, r.next>>
      BY <1>1, <2>2, <3>2
    <3> QED
      BY <2>1, <3>1, <3>2
  <2>4. Measured'
    BY <1>1 DEF NInv, Measured
  <2>5. CASE r.next = r.length
    <3>1. finished' = finished \cup {<<r.list, r.next>>} /\ Answer(w)
      BY <1>3, <2>5 DEF InsertLog
    <3>2. \A f \in finished' : \A i \in 1 .. f[2] : <<f[1], i>> \in logs'
      <4> SUFFICES ASSUME NEW f \in finished' PROVE \A i \in 1 .. f[2] : <<f[1], i>> \in logs'
        OBVIOUS
      <4>1. CASE f \in finished
        BY <2>1, <4>1 DEF NInv, Uploaded, UploadsWhole
      <4>2. CASE f = <<r.list, r.next>>
        BY <2>2, <4>2
      <4> QED
        BY <3>1, <4>1, <4>2
    <3>3. Uploaded'
      BY <1>1, <2>3, <3>2 DEF NInv, Uploaded, UploadsWhole
    <3> QED
      BY <1>1, <2>1, <2>4, <3>1, <3>3, Concludes
  <2>6. CASE r.next # r.length
    <3> PICK q : q = [r EXCEPT !.next = r.next + 1]
      OBVIOUS
    <3>1. req' = [req EXCEPT ![w] = q] /\ finished' = finished /\ req'[w] = q
      BY <1>3, <2>6 DEF InsertLog, Continue, NInv
    <3>2. q.op = "upload" /\ q.next = r.next + 1 /\ q.list = r.list /\ DOMAIN q = DOMAIN r
      BY <1>1
    <3>3. \A i \in 1 .. q.next - 1 : <<q.list, i>> \in logs'
      BY <1>1, <2>2, <3>2
    <3>4. Owed(w)'
      BY <1>1, <3>1, <3>2, <3>3 DEF Owed
    <3>5. Uploaded'
      BY <1>1, <2>1, <2>3, <3>1 DEF NInv, Uploaded, UploadsWhole
    <3> QED
      BY <1>1, <2>1, <2>4, <3>1, <3>4, <3>5, OneMoves
  <2> QED
    BY <2>5, <2>6
<1> QED
  BY <1>2, <1>3

LEMMA ConfigNInv == ASSUME NInv, NEW w \in Workers, WriteConfig(w) PROVE NInv'
<1>1. w \in alive /\ req[w].op = "config" /\ UNCHANGED <<alive, hour, statistics, logs, finished>>
  BY Works DEF WriteConfig, At, Answer, Goto, Continue
<1>2. Measured'
  BY <1>1 DEF NInv, Measured
<1>3. CASE Answer(w)
  <2>1. remotes \subseteq remotes' /\ configured' \subseteq configured \cup {req[w].home}
    BY <1>1 DEF WriteConfig
  <2>2. configured' # configured => req[w].home \in remotes'
    BY <1>1 DEF WriteConfig, NInv, Owed, At
  <2>3. configured' \subseteq remotes'
    BY <2>1, <2>2 DEF NInv, Uploaded, UploadsWhole
  <2>4. Uploaded'
    BY <1>1, <2>3 DEF NInv, Uploaded, UploadsWhole
  <2> QED
    BY <1>1, <1>2, <1>3, <2>1, <2>4, Concludes
<1>4. CASE ~Answer(w)
  <2> PICK q : q = [req[w] EXCEPT !.at = "update"]
    OBVIOUS
  <2>1. /\ req[w].home \in remotes /\ req' = [req EXCEPT ![w] = q] /\ req'[w] = q
        /\ UNCHANGED <<remotes, configured>>
    BY <1>4 DEF WriteConfig, Goto, Continue, NInv
  <2>2. q.op # "submit" /\ q.op # "upload" /\ (q.op = "config" => q.home = req[w].home)
    BY <1>1
  <2>3. Owed(w)'
    BY <2>1, <2>2 DEF Owed
  <2>4. Uploaded'
    BY <1>1, <2>1, <1>2, SameStores
  <2> QED
    BY <1>1, <1>2, <2>1, <2>3, <2>4, OneMoves
<1> QED
  BY <1>3, <1>4

LEMMA InitNInv == ServiceInit /\ MonitoringInit => NInv
<1> SUFFICES ASSUME ServiceInit, MonitoringInit PROVE NInv
  OBVIOUS
<1>1. DOMAIN req = Workers /\ alive \subseteq Workers /\ \A w \in Workers : req[w] = Idle
  BY DEF ServiceInit
<1>2. \A w \in Workers : Owed(w)
  BY <1>1 DEF Owed, Idle
<1> QED
  BY <1>1, <1>2 DEF MonitoringInit, NInv, Measured, Uploaded, UploadsWhole

LEMMA StillNInv ==
    ASSUME NInv, UNCHANGED <<alive, req, hour, statistics, logs, remotes, finished, configured>>
    PROVE  NInv'
BY DEF NInv, Owed, Measured, Uploaded, UploadsWhole

LEMMA NextNInv == NInv /\ [MonitoringNext]_monitorVars => NInv'
<1> SUFFICES ASSUME NInv, [MonitoringNext]_monitorVars PROVE NInv'
  OBVIOUS
<1>1. CASE UNCHANGED monitorVars
  BY <1>1, StillNInv DEF monitorVars, serviceVars
<1>2. ASSUME NEW w \in Workers, MonitoringCrash(w) PROVE NInv'
  BY <1>2, SameStores, Concludes DEF MonitoringCrash, Answer, Continue
<1> QED
  BY <1>1, <1>2, HourNInv, ArriveNInv, StatisticsNInv, LogNInv, ConfigNInv DEF MonitoringNext

-----------------------------------------------------------------------------
(* The backends side by side.  The tables of those that the behaviour is   *)
(* not about are as they were set up.                                      *)

ControlUnused == gadgets = [g \in {} |-> Normal] /\ settings = {} /\ confused = {} /\ mailed = {} /\ unmailed = {}
MonitoringUnused == statistics = {} /\ logs = {} /\ remotes = {} /\ finished = {} /\ configured = {}
ModelsUnused == devices = [d \in {} |-> 0] /\ telling = [w \in Workers |-> Silent]

CloudInv ==
    /\ alive \subseteq Workers
    /\ IF service = "control"    THEN CInv ELSE ControlUnused
    /\ IF service = "monitoring" THEN NInv ELSE MonitoringUnused
    /\ IF service = "ml"         THEN VerInv /\ Reach ELSE ModelsUnused

LEMMA UnusedAreSound ==
    ASSUME alive \subseteq Workers
    PROVE  /\ ControlUnused => ControlSound
           /\ MonitoringUnused => MonitoringSound
           /\ ModelsUnused => NextVersionFree /\ PullReaches
<1>1. ControlUnused => ControlSound
  BY DEF ControlUnused, ControlSound, StatusAsDecided, OptionsHaveDevice, MailsWanted, Registered
<1>2. MonitoringUnused => MonitoringSound
  <2> SUFFICES ASSUME MonitoringUnused PROVE HourlyLimit
    BY DEF MonitoringUnused, MonitoringSound, UploadsWhole
  <2>1. ASSUME NEW h, NEW t
        PROVE  Cardinality({s \in statistics : s.home = h /\ s.hour = t}) <= Cardinality(alive)
    <3> PICK S : S = {s \in statistics : s.home = h /\ s.hour = t}
      OBVIOUS
    <3>1. S = {}
      BY DEF MonitoringUnused
    <3> QED
      BY <3>1, OnePerProcess
  <2> QED
    BY <2>1 DEF HourlyLimit
<1>3. ModelsUnused => NextVersionFree /\ PullReaches
  BY DEF ModelsUnused, NextVersionFree, PullReaches
<1> QED
  BY <1>1, <1>2, <1>3

LEMMA SoundFromCloudInv == ASSUME CloudInv PROVE StoresSound
<1>1. ControlSound
  BY UnusedAreSound DEF CloudInv, CInv
<1>2. MonitoringSound
  BY UnusedAreSound, SoundFromNInv DEF CloudInv
<1>3. NextVersionFree /\ PullReaches
  BY UnusedAreSound, NextIsFree DEF CloudInv, Reach
<1> QED
  BY <1>1, <1>2, <1>3 DEF StoresSound

LEMMA InitCloudInv == CloudInit => CloudInv
<1> SUFFICES ASSUME CloudInit PROVE CloudInv
  OBVIOUS
<1>1. CInv /\ NInv /\ VerInv /\ Reach
  BY InitCInv, InitNInv, InitVerInv, InitReach DEF CloudInit, MonitoringInit
<1>2. ControlUnused /\ MonitoringUnused /\ ModelsUnused
  BY DEF CloudInit, ControlInit, MonitoringInit, ModelInit, ControlUnused, MonitoringUnused, ModelsUnused
<1> QED
  BY <1>1, <1>2 DEF CloudInv, NInv

\* No handler starts a process or ends one for good.
LEMMA AuthProcesses == ASSUME AuthNext PROVE UNCHANGED alive
<1>1. CASE (\E c \in Codes : AddCode(c)) \/ (\E r \in pending : TenMinutes(r)) \/ (\E t \in issued : TokenExpires(t))
  BY <1>1 DEF AddCode, TenMinutes, TokenExpires, serviceVars
<1>2. ASSUME NEW w \in Workers,
        \/ \E e \in Emails, c \in Codes : Register(w, e, c)
        \/ RegisterCode(w) \/ RegisterPending(w) \/ RegisterInsert(w)
        \/ \E r \in pending : Verify(w, r)
        \/ VerifyDelete(w) \/ VerifyInsert(w) \/ VerifyClaim(w)
      PROVE UNCHANGED alive
  BY <1>2 DEF Register, RegisterCode, RegisterPending, RegisterInsert, Verify, VerifyDelete,
              VerifyInsert, VerifyClaim, Receive, Continue, Answer, Goto, serviceVars
<1>3. ASSUME NEW w \in Workers,
        \/ \E e \in Emails : Forgot(w, e)
        \/ ForgotPending(w) \/ ForgotInsert(w)
        \/ \E r \in pending : Reset(w, r)
        \/ \E b \in bodies, accepted \in BOOLEAN : ResetBody(w, b, accepted)
        \/ ResetUpdate(w) \/ AuthCrash(w)
      PROVE UNCHANGED alive
  BY <1>3 DEF Forgot, ForgotPending, ForgotInsert, Reset, ResetBody, ResetUpdate, AuthCrash,
              Receive, Continue, Answer, Goto, serviceVars
<1>4. ASSUME NEW w \in Workers,
        \/ \E u \in users : Login(w, u)
        \/ \E t \in issued : RequestToken(w, t) \/ Unregister(w, t)
        \/ \E c \in Codes, s \in Secrets : AuthenticateWatchdog(w, c, s)
        \/ StoreSecret(w) \/ GenerateToken(w)
        \/ UnregisterPending(w) \/ UnregisterDelete(w)
        \/ \E c \in Codes : UnregisterCode(w, c)
      PROVE UNCHANGED alive
  BY <1>4 DEF Login, RequestToken, Unregister, AuthenticateWatchdog, StoreSecret, GenerateToken,
              UnregisterPending, UnregisterDelete, UnregisterCode,
              Receive, Continue, Answer, Goto, serviceVars
<1> QED
  BY <1>1, <1>2, <1>3, <1>4 DEF AuthNext

LEMMA AddonProcesses == ASSUME AddonNext PROVE UNCHANGED alive
<1> PICK w \in Workers :
        \/ \E a \in Addons : ModifyType(w, a) \/ RemoveType(w, a)
        \/ NewConfig(w) \/ InsertType(w) \/ UpdateType(w)
        \/ \E wd \in Watchdogs, a \in Addons :
             \/ Install(w, wd, a) \/ Uninstall(w, wd, a)
             \/ \E d \in Devices \cup {NullDevice}, config \in BOOLEAN :
                  ModifyAddon(w, wd, a, d, config)
        \/ SelectType(w) \/ CopyConfig(w) \/ InsertRelation(w) \/ UpdateRelation(w)
        \/ SelectFallback(w)
        \/ \E wd \in Watchdogs, d \in Devices \cup {NoDevice}, user \in BOOLEAN :
             GetAddon(w, wd, d, user)
        \/ CheckMandatory(w) \/ CheckFallback(w) \/ ListAddons(w) \/ SendList(w)
        \/ \E p \in parked : Unpark(w, p)
        \/ \E as \in {{a} : a \in Addons} \cup {Types} : GetType(w, as)
        \/ SelectConfig(w) \/ SendTypes(w)
        \/ SelectDefault(w) \/ SelectIds(w) \/ DeleteRelations(w)
        \/ DeleteType(w) \/ DeleteDefault(w) \/ DeleteConfig(w)
        \/ AddonCrash(w)
  BY DEF AddonNext
<1>1. CASE \E a \in Addons : ModifyType(w, a) \/ RemoveType(w, a)
  BY <1>1 DEF ModifyType, RemoveType, Receive
<1>2. CASE NewConfig(w) \/ InsertType(w) \/ UpdateType(w)
  BY <1>2 DEF NewConfig, InsertType, UpdateType, Continue, Answer, Goto
<1>3. CASE \E wd \in Watchdogs, a \in Addons :
             \/ Install(w, wd, a) \/ Uninstall(w, wd, a)
             \/ \E d \in Devices \cup {NullDevice}, config \in BOOLEAN : ModifyAddon(w, wd, a, d, config)
  BY <1>3 DEF Install, Uninstall, ModifyAddon, Receive
<1>4. CASE SelectType(w) \/ CopyConfig(w) \/ InsertRelation(w) \/ UpdateRelation(w) \/ SelectFallback(w)
  BY <1>4 DEF SelectType, CopyConfig, InsertRelation, UpdateRelation, SelectFallback, RelationDone,
              Continue, Answer, Goto
<1>5. CASE \/ \E wd \in Watchdogs, d \in Devices \cup {NoDevice}, user \in BOOLEAN : GetAddon(w, wd, d, user)
           \/ CheckMandatory(w) \/ CheckFallback(w) \/ ListAddons(w) \/ SendList(w)
           \/ \E p \in parked : Unpark(w, p)
  BY <1>5 DEF GetAddon, CheckMandatory, CheckFallback, ListAddons, SendList, Unpark,
              Receive, Continue, Answer, Goto
<1>6. CASE \/ \E as \in {{a} : a \in Addons} \cup {Types} : GetType(w, as)
           \/ SelectConfig(w) \/ SendTypes(w)
  BY <1>6 DEF GetType, SelectConfig, SendTypes, Receive, Continue, Answer, Goto
<1>7. CASE \/ SelectDefault(w) \/ SelectIds(w) \/ DeleteRelations(w)
           \/ DeleteType(w) \/ DeleteDefault(w) \/ DeleteConfig(w) \/ AddonCrash(w)
  BY <1>7 DEF SelectDefault, SelectIds, DeleteRelations, DeleteType, DeleteDefault, DeleteConfig,
              AddonCrash, Continue, Answer, Goto
<1> QED
  BY <1>1, <1>2, <1>3, <1>4, <1>5, <1>6, <1>7

LEMMA ModelProcesses == ASSUME ModelNext PROVE UNCHANGED alive
BY DEF ModelNext, StoreModel, InsertModel, AssignModel, GetLatestModel, GetModel, FindVersion,
       InsertPulled, UpdatePulled, SelectAffected, TellNext, AllTold, ModelCrash,
       Receive, Continue, Answer, Goto, serviceVars

\* The tables of a backend that the behaviour is not about stay as they are.
LEMMA UnusedStay ==
    /\ UNCHANGED controlOnly => (ControlUnused => ControlUnused')
    /\ UNCHANGED monitorOnly => (MonitoringUnused => MonitoringUnused')
    /\ UNCHANGED modelOnly   => (ModelsUnused => ModelsUnused')
BY DEF controlOnly, monitorOnly, modelOnly, mailVars, ControlUnused, MonitoringUnused, ModelsUnused

LEMMA NextCloudInv == CloudInv /\ [CloudNext]_cloudVars => CloudInv'
<1> SUFFICES ASSUME CloudInv, [CloudNext]_cloudVars PROVE CloudInv'
  OBVIOUS
<1>1. CASE service = "auth" /\ AuthNext /\ UNCHANGED <<addonOnly, modelOnly, controlOnly, monitorOnly>> /\ UNCHANGED service
  BY <1>1, AuthProcesses, UnusedStay DEF CloudInv
<1>2. CASE service = "addon" /\ AddonNext /\ UNCHANGED <<authOnly, modelOnly, controlOnly, monitorOnly>> /\ UNCHANGED service
  BY <1>2, AddonProcesses, UnusedStay DEF CloudInv
<1>3. CASE service = "ml" /\ ModelNext /\ UNCHANGED <<authOnly, addonOnly, controlOnly, monitorOnly>> /\ UNCHANGED service
  BY <1>3, ModelProcesses, UnusedStay, NextVerInv, NextReach DEF CloudInv
<1>4. CASE service = "control" /\ ControlNext /\ UNCHANGED <<authOnly, addonOnly, modelOnly, monitorOnly>> /\ UNCHANGED service
  BY <1>4, UnusedStay, NextCInv DEF CloudInv, CInv
<1>5. CASE service = "monitoring" /\ MonitoringNext /\ UNCHANGED <<authOnly, addonOnly, modelOnly, controlOnly>> /\ UNCHANGED service
  BY <1>5, UnusedStay, NextNInv DEF CloudInv, NInv
<1>6. CASE UNCHANGED cloudVars
  <2>1. UNCHANGED <<controlOnly, monitorOnly, modelOnly, service, serviceVars>>
    BY <1>6 DEF cloudVars
  <2>2. UNCHANGED controlVars /\ UNCHANGED monitorVars /\ UNCHANGED modelVars /\ UNCHANGED alive
    BY <2>1 DEF controlVars, monitorVars, modelVars, controlOnly, monitorOnly, modelOnly, serviceVars
  <2> QED
    BY <2>1, <2>2, UnusedStay, NextCInv, NextNInv, NextVerInv, NextReach DEF CloudInv
<1> QED
  BY <1>1, <1>2, <1>3, <1>4, <1>5, <1>6 DEF CloudNext

\* The databases of the device control, monitoring and machine-learning backends hold
\* what their users were told (the parts of StoresSound), for any number of processes
\* that overtake each other between two statements and die anywhere.
THEOREM StoresStaySound == CloudSpec => []StoresSound
<1> QED
  BY InitCloudInv, NextCloudInv, SoundFromCloudInv, PTL DEF CloudSpec

-----------------------------------------------------------------------------
(* What the tables hold, and what a request knows: the auth backend.  The  *)
(* types are inductive: a statement needs of its request what the          *)
(* statements before it put there, and the request is one of AuthRequest.  *)

ResetReq   == [op : {"reset"}, at : {"update"}, email : Emails, link : Links]
TokenReq   == [op : {"token"}, code : Emails \cup Codes, id : Uids, perm : {"user", "none"}]
LeaveReq   == [op : {"unregister"}, at : {"pending", "users"}, token : Token]
ReleaseReq == [op : {"unregister"}, at : {"codes"}, token : Token, left : SUBSET Codes]

LEMMA AuthRequests ==
    AuthRequest = {Idle} \cup RegisterReq \cup VerifyReq \cup ClaimReq \cup ForgotReq \cup ResetReq
                         \cup SecretReq \cup TokenReq \cup LeaveReq \cup ReleaseReq
BY DEF AuthRequest, RegisterReq, VerifyReq, ClaimReq, ForgotReq, ResetReq, SecretReq, TokenReq, LeaveReq, ReleaseReq

\* Which it is follows from what it asks for and the statement it is at.
LEMMA WhichRequest ==
    ASSUME AuthTypeOK, NEW w \in Workers
    PROVE  /\ req[w].op = "register" => req[w] \in RegisterReq
           /\ (req[w].op = "verify" /\ req[w].at # "claim") => req[w] \in VerifyReq
           /\ (req[w].op = "verify" /\ req[w].at = "claim") => req[w] \in ClaimReq
           /\ req[w].op = "forgot" => req[w] \in ForgotReq
           /\ req[w].op = "reset" => req[w] \in ResetReq
           /\ req[w].op = "secret" => req[w] \in SecretReq
           /\ req[w].op = "token" => req[w] \in TokenReq
           /\ (req[w].op = "unregister" /\ req[w].at # "codes") => req[w] \in LeaveReq
           /\ (req[w].op = "unregister" /\ req[w].at = "codes") => req[w] \in ReleaseReq
<1>1. req[w] \in AuthRequest
  BY DEF AuthTypeOK
<1>2. Idle.op = "idle"
  BY DEF Idle
<1> HIDE DEF Idle
<1> QED
  BY <1>1, <1>2, AuthRequests DEF RegisterReq, VerifyReq, ClaimReq, ForgotReq, ResetReq, SecretReq, TokenReq,
     LeaveReq, ReleaseReq

\* What every step keeps that lets process w go on with r.
LEMMA AuthGoesOn ==
    ASSUME AuthTypeOK, NEW w \in Workers, NEW r \in AuthRequest, Continue(w, r) \/ Receive(w, r)
    PROVE  /\ req' \in [Workers -> AuthRequest]
           /\ alive' \subseteq Workers /\ handled' \in 0 .. MaxOverlap
<1>1. req \in [Workers -> AuthRequest] /\ alive \subseteq Workers /\ handled \in 0 .. MaxOverlap
  BY DEF AuthTypeOK
<1>2. req' = [req EXCEPT ![w] = r] /\ alive' = alive
      /\ (handled' = handled \/ (handled < MaxOverlap /\ handled' = handled + 1))
  BY DEF Continue, Receive, Counted
<1>3. req' \in [Workers -> AuthRequest]
  BY <1>1, <1>2
<1>4. handled' \in 0 .. MaxOverlap
  BY <1>1, <1>2, ServiceAssumption
<1> QED
  BY <1>1, <1>2, <1>3, <1>4

\* A token names codes that exist, and so does who releases them: no code is
\* ever deleted.
NamesCodes(r) ==
    r.op = "unregister" => /\ r.token.belongs \subseteq DOMAIN wdcodes
                           /\ r.at = "codes" => r.left \subseteq DOMAIN wdcodes
NamedCodes ==
    /\ \A t \in issued : t.belongs \subseteq DOMAIN wdcodes
    /\ \A w \in Workers : \A t \in cache[w] : t.belongs \subseteq DOMAIN wdcodes
    /\ \A w \in Workers : NamesCodes(req[w])
AuthTypes == AuthTypeOK /\ NamedCodes

LEMMA IdleIsRequest == Idle \in AuthRequest
BY DEF AuthRequest

\* The tables and tokens.
AuthTables ==
    /\ users \subseteq User
    /\ DOMAIN wdcodes \subseteq Codes
    /\ \A c \in DOMAIN wdcodes : wdcodes[c] \in CodeRow
    /\ pending \subseteq Pending
    /\ lastUid \in 0 .. MaxUid /\ lastLink \in 0 .. MaxLink
AuthRest ==
    /\ issued \subseteq Token
    /\ cache \in [Workers -> SUBSET Token]
    /\ bodies \subseteq [w : Workers, link : Links, email : Emails]
    /\ cut \subseteq Uids /\ early \subseteq Uids /\ robbed \subseteq Uids
    /\ claims \in [Uids -> Codes \cup {Unset}]

LEMMA AuthParts == AuthTypeOK <=> /\ alive \subseteq Workers /\ handled \in 0 .. MaxOverlap
                                  /\ req \in [Workers -> AuthRequest] /\ AuthTables /\ AuthRest
BY DEF AuthTypeOK, AuthTables, AuthRest

LEMMA NextAuthParts ==
    (alive' \subseteq Workers /\ handled' \in 0 .. MaxOverlap /\ req' \in [Workers -> AuthRequest] /\ AuthTables' /\ AuthRest')
      => AuthTypeOK'
BY DEF AuthTypeOK, AuthTables, AuthRest

\* A request arrives, or goes on, and changes nothing else.
LEMMA AuthAsks ==
    ASSUME AuthTypeOK, NEW w \in Workers, NEW r \in AuthRequest, Continue(w, r) \/ Receive(w, r),
           AuthTables', AuthRest'
    PROVE  AuthTypeOK'
BY AuthGoesOn, NextAuthParts

LEMMA AuthRestSame == ASSUME AuthTypeOK, UNCHANGED <<issued, cache, bodies, authHist>> PROVE AuthRest'
BY DEF AuthTypeOK, AuthRest, authHist

LEMMA AuthTablesSame == ASSUME AuthTypeOK, UNCHANGED authDb PROVE AuthTables'
BY DEF AuthTypeOK, AuthTables, authDb

LEMMA InsertPendingTypes ==
    ASSUME AuthTypeOK, NEW type \in {"email", "reset"}, NEW e \in Emails, NEW c \in Codes \cup {Unset},
           InsertPending(type, e, c), UNCHANGED <<users, wdcodes, lastUid>>
    PROVE  AuthTables'
<1>1. CASE UNCHANGED <<pending, lastLink>>
  BY <1>1 DEF AuthTypeOK, AuthTables
<1> DEFINE row == [link |-> lastLink + 1, type |-> type, email |-> e, code |-> c, fresh |-> TRUE]
<1>2. CASE lastLink < MaxLink /\ lastLink' = lastLink + 1 /\ pending' = pending \cup {row}
  <2>1. lastLink + 1 \in Links
    BY <1>2, AuthAssumption DEF AuthTypeOK, Links
  <2>2. row \in Pending
    BY <2>1 DEF Pending
  <2> HIDE DEF row
  <2> QED
    BY <1>2, <2>1, <2>2 DEF AuthTypeOK, AuthTables, Links
<1> QED
  BY <1>1, <1>2 DEF InsertPending

LEMMA ArrivalTypes ==
    ASSUME AuthTypeOK, NEW w \in Workers,
           \/ \E e \in Emails, c \in Codes : Register(w, e, c)
           \/ \E r \in pending : Verify(w, r)
           \/ \E e \in Emails : Forgot(w, e)
           \/ \E u \in users : Login(w, u)
           \/ \E t \in issued : RequestToken(w, t) \/ Unregister(w, t)
           \/ \E c \in Codes, s \in Secrets : AuthenticateWatchdog(w, c, s)
    PROVE  AuthTypeOK'
<1> SUFFICES /\ \E r \in AuthRequest : Receive(w, r)
             /\ UNCHANGED <<authDb, issued, cache, bodies, authHist>>
  BY AuthAsks, AuthRestSame, AuthTablesSame
<1> USE AuthRequests
<1>1. ASSUME NEW e \in Emails, NEW c \in Codes, Register(w, e, c)
      PROVE  \E r \in AuthRequest : Receive(w, r)
  <2>1. [op |-> "register", at |-> "code", email |-> e, code |-> c] \in RegisterReq
    BY DEF RegisterReq
  <2> QED
    BY <1>1, <2>1 DEF Register
<1>2. ASSUME NEW r \in pending, Verify(w, r)
      PROVE  \E q \in AuthRequest : Receive(w, q)
  <2>1. [op |-> "verify", at |-> "delete", row |-> r] \in VerifyReq
    BY DEF VerifyReq, AuthTypeOK
  <2> QED
    BY <1>2, <2>1 DEF Verify
<1>3. ASSUME NEW e \in Emails, Forgot(w, e)
      PROVE  \E r \in AuthRequest : Receive(w, r)
  <2>1. [op |-> "forgot", at |-> "pending", email |-> e] \in ForgotReq
    BY DEF ForgotReq
  <2> QED
    BY <1>3, <2>1 DEF Forgot
<1>4. ASSUME NEW u \in users, Login(w, u)
      PROVE  \E r \in AuthRequest : Receive(w, r)
  <2>1. [op |-> "token", code |-> u.email, id |-> u.uid, perm |-> "user"] \in TokenReq
    BY DEF TokenReq, AuthTypeOK, User
  <2> QED
    BY <1>4, <2>1 DEF Login
<1>5. ASSUME NEW t \in issued, RequestToken(w, t)
      PROVE  \E r \in AuthRequest : Receive(w, r)
  <2>1. [op |-> "token", code |-> t.code, id |-> t.id, perm |-> "none"] \in TokenReq
    BY DEF TokenReq, AuthTypeOK, Token
  <2> QED
    BY <1>5, <2>1 DEF RequestToken
<1>6. ASSUME NEW t \in issued, Unregister(w, t)
      PROVE  \E r \in AuthRequest : Receive(w, r)
  <2>1. [op |-> "unregister", at |-> "pending", token |-> t] \in LeaveReq
    BY DEF LeaveReq, AuthTypeOK
  <2> QED
    BY <1>6, <2>1 DEF Unregister
<1>7. ASSUME NEW c \in Codes, NEW s \in Secrets, AuthenticateWatchdog(w, c, s)
      PROVE  \E r \in AuthRequest : Receive(w, r)
  <2>1. wdcodes[c] \in CodeRow /\ OwnerOf(c) # Unclaimed
    BY <1>7 DEF AuthenticateWatchdog, AuthTypeOK
  <2>2. OwnerOf(c) \in Uids
    BY <2>1 DEF CodeRow, OwnerOf
  <2>3. /\ [op |-> "secret", code |-> c, uid |-> OwnerOf(c), secret |-> s] \in SecretReq
        /\ [op |-> "token", code |-> c, id |-> OwnerOf(c), perm |-> "none"] \in TokenReq
    BY <2>2 DEF SecretReq, TokenReq
  <2> QED
    BY <1>7, <2>3 DEF AuthenticateWatchdog
<1>8. UNCHANGED <<authDb, issued, cache, bodies, authHist>>
  BY DEF Register, Verify, Forgot, Login, RequestToken, Unregister, AuthenticateWatchdog
<1> QED
  BY <1>1, <1>2, <1>3, <1>4, <1>5, <1>6, <1>7, <1>8

LEMMA RegisterTypes ==
    ASSUME AuthTypeOK, NEW w \in Workers, RegisterCode(w) \/ RegisterPending(w) \/ RegisterInsert(w)
    PROVE  AuthTypeOK'
<1> DEFINE q == req[w]
<1>1. q \in RegisterReq
  BY WhichRequest DEF RegisterCode, RegisterPending, RegisterInsert, At
<1>2. [q EXCEPT !.at = "pending"] \in AuthRequest /\ [q EXCEPT !.at = "insert"] \in AuthRequest
  BY <1>1, AuthRequests DEF RegisterReq
<1>3. \E r \in AuthRequest : Continue(w, r)
  BY <1>2, IdleIsRequest DEF RegisterCode, RegisterPending, RegisterInsert, Goto, Answer
<1>4. AuthRest'
  BY AuthRestSame DEF RegisterCode, RegisterPending, RegisterInsert
<1>5. ASSUME UNCHANGED <<users, wdcodes, lastUid, lastLink>>, pending' \subseteq pending PROVE AuthTables'
  BY <1>5 DEF AuthTypeOK, AuthTables
<1>6. CASE RegisterCode(w)
  BY <1>3, <1>4, <1>6, AuthTablesSame, AuthAsks DEF RegisterCode
<1>7. CASE RegisterPending(w)
  BY <1>3, <1>4, <1>5, <1>7, AuthAsks DEF RegisterPending, Sweep, Fresh
<1>8. CASE RegisterInsert(w)
  <2>1. q.email \in Emails /\ q.code \in Codes
    BY <1>1 DEF RegisterReq
  <2>2. /\ InsertPending("email", q.email, q.code) /\ UNCHANGED <<users, wdcodes, lastUid>>
    BY <1>8 DEF RegisterInsert
  <2>3. AuthTables'
    BY <2>1, <2>2, InsertPendingTypes
  <2> QED
    BY <1>3, <1>4, <2>3, AuthAsks
<1> QED
  BY <1>6, <1>7, <1>8

LEMMA VerifyTypes ==
    ASSUME AuthTypeOK, NEW w \in Workers, VerifyDelete(w) \/ VerifyInsert(w) \/ VerifyClaim(w)
    PROVE  AuthTypeOK'
<1>1. CASE VerifyDelete(w)
  <2>1. req[w] \in VerifyReq
    BY <1>1, WhichRequest DEF VerifyDelete, At
  <2>2. [req[w] EXCEPT !.at = "insert"] \in AuthRequest
    BY <2>1, AuthRequests DEF VerifyReq
  <2>3. \E r \in AuthRequest : Continue(w, r)
    BY <1>1, <2>2 DEF VerifyDelete, Goto
  <2>4. AuthTables' /\ AuthRest'
    BY <1>1, AuthRestSame DEF VerifyDelete, AuthTables, AuthTypeOK
  <2> QED
    BY <2>3, <2>4, AuthAsks
<1>2. CASE VerifyInsert(w)
  <2>1. req[w] \in VerifyReq
    BY <1>2, WhichRequest DEF VerifyInsert, At
  <2>2. /\ req[w].row \in Pending /\ req[w].row.email \in Emails /\ req[w].row.code \in Codes \cup {Unset}
    BY <2>1 DEF VerifyReq, Pending
  <2>3. CASE HasAccount(req[w].row.email)
    <3>1. Continue(w, Idle) /\ UNCHANGED <<authDb, issued, cache, bodies, authHist>>
      BY <1>2, <2>3 DEF VerifyInsert, Answer, authDb, authHist
    <3> QED
      BY <3>1, IdleIsRequest, AuthRestSame, AuthTablesSame, AuthAsks
  <2>4. CASE ~HasAccount(req[w].row.email)
    <3> DEFINE u == lastUid + 1
               r == [op |-> "verify", at |-> "claim", row |-> req[w].row, uid |-> u]
               acc == [uid |-> u, email |-> req[w].row.email, pw |-> 0]
    <3>1. /\ lastUid < MaxUid /\ lastUid' = u /\ users' = users \cup {acc}
          /\ claims' = [claims EXCEPT ![u] = req[w].row.code] /\ Continue(w, r)
          /\ UNCHANGED <<wdcodes, pending, lastLink, issued, cache, bodies, cut, early, robbed>>
      BY <1>2, <2>4 DEF VerifyInsert
    <3>2. u \in Uids
      BY <3>1, AuthAssumption DEF AuthTypeOK, Uids
    <3>3. r \in ClaimReq /\ acc \in User
      BY <2>2, <3>2 DEF ClaimReq, User
    <3>4. r \in AuthRequest
      BY <3>3, AuthRequests
    <3> HIDE DEF r, acc
    <3>5. AuthTables'
      BY <3>1, <3>2, <3>3 DEF AuthTypeOK, AuthTables, Uids
    <3>6. AuthRest'
      BY <2>2, <3>1, <3>2 DEF AuthTypeOK, AuthRest
    <3> QED
      BY <3>1, <3>4, <3>5, <3>6, AuthAsks
  <2> QED
    BY <2>3, <2>4
<1>3. CASE VerifyClaim(w)
  <2>1. req[w] \in ClaimReq
    BY <1>3, WhichRequest DEF VerifyClaim, At
  <2>2. req[w].uid \in Uids
    BY <2>1 DEF ClaimReq
  <2>3. /\ DOMAIN wdcodes' \subseteq Codes
        /\ \A c \in DOMAIN wdcodes' : wdcodes'[c] \in CodeRow
    BY <1>3, <2>2 DEF VerifyClaim, AuthTypeOK, CodeRow
  <2>4. AuthTables' /\ AuthRest'
    BY <1>3, <2>3, AuthRestSame DEF VerifyClaim, AuthTables, AuthTypeOK
  <2> QED
    BY <1>3, <2>4, IdleIsRequest, AuthAsks DEF VerifyClaim, Answer
<1> QED
  BY <1>1, <1>2, <1>3

LEMMA ForgotTypes ==
    ASSUME AuthTypeOK, NEW w \in Workers, ForgotPending(w) \/ ForgotInsert(w)
    PROVE  AuthTypeOK'
<1>1. req[w] \in ForgotReq
  BY WhichRequest DEF ForgotPending, ForgotInsert, At
<1>2. [req[w] EXCEPT !.at = "insert"] \in AuthRequest
  BY <1>1, AuthRequests DEF ForgotReq
<1>3. \E r \in AuthRequest : Continue(w, r)
  BY <1>2, IdleIsRequest DEF ForgotPending, ForgotInsert, Goto, Answer
<1>4. AuthRest'
  BY AuthRestSame DEF ForgotPending, ForgotInsert
<1>5. CASE ForgotPending(w)
  <2>1. pending' \subseteq pending /\ UNCHANGED <<users, wdcodes, lastUid, lastLink>>
    BY <1>5 DEF ForgotPending, Sweep, Fresh
  <2>2. AuthTables'
    BY <2>1 DEF AuthTypeOK, AuthTables
  <2> QED
    BY <1>3, <1>4, <2>2, AuthAsks
<1>6. CASE ForgotInsert(w)
  <2>1. req[w].email \in Emails
    BY <1>1 DEF ForgotReq
  <2>2. InsertPending("reset", req[w].email, Unset) /\ UNCHANGED <<users, wdcodes, lastUid>>
    BY <1>6 DEF ForgotInsert
  <2>3. AuthTables'
    BY <2>1, <2>2, InsertPendingTypes
  <2> QED
    BY <1>3, <1>4, <2>3, AuthAsks
<1> QED
  BY <1>5, <1>6

LEMMA ResetTypes ==
    ASSUME AuthTypeOK, NEW w \in Workers,
           \/ \E r \in pending : Reset(w, r)
           \/ \E b \in bodies, accepted \in BOOLEAN : ResetBody(w, b, accepted)
           \/ ResetUpdate(w)
    PROVE  AuthTypeOK'
<1>1. ASSUME NEW r \in pending, Reset(w, r) PROVE AuthTypeOK'
  <2>1. [w |-> w, link |-> r.link, email |-> r.email] \in [w : Workers, link : Links, email : Emails]
    BY DEF AuthTypeOK, Pending
  <2>2. AuthRest'
    BY <1>1, <2>1 DEF Reset, AuthTypeOK, AuthRest, authHist
  <2> QED
    BY <1>1, <2>2, IdleIsRequest, AuthTablesSame, AuthAsks DEF Reset
<1>2. ASSUME NEW b \in bodies, NEW accepted \in BOOLEAN, ResetBody(w, b, accepted) PROVE AuthTypeOK'
  <2>1. AuthRest'
    BY <1>2 DEF ResetBody, AuthTypeOK, AuthRest, authHist
  <2>2. AuthTables'
    BY <1>2 DEF ResetBody, AuthTypeOK, AuthTables
  <2>3. CASE accepted
    <3>1. b.email \in Emails /\ b.link \in Links
      BY DEF AuthTypeOK
    <3>2. [op |-> "reset", at |-> "update", email |-> b.email, link |-> b.link] \in ResetReq
      BY <3>1 DEF ResetReq
    <3> QED
      BY <1>2, <2>1, <2>2, <2>3, <3>2, AuthRequests, AuthAsks DEF ResetBody
  <2>4. CASE ~accepted
    <3>1. UNCHANGED serviceVars
      BY <1>2, <2>4 DEF ResetBody
    <3>2. alive' \subseteq Workers /\ handled' \in 0 .. MaxOverlap /\ req' \in [Workers -> AuthRequest]
      BY <3>1 DEF AuthTypeOK, serviceVars
    <3> QED
      BY <2>1, <2>2, <3>2, NextAuthParts
  <2> QED
    BY <2>3, <2>4
<1>3. ASSUME ResetUpdate(w) PROVE AuthTypeOK'
  <2>1. req[w] \in ResetReq
    BY <1>3, WhichRequest DEF ResetUpdate, At
  <2>2. req[w].link \in Links
    BY <2>1 DEF ResetReq
  <2>3. \A u \in users : [u EXCEPT !.pw = req[w].link] \in User
    BY <2>2 DEF AuthTypeOK, User
  <2>4. users' \subseteq User
    BY <1>3, <2>3 DEF ResetUpdate, AuthTypeOK
  <2>5. AuthTables' /\ AuthRest'
    BY <1>3, <2>4, AuthRestSame DEF ResetUpdate, AuthTypeOK, AuthTables
  <2> QED
    BY <1>3, <2>5, IdleIsRequest, AuthAsks DEF ResetUpdate, Answer
<1> QED
  BY <1>1, <1>2, <1>3

LEMMA SecretTypes == ASSUME AuthTypeOK, NEW w \in Workers, StoreSecret(w) PROVE AuthTypeOK'
<1>1. req[w] \in SecretReq
  BY WhichRequest DEF StoreSecret
<1>2. req[w].code \in Codes /\ req[w].uid \in Uids /\ req[w].secret \in Secrets
  BY <1>1 DEF SecretReq
<1>3. [op |-> "token", code |-> req[w].code, id |-> req[w].uid, perm |-> "none"] \in TokenReq
  BY <1>2 DEF TokenReq
<1>4. /\ DOMAIN wdcodes' \subseteq Codes
      /\ \A c \in DOMAIN wdcodes' : wdcodes'[c] \in CodeRow
  BY <1>2 DEF StoreSecret, AuthTypeOK, CodeRow
<1>5. AuthTables' /\ AuthRest'
  BY <1>4, AuthRestSame DEF StoreSecret, AuthTables, AuthTypeOK
<1> QED
  BY <1>3, <1>5, AuthRequests, AuthAsks DEF StoreSecret

LEMMA TokenTypes == ASSUME AuthTypeOK, NEW w \in Workers, GenerateToken(w) PROVE AuthTypeOK'
<1> DEFINE r == req[w]
           new == [code |-> r.code, id |-> r.id, perm |-> r.perm,
                   belongs |-> IF r.code \in Emails THEN CodesOf(r.id) ELSE {}]
<1>1. r \in TokenReq
  BY WhichRequest DEF GenerateToken
<1>2. r.code \in Emails \cup Codes /\ r.id \in Uids /\ r.perm \in {"user", "none"}
  BY <1>1 DEF TokenReq
<1>3. CodesOf(r.id) \subseteq Codes
  BY DEF CodesOf, AuthTypeOK
<1>4. new \in Token
  BY <1>2, <1>3 DEF Token
<1> HIDE DEF new
<1>5. \A t \in cache[w] : t \in Token
  BY DEF AuthTypeOK
<1>6. /\ \E t \in Token : issued' = issued \cup {t}
      /\ early' \subseteq early \cup {r.id}
      /\ cache' = cache \/ cache' = [cache EXCEPT ![w] = @ \cup {new}] \/ cache' = [cache EXCEPT ![w] = {new}]
      /\ UNCHANGED <<authDb, bodies, cut, claims, robbed>>
  <2>1. /\ \/ \E t \in cache[w] : /\ issued' = issued \cup {t}
                                  /\ early' = IF MidVerify(r.id) THEN early \cup {r.id} ELSE early
           \/ /\ issued' = issued \cup {new}
              /\ early' = IF MidVerify(r.id) THEN early \cup {r.id} ELSE early
        /\ cache' = cache \/ cache' = [cache EXCEPT ![w] = @ \cup {new}] \/ cache' = [cache EXCEPT ![w] = {new}]
        /\ UNCHANGED <<authDb, bodies, cut, claims, robbed>>
    BY DEF GenerateToken, new
  <2> QED
    BY <1>4, <1>5, <2>1
<1>7. cache' \in [Workers -> SUBSET Token]
  BY <1>4, <1>6 DEF AuthTypeOK
<1>8. AuthRest'
  BY <1>2, <1>6, <1>7 DEF AuthTypeOK, AuthRest
<1> QED
  BY <1>6, <1>8, AuthTablesSame, IdleIsRequest, AuthAsks DEF GenerateToken, Answer

LEMMA UnregisterTypes ==
    ASSUME AuthTypeOK, NamedCodes, NEW w \in Workers,
           UnregisterPending(w) \/ UnregisterDelete(w) \/ \E c \in Codes : UnregisterCode(w, c)
    PROVE  AuthTypeOK'
<1>1. CASE UnregisterPending(w)
  <2>1. req[w] \in LeaveReq
    BY <1>1, WhichRequest DEF UnregisterPending, At
  <2>2. [req[w] EXCEPT !.at = "users"] \in AuthRequest
    BY <2>1, AuthRequests DEF LeaveReq
  <2>3. \E r \in AuthRequest : Continue(w, r)
    BY <1>1, <2>2, IdleIsRequest DEF UnregisterPending, Goto, Answer
  <2>4. AuthTables' /\ AuthRest'
    BY <1>1, AuthRestSame DEF UnregisterPending, Sweep, Fresh, AuthTables, AuthTypeOK
  <2> QED
    BY <2>3, <2>4, AuthAsks
<1>2. CASE UnregisterDelete(w)
  <2>1. req[w] \in LeaveReq
    BY <1>2, WhichRequest DEF UnregisterDelete, At
  <2>2. req[w].token \in Token /\ req[w].token.belongs \subseteq Codes
    BY <2>1 DEF LeaveReq, Token
  <2>3. [op |-> "unregister", at |-> "codes", token |-> req[w].token, left |-> req[w].token.belongs] \in ReleaseReq
    BY <2>2 DEF ReleaseReq
  <2>4. \E r \in AuthRequest : Continue(w, r)
    BY <1>2, <2>3, AuthRequests, IdleIsRequest DEF UnregisterDelete, Answer
  <2>5. AuthTables' /\ AuthRest'
    BY <1>2, AuthRestSame DEF UnregisterDelete, AuthTables, AuthTypeOK
  <2> QED
    BY <2>4, <2>5, AuthAsks
<1>3. ASSUME NEW c \in Codes, UnregisterCode(w, c) PROVE AuthTypeOK'
  <2>1. req[w] \in ReleaseReq
    BY <1>3, WhichRequest DEF UnregisterCode, At
  <2>2. [req[w] EXCEPT !.left = @ \ {c}] \in ReleaseReq
    BY <2>1 DEF ReleaseReq
  <2>3. \E r \in AuthRequest : Continue(w, r)
    BY <1>3, <2>2, AuthRequests, IdleIsRequest DEF UnregisterCode, Answer
  <2>4. [uid |-> Unclaimed, secret |-> Unset] \in CodeRow
    BY DEF CodeRow
  <2>5. AuthTables'
    BY <1>3, <2>4 DEF UnregisterCode, AuthTables, AuthTypeOK
  <2>6. robbed' \subseteq Uids
    <3>1. c \in DOMAIN wdcodes
      BY <1>3 DEF UnregisterCode, NamedCodes, NamesCodes, At
    <3>2. wdcodes[c] \in CodeRow
      BY <3>1 DEF AuthTypeOK
    <3>3. OwnerOf(c) \in Uids \cup {Unclaimed}
      BY <3>2 DEF CodeRow, OwnerOf
    <3> QED
      BY <1>3, <3>3 DEF UnregisterCode, AuthTypeOK
  <2>7. AuthRest'
    BY <1>3, <2>6 DEF UnregisterCode, AuthRest, AuthTypeOK
  <2> QED
    BY <2>3, <2>5, <2>7, AuthAsks
<1> QED
  BY <1>1, <1>2, <1>3

LEMMA AuthCrashTypes == ASSUME AuthTypeOK, NEW w \in Workers, AuthCrash(w) PROVE AuthTypeOK'
<1>1. cut' \subseteq Uids
  BY DEF AuthCrash, AuthTypeOK
<1>2. cache' \in [Workers -> SUBSET Token]
  BY DEF AuthCrash, AuthTypeOK
<1>3. AuthRest'
  BY <1>1, <1>2 DEF AuthCrash, AuthRest, AuthTypeOK
<1> QED
  BY <1>3, AuthTablesSame, IdleIsRequest, AuthAsks DEF AuthCrash, Answer

\* What happens outside the processes.
LEMMA OutsideTypes ==
    ASSUME AuthTypeOK,
           \/ \E c \in Codes : AddCode(c)
           \/ \E r \in pending : TenMinutes(r)
           \/ \E t \in issued : TokenExpires(t)
    PROVE  AuthTypeOK'
<1>1. alive' \subseteq Workers /\ handled' \in 0 .. MaxOverlap /\ req' \in [Workers -> AuthRequest]
  BY DEF AddCode, TenMinutes, TokenExpires, serviceVars, AuthTypeOK
<1>2. ASSUME NEW c \in Codes, AddCode(c) PROVE AuthTypeOK'
  <2>1. [uid |-> Unclaimed, secret |-> Unset] \in CodeRow
    BY DEF CodeRow
  <2>2. AuthTables'
    BY <1>2, <2>1 DEF AddCode, AuthTables, AuthTypeOK
  <2> QED
    BY <1>1, <1>2, <2>2, AuthRestSame, NextAuthParts DEF AddCode
<1>3. ASSUME NEW r \in pending, TenMinutes(r) PROVE AuthTypeOK'
  <2>1. [r EXCEPT !.fresh = FALSE] \in Pending
    BY DEF AuthTypeOK, Pending
  <2>2. AuthTables'
    BY <1>3, <2>1 DEF TenMinutes, AuthTables, AuthTypeOK
  <2> QED
    BY <1>1, <1>3, <2>2, AuthRestSame, NextAuthParts DEF TenMinutes
<1>4. ASSUME NEW t \in issued, TokenExpires(t) PROVE AuthTypeOK'
  <2>1. AuthRest'
    BY <1>4 DEF TokenExpires, AuthRest, AuthTypeOK, authHist
  <2> QED
    BY <1>1, <1>4, <2>1, AuthTablesSame, NextAuthParts DEF TokenExpires
<1> QED
  BY <1>2, <1>3, <1>4

LEMMA NamedStays ==
    ASSUME AuthTypes, DOMAIN wdcodes \subseteq DOMAIN wdcodes', NEW w \in Workers, NEW r, NamesCodes(r),
           req' = [req EXCEPT ![w] = r],
           \A t \in issued' : t \in issued \/ t.belongs \subseteq DOMAIN wdcodes,
           \A v \in Workers : \A t \in cache'[v] : t \in cache[v] \/ t.belongs \subseteq DOMAIN wdcodes
    PROVE  NamedCodes'
<1>1. \A v \in Workers : req'[v] = req[v] \/ req'[v] = r
  BY DEF AuthTypes, AuthTypeOK
<1>2. \A v \in Workers : NamesCodes(req'[v])
  BY <1>1 DEF AuthTypes, NamedCodes
<1>3. \A v \in Workers : NamesCodes(req[v])'
  <2> SUFFICES ASSUME NEW v \in Workers PROVE NamesCodes(req[v])'
    OBVIOUS
  <2> QED
    BY <1>2 DEF NamesCodes
<1> QED
  BY <1>3 DEF AuthTypes, NamedCodes

\* Process w goes on with something that names no codes, and no token is new.
LEMMA OtherNamed ==
    ASSUME AuthTypes, DOMAIN wdcodes \subseteq DOMAIN wdcodes', issued' \subseteq issued,
           \A v \in Workers : cache'[v] \subseteq cache[v],
           NEW w \in Workers, NEW r, r.op # "unregister", Continue(w, r) \/ Receive(w, r)
    PROVE  NamedCodes'
<1>1. req' = [req EXCEPT ![w] = r] /\ NamesCodes(r)
  BY DEF Continue, Receive, NamesCodes
<1>2. /\ \A t \in issued' : t \in issued
      /\ \A v \in Workers : \A t \in cache'[v] : t \in cache[v]
  OBVIOUS
<1> QED
  BY <1>1, <1>2, NamedStays

LEMMA IdleNamesNone == Idle.op # "unregister"
BY DEF Idle

LEMMA RegisteringNamed ==
    ASSUME AuthTypes, NEW w \in Workers,
           \/ \E e \in Emails, c \in Codes : Register(w, e, c)
           \/ RegisterCode(w) \/ RegisterPending(w) \/ RegisterInsert(w)
           \/ \E e \in Emails : Forgot(w, e)
           \/ ForgotPending(w) \/ ForgotInsert(w)
    PROVE  NamedCodes'
<1>1. UNCHANGED <<wdcodes, issued, cache>>
  BY DEF Register, RegisterCode, RegisterPending, RegisterInsert, Forgot, ForgotPending, ForgotInsert, authDb
<1>2. ASSUME NEW e \in Emails, NEW c \in Codes, Register(w, e, c) PROVE NamedCodes'
  <2> DEFINE r == [op |-> "register", at |-> "code", email |-> e, code |-> c]
  <2>1. r.op # "unregister" /\ Receive(w, r)
    BY <1>2 DEF Register
  <2> HIDE DEF r
  <2> QED
    BY <1>1, <2>1, OtherNamed
<1>3. ASSUME NEW e \in Emails, Forgot(w, e) PROVE NamedCodes'
  <2> DEFINE r == [op |-> "forgot", at |-> "pending", email |-> e]
  <2>1. r.op # "unregister" /\ Receive(w, r)
    BY <1>3 DEF Forgot
  <2> HIDE DEF r
  <2> QED
    BY <1>1, <2>1, OtherNamed
<1>4. CASE RegisterCode(w) \/ RegisterPending(w) \/ RegisterInsert(w) \/ ForgotPending(w) \/ ForgotInsert(w)
  <2>1. req[w] \in RegisterReq \cup ForgotReq
    BY <1>4, WhichRequest DEF RegisterCode, RegisterPending, RegisterInsert, ForgotPending, ForgotInsert, At, AuthTypes
  <2>2. [req[w] EXCEPT !.at = "pending"].op # "unregister" /\ [req[w] EXCEPT !.at = "insert"].op # "unregister"
    BY <2>1 DEF RegisterReq, ForgotReq
  <2>3. \/ Continue(w, Idle) \/ Continue(w, [req[w] EXCEPT !.at = "pending"])
        \/ Continue(w, [req[w] EXCEPT !.at = "insert"])
    BY <1>4 DEF RegisterCode, RegisterPending, RegisterInsert, ForgotPending, ForgotInsert, Goto, Answer
  <2> QED
    BY <1>1, <2>2, <2>3, IdleNamesNone, OtherNamed
<1> QED
  BY <1>2, <1>3, <1>4

LEMMA VerifyingNamed ==
    ASSUME AuthTypes, NEW w \in Workers,
           \/ \E r \in pending : Verify(w, r)
           \/ VerifyDelete(w) \/ VerifyInsert(w) \/ VerifyClaim(w)
           \/ \E r \in pending : Reset(w, r)
           \/ \E b \in bodies, accepted \in BOOLEAN : ResetBody(w, b, accepted)
           \/ ResetUpdate(w)
    PROVE  NamedCodes'
<1>1. DOMAIN wdcodes' = DOMAIN wdcodes /\ UNCHANGED <<issued, cache>>
  BY DEF Verify, VerifyDelete, VerifyInsert, VerifyClaim, Reset, ResetBody, ResetUpdate, authDb
<1>2. ASSUME NEW p \in pending, Verify(w, p) PROVE NamedCodes'
  <2> DEFINE r == [op |-> "verify", at |-> "delete", row |-> p]
  <2>1. r.op # "unregister" /\ Receive(w, r)
    BY <1>2 DEF Verify
  <2> HIDE DEF r
  <2> QED
    BY <1>1, <2>1, OtherNamed
<1>3. CASE VerifyDelete(w)
  <2>1. req[w] \in VerifyReq
    BY <1>3, WhichRequest DEF VerifyDelete, At, AuthTypes
  <2>2. [req[w] EXCEPT !.at = "insert"].op # "unregister"
    BY <2>1 DEF VerifyReq
  <2> QED
    BY <1>1, <1>3, <2>2, OtherNamed DEF VerifyDelete, Goto
<1>4. CASE VerifyInsert(w)
  <2> DEFINE r == [op |-> "verify", at |-> "claim", row |-> req[w].row, uid |-> lastUid + 1]
  <2>1. r.op # "unregister" /\ (Continue(w, r) \/ Continue(w, Idle))
    BY <1>4 DEF VerifyInsert, Answer
  <2> HIDE DEF r
  <2> QED
    BY <1>1, <2>1, IdleNamesNone, OtherNamed
<1>5. CASE VerifyClaim(w) \/ ResetUpdate(w)
  BY <1>1, <1>5, IdleNamesNone, OtherNamed DEF VerifyClaim, ResetUpdate, Answer
<1>6. ASSUME NEW r \in pending, Reset(w, r) PROVE NamedCodes'
  BY <1>1, <1>6, IdleNamesNone, OtherNamed DEF Reset
<1>7. ASSUME NEW b \in bodies, NEW accepted \in BOOLEAN, ResetBody(w, b, accepted) PROVE NamedCodes'
  <2> DEFINE r == [op |-> "reset", at |-> "update", email |-> b.email, link |-> b.link]
  <2>1. r.op # "unregister" /\ (Continue(w, r) \/ UNCHANGED serviceVars)
    BY <1>7 DEF ResetBody
  <2> HIDE DEF r
  <2>2. CASE Continue(w, r)
    BY <1>1, <2>1, <2>2, OtherNamed
  <2>3. CASE UNCHANGED serviceVars
    BY <1>1, <2>3 DEF serviceVars, AuthTypes, NamedCodes, NamesCodes
  <2> QED
    BY <2>1, <2>2, <2>3
<1> QED
  BY <1>2, <1>3, <1>4, <1>5, <1>6, <1>7

LEMMA TokenNamed ==
    ASSUME AuthTypes, NEW w \in Workers,
           \/ \E u \in users : Login(w, u)
           \/ \E t \in issued : RequestToken(w, t) \/ Unregister(w, t)
           \/ \E c \in Codes, s \in Secrets : AuthenticateWatchdog(w, c, s)
           \/ StoreSecret(w) \/ GenerateToken(w)
    PROVE  NamedCodes'
<1>1. ASSUME NEW c, NEW id, NEW perm, NEW r, r = [op |-> "token", code |-> c, id |-> id, perm |-> perm],
             Continue(w, r) \/ Receive(w, r), DOMAIN wdcodes' = DOMAIN wdcodes, UNCHANGED <<issued, cache>>
      PROVE  NamedCodes'
  BY <1>1, OtherNamed
<1>2. ASSUME NEW u \in users, Login(w, u) PROVE NamedCodes'
  BY <1>1, <1>2 DEF Login, authDb
<1>3. ASSUME NEW t \in issued, RequestToken(w, t) PROVE NamedCodes'
  BY <1>1, <1>3 DEF RequestToken, authDb
<1>4. ASSUME NEW t \in issued, Unregister(w, t) PROVE NamedCodes'
  <2> DEFINE r == [op |-> "unregister", at |-> "pending", token |-> t]
  <2>1. NamesCodes(r)
    BY DEF NamesCodes, AuthTypes, NamedCodes
  <2>2. Receive(w, r) /\ UNCHANGED <<wdcodes, issued, cache>>
    BY <1>4 DEF Unregister, authDb
  <2> HIDE DEF r
  <2> QED
    BY <2>1, <2>2, NamedStays DEF Receive
<1>5. ASSUME NEW c \in Codes, NEW s \in Secrets, AuthenticateWatchdog(w, c, s) PROVE NamedCodes'
  <2> DEFINE r == [op |-> "secret", code |-> c, uid |-> OwnerOf(c), secret |-> s]
             q == [op |-> "token", code |-> c, id |-> OwnerOf(c), perm |-> "none"]
  <2>1. /\ r.op # "unregister" /\ q.op # "unregister" /\ (Receive(w, r) \/ Receive(w, q))
        /\ UNCHANGED <<wdcodes, issued, cache>>
    BY <1>5 DEF AuthenticateWatchdog, authDb
  <2> HIDE DEF r, q
  <2> QED
    BY <2>1, OtherNamed
<1>6. CASE StoreSecret(w)
  BY <1>1, <1>6 DEF StoreSecret
<1>7. CASE GenerateToken(w)
  <2> DEFINE r == req[w]
             new == [code |-> r.code, id |-> r.id, perm |-> r.perm,
                     belongs |-> IF r.code \in Emails THEN CodesOf(r.id) ELSE {}]
  <2>1. new.belongs \subseteq DOMAIN wdcodes
    BY DEF CodesOf
  <2>2. /\ \A t \in issued' : t \in issued \/ t \in cache[w] \/ t = new
        /\ cache' = cache \/ cache' = [cache EXCEPT ![w] = @ \cup {new}] \/ cache' = [cache EXCEPT ![w] = {new}]
        /\ UNCHANGED wdcodes /\ req' = [req EXCEPT ![w] = Idle]
    BY <1>7 DEF GenerateToken, Answer, Continue, authDb
  <2> HIDE DEF new
  <2>3. \A t \in issued' : t \in issued \/ t.belongs \subseteq DOMAIN wdcodes
    BY <2>1, <2>2 DEF AuthTypes, NamedCodes
  <2>4. cache \in [Workers -> SUBSET Token]
    BY DEF AuthTypes, AuthTypeOK
  <2>5. \A v \in Workers : \A t \in cache'[v] : t \in cache[v] \/ t.belongs \subseteq DOMAIN wdcodes
    BY <2>1, <2>2, <2>4
  <2>6. NamesCodes(Idle)
    BY IdleNamesNone DEF NamesCodes
  <2> QED
    BY <2>2, <2>3, <2>5, <2>6, NamedStays
<1> QED
  BY <1>2, <1>3, <1>4, <1>5, <1>6, <1>7

LEMMA LeavingNamed ==
    ASSUME AuthTypes, NEW w \in Workers,
           \/ UnregisterPending(w) \/ UnregisterDelete(w)
           \/ \E c \in Codes : UnregisterCode(w, c)
           \/ AuthCrash(w)
    PROVE  NamedCodes'
<1>0. NamesCodes(req[w]) /\ NamesCodes(Idle)
  BY IdleNamesNone DEF AuthTypes, NamedCodes, NamesCodes
<1>1. CASE UnregisterPending(w)
  <2>1. req[w] \in LeaveReq
    BY <1>1, WhichRequest DEF UnregisterPending, At, AuthTypes
  <2>2. NamesCodes([req[w] EXCEPT !.at = "users"])
    BY <1>0, <2>1 DEF LeaveReq, NamesCodes
  <2>3. \/ req' = [req EXCEPT ![w] = Idle] \/ req' = [req EXCEPT ![w] = [req[w] EXCEPT !.at = "users"]]
    BY <1>1 DEF UnregisterPending, Goto, Answer, Continue
  <2> QED
    BY <1>0, <1>1, <2>2, <2>3, NamedStays DEF UnregisterPending
<1>2. CASE UnregisterDelete(w)
  <2> DEFINE r == [op |-> "unregister", at |-> "codes", token |-> req[w].token, left |-> req[w].token.belongs]
  <2>1. req[w].op = "unregister"
    BY <1>2 DEF UnregisterDelete, At
  <2>2. NamesCodes(r)
    BY <1>0, <2>1 DEF NamesCodes
  <2>3. req' = [req EXCEPT ![w] = Idle] \/ req' = [req EXCEPT ![w] = r]
    BY <1>2 DEF UnregisterDelete, Answer, Continue
  <2> HIDE DEF r
  <2> QED
    BY <1>0, <1>2, <2>2, <2>3, NamedStays DEF UnregisterDelete
<1>3. ASSUME NEW c \in Codes, UnregisterCode(w, c) PROVE NamedCodes'
  <2> DEFINE r == [req[w] EXCEPT !.left = @ \ {c}]
  <2>1. req[w] \in ReleaseReq
    BY <1>3, WhichRequest DEF UnregisterCode, At, AuthTypes
  <2>2. NamesCodes(r)
    BY <1>0, <2>1 DEF ReleaseReq, NamesCodes
  <2>3. /\ req' = [req EXCEPT ![w] = Idle] \/ req' = [req EXCEPT ![w] = r]
        /\ DOMAIN wdcodes' = DOMAIN wdcodes /\ UNCHANGED <<issued, cache>>
    BY <1>3 DEF UnregisterCode, Answer, Continue
  <2> HIDE DEF r
  <2> QED
    BY <1>0, <2>2, <2>3, NamedStays
<1>4. CASE AuthCrash(w)
  <2>1. UNCHANGED <<wdcodes, issued>> /\ \A v \in Workers : cache'[v] \subseteq cache[v]
    BY <1>4 DEF AuthCrash, authDb, AuthTypes, AuthTypeOK
  <2> QED
    BY <1>4, <2>1, IdleNamesNone, OtherNamed DEF AuthCrash, Answer
<1> QED
  BY <1>1, <1>2, <1>3, <1>4

LEMMA OutsideNamed ==
    ASSUME AuthTypes,
           \/ \E c \in Codes : AddCode(c)
           \/ \E r \in pending : TenMinutes(r)
           \/ \E t \in issued : TokenExpires(t)
    PROVE  NamedCodes'
<1>1. DOMAIN wdcodes \subseteq DOMAIN wdcodes' /\ issued' \subseteq issued /\ UNCHANGED <<req, cache>>
  BY DEF AddCode, TenMinutes, TokenExpires, authDb, serviceVars
<1> QED
  BY <1>1 DEF AuthTypes, NamedCodes, NamesCodes

LEMMA InitAuthTypes == AuthInit => AuthTypes
<1> SUFFICES ASSUME AuthInit PROVE AuthTypes
  OBVIOUS
<1>1. alive \subseteq Workers /\ handled \in 0 .. MaxOverlap /\ req \in [Workers -> AuthRequest]
  BY IdleIsRequest, ServiceAssumption DEF AuthInit, ServiceInit
<1>2. AuthTables
  BY AuthAssumption DEF AuthInit, AuthTables
<1>3. AuthRest
  BY DEF AuthInit, AuthRest
<1>4. NamedCodes
  BY IdleNamesNone DEF AuthInit, ServiceInit, NamedCodes, NamesCodes
<1> QED
  BY <1>1, <1>2, <1>3, <1>4, AuthParts DEF AuthTypes

LEMMA NextAuthTypes == AuthTypes /\ [AuthNext]_authVars => AuthTypes'
<1> SUFFICES ASSUME AuthTypes, [AuthNext]_authVars PROVE AuthTypeOK' /\ NamedCodes'
  BY DEF AuthTypes
<1>0. AuthTypeOK /\ NamedCodes
  BY DEF AuthTypes
<1>1. CASE UNCHANGED authVars
  BY <1>1 DEF authVars, authDb, authHist, serviceVars, AuthTypes, AuthTypeOK, NamedCodes, NamesCodes
<1>2. ASSUME NEW w \in Workers,
             \/ \E e \in Emails, c \in Codes : Register(w, e, c)
             \/ RegisterCode(w) \/ RegisterPending(w) \/ RegisterInsert(w)
             \/ \E r \in pending : Verify(w, r)
             \/ VerifyDelete(w) \/ VerifyInsert(w) \/ VerifyClaim(w)
             \/ \E e \in Emails : Forgot(w, e)
             \/ ForgotPending(w) \/ ForgotInsert(w)
      PROVE  AuthTypeOK' /\ NamedCodes'
  BY <1>0, <1>2, ArrivalTypes, RegisterTypes, VerifyTypes, ForgotTypes, RegisteringNamed, VerifyingNamed
<1>3. ASSUME NEW w \in Workers,
             \/ \E r \in pending : Reset(w, r)
             \/ \E b \in bodies, accepted \in BOOLEAN : ResetBody(w, b, accepted)
             \/ ResetUpdate(w)
             \/ \E u \in users : Login(w, u)
             \/ \E t \in issued : RequestToken(w, t) \/ Unregister(w, t)
             \/ \E c \in Codes, s \in Secrets : AuthenticateWatchdog(w, c, s)
             \/ StoreSecret(w) \/ GenerateToken(w)
      PROVE  AuthTypeOK' /\ NamedCodes'
  BY <1>0, <1>3, ResetTypes, ArrivalTypes, SecretTypes, TokenTypes, VerifyingNamed, TokenNamed
<1>4. ASSUME NEW w \in Workers,
             \/ UnregisterPending(w) \/ UnregisterDelete(w)
             \/ \E c \in Codes : UnregisterCode(w, c)
             \/ AuthCrash(w)
      PROVE  AuthTypeOK' /\ NamedCodes'
  BY <1>0, <1>4, UnregisterTypes, AuthCrashTypes, LeavingNamed
<1> QED
  BY <1>0, <1>1, <1>2, <1>3, <1>4, OutsideTypes, OutsideNamed DEF AuthNext

-----------------------------------------------------------------------------
(* The addon backend: most of it is part of what its proof above needs.    *)

\* What a request is about to write a row for.
Placed(q) ==
    /\ q.op = "type" => q.addon \in Addons
    /\ q.op \in {"install", "modify"} => q.device \in Devices \cup {NullDevice}
AddonBounds ==
    /\ lastConfig <= MaxConfig /\ configs \subseteq ConfigId
    /\ Types \subseteq Addons
    /\ \A r \in wds : r.device \in Devices \cup {NullDevice}
    /\ disturbed \subseteq Workers /\ lost \subseteq ConfigId
    /\ \A w \in Workers : Placed(req[w])
AddonTypes == AddonInv /\ AddonBounds

LEMMA TypesFromAddonTypes == AddonTypes => AddonTypeOK
<1> SUFFICES ASSUME AddonTypes PROVE AddonTypeOK
  OBVIOUS
<1>1. PInv /\ KeyInv /\ AddonBounds
  BY DEF AddonTypes, AddonInv
<1>2. lastConfig \in 0 .. MaxConfig /\ Drawn \subseteq ConfigId
  BY <1>1, AddonAssumption DEF PInv, Numbers, AddonBounds, Drawn, ConfigId
<1>3. \A a \in Types : addons[a] \in ConfigId
  BY <1>1, <1>2 DEF PInv, Numbers
<1>4. ASSUME NEW r \in wds PROVE r \in Relation
  <2>1. r = [wd |-> r.wd, addon |-> r.addon, device |-> r.device, config |-> r.config]
    BY <1>1 DEF PInv, RowsApart
  <2>2. r.wd \in Watchdogs /\ r.addon \in Addons /\ r.config \in ConfigId /\ r.device \in Devices \cup {NullDevice}
    BY <1>1, <1>2 DEF PInv, KeyInv, Keys, Numbers, AddonBounds
  <2> QED
    BY <2>1, <2>2 DEF Relation
<1>5. \A p \in parked : p.w \in Workers
  BY <1>1 DEF KeyInv
<1> QED
  BY <1>1, <1>2, <1>3, <1>4, <1>5 DEF AddonTypeOK, AddonBounds

\* Process w goes on with q.
LEMMA AddonGoesOn ==
    ASSUME AddonTypes, NEW w \in Workers, NEW q, Placed(q), Continue(w, q) \/ Receive(w, q)
    PROVE  \A v \in Workers : Placed(req'[v])
<1>1. DOMAIN req = Workers /\ req' = [req EXCEPT ![w] = q] /\ \A v \in Workers : Placed(req[v])
  BY DEF AddonTypes, AddonInv, AddonBounds, PInv, Requests, Continue, Receive
<1> QED
  BY <1>1

LEMMA NextAddonBounds ==
    (/\ lastConfig' <= MaxConfig /\ configs' \subseteq ConfigId
     /\ Types' \subseteq Addons
     /\ \A r \in wds' : r.device \in Devices \cup {NullDevice}
     /\ disturbed' \subseteq Workers /\ lost' \subseteq ConfigId
     /\ \A w \in Workers : Placed(req'[w])) => AddonBounds'
BY DEF AddonBounds, Placed

\* The request stays what it is, or ends; or goes on with the same addon and
\* device; and of the tables nothing is new.
LEMMA Onward ==
    ASSUME AddonTypes, NEW w \in Workers, NEW q, Placed(q), Continue(w, q) \/ Receive(w, q),
           lastConfig' = lastConfig, configs' \subseteq configs, Types' \subseteq Types,
           wds' \subseteq wds, disturbed' \subseteq Workers, lost' \subseteq lost \cup configs
    PROVE  AddonBounds'
<1>1. AddonBounds
  BY DEF AddonTypes
<1>2. \A v \in Workers : Placed(req'[v])
  BY AddonGoesOn
<1> QED
  BY <1>1, <1>2, NextAddonBounds DEF AddonBounds

LEMMA IdlePlaced == Placed(Idle)
BY DEF Placed, Idle

\* The next statement of a request is about the same rows.
LEMMA SamePlace ==
    ASSUME AddonTypes, NEW w \in Workers
    PROVE  /\ \A at : Placed([req[w] EXCEPT !.at = at])
           /\ \A at, id : Placed([req[w] EXCEPT !.at = at, !.id = id])
           /\ req[w].op \notin {"type", "install", "modify"} =>
                /\ \A at, todo : Placed([req[w] EXCEPT !.at = at, !.todo = todo])
                /\ \A at, a : Placed([req[w] EXCEPT !.at = at, !.addon = a])
                /\ \A todo : Placed([req[w] EXCEPT !.todo = todo])
                /\ \A ids : Placed([req[w] EXCEPT !.ids = ids])
                /\ \A none : Placed([req[w] EXCEPT !.none = none])
                /\ \A at, ids : Placed([req[w] EXCEPT !.at = at, !.ids = ids])
                /\ \A at, d : Placed([req[w] EXCEPT !.at = at, !.default = d])
<1>1. Form(req[w]) /\ Placed(req[w])
  BY DEF AddonTypes, AddonInv, AddonBounds, PInv, Requests
<1> DEFINE q == req[w]
<1> HIDE DEF q
<1>2. Form(q) /\ Placed(q) /\ "op" \in DOMAIN q
  BY <1>1 DEF q, Form
<1>3. (\A at : Placed([q EXCEPT !.at = at])) /\ (\A at, id : Placed([q EXCEPT !.at = at, !.id = id]))
  BY <1>2 DEF Form, Placed
<1>4. ASSUME q.op \notin {"type", "install", "modify"}
      PROVE  /\ \A at, todo : Placed([q EXCEPT !.at = at, !.todo = todo])
             /\ \A at, a : Placed([q EXCEPT !.at = at, !.addon = a])
             /\ \A todo : Placed([q EXCEPT !.todo = todo])
             /\ \A ids : Placed([q EXCEPT !.ids = ids])
             /\ \A none : Placed([q EXCEPT !.none = none])
             /\ \A at, ids : Placed([q EXCEPT !.at = at, !.ids = ids])
             /\ \A at, d : Placed([q EXCEPT !.at = at, !.default = d])
  BY <1>2, <1>4 DEF Placed
<1> QED
  BY <1>3, <1>4 DEF q

LEMMA AddonArrivalTypes ==
    ASSUME AddonTypes, NEW w \in Workers,
           \/ \E a \in Addons : ModifyType(w, a) \/ RemoveType(w, a)
           \/ \E wd \in Watchdogs, a \in Addons :
                \/ Install(w, wd, a) \/ Uninstall(w, wd, a)
                \/ \E d \in Devices \cup {NullDevice}, config \in BOOLEAN : ModifyAddon(w, wd, a, d, config)
           \/ \E wd \in Watchdogs, d \in Devices \cup {NoDevice}, user \in BOOLEAN : GetAddon(w, wd, d, user)
           \/ \E as \in {{a} : a \in Addons} \cup {Types} : GetType(w, as)
    PROVE  AddonBounds'
<1>1. UNCHANGED <<tables, lost>> /\ disturbed' \subseteq Workers
  BY DEF ModifyType, RemoveType, Install, Uninstall, ModifyAddon, GetAddon, GetType, hist, AddonTypes, AddonBounds
<1>2. UNCHANGED <<lastConfig, configs, Types, wds>>
  BY <1>1 DEF tables, Types
<1> SUFFICES \E q : Placed(q) /\ Receive(w, q)
  BY <1>1, <1>2, Onward
<1>3. ASSUME NEW a \in Addons, ModifyType(w, a) PROVE \E q : Placed(q) /\ Receive(w, q)
  <2>1. /\ Placed([op |-> "type", at |-> "row", addon |-> a, id |-> addons[a]])
        /\ Placed([op |-> "type", at |-> "new", addon |-> a, id |-> 0])
    BY DEF Placed
  <2> QED
    BY <1>3, <2>1 DEF ModifyType
<1>4. ASSUME NEW wd \in Watchdogs, NEW a \in Addons, Install(w, wd, a) PROVE \E q : Placed(q) /\ Receive(w, q)
  <2>1. Placed([op |-> "install", at |-> "type", wd |-> wd, addon |-> a, device |-> NullDevice, id |-> 0])
    BY DEF Placed
  <2> QED
    BY <1>4, <2>1 DEF Install
<1>5. ASSUME NEW wd \in Watchdogs, NEW a \in Addons, NEW d \in Devices \cup {NullDevice}, NEW config \in BOOLEAN,
             ModifyAddon(w, wd, a, d, config)
      PROVE  \E q : Placed(q) /\ Receive(w, q)
  <2>1. /\ \A r : Placed([op |-> "modify", at |-> "row", wd |-> wd, addon |-> a,
                          device |-> d, id |-> r.config, config |-> config])
        /\ Placed([op |-> "modify", at |-> "fallback", wd |-> wd, addon |-> a,
                   device |-> d, id |-> 0, config |-> config])
    BY DEF Placed
  <2> QED
    BY <1>5, <2>1 DEF ModifyAddon
<1>6. ASSUME NEW wd \in Watchdogs, NEW d \in Devices \cup {NoDevice}, NEW user \in BOOLEAN, GetAddon(w, wd, d, user)
      PROVE  \E q : Placed(q) /\ Receive(w, q)
  <2>1. Placed([op |-> "get", at |-> "check", wd |-> wd, dev |-> d, user |-> user,
                todo |-> Mandatory, addon |-> Mandatory[1], device |-> NullDevice, id |-> 0])
    BY DEF Placed
  <2> QED
    BY <1>6, <2>1 DEF GetAddon
<1>7. ASSUME NEW as, GetType(w, as) PROVE \E q : Placed(q) /\ Receive(w, q)
  <2>1. Placed([op |-> "types", at |-> "configs", ids |-> {addons[a] : a \in as}, none |-> FALSE])
    BY DEF Placed
  <2> QED
    BY <1>7, <2>1 DEF GetType
<1>8. ASSUME NEW a \in Addons, RemoveType(w, a) \/ \E wd \in Watchdogs : Uninstall(w, wd, a)
      PROVE  \E q : Placed(q) /\ Receive(w, q)
  <2>1. \A s, whole : Placed([op |-> "drop", at |-> "default", addon |-> a, wds |-> s, whole |-> whole,
                              default |-> 0, ids |-> {}])
    BY DEF Placed
  <2> QED
    BY <1>8, <2>1 DEF RemoveType, Uninstall
<1> QED
  BY <1>3, <1>4, <1>5, <1>6, <1>7, <1>8

LEMMA AddonReadingTypes ==
    ASSUME AddonTypes, NEW w \in Workers,
           \/ SelectType(w) \/ CopyConfig(w) \/ SelectFallback(w)
           \/ CheckMandatory(w) \/ CheckFallback(w) \/ ListAddons(w) \/ SendList(w)
           \/ \E p \in parked : Unpark(w, p)
           \/ SelectConfig(w) \/ SendTypes(w) \/ SelectDefault(w) \/ SelectIds(w)
    PROVE  AddonBounds'
<1>1. UNCHANGED <<tables, hist>>
  BY DEF SelectType, CopyConfig, SelectFallback, CheckMandatory, CheckFallback, ListAddons, SendList, Unpark,
     SelectConfig, SendTypes, SelectDefault, SelectIds
<1>2. UNCHANGED <<lastConfig, configs, Types, wds, disturbed, lost>>
  BY <1>1 DEF tables, hist, Types
<1>0. disturbed' \subseteq Workers
  BY <1>2 DEF AddonTypes, AddonBounds
<1> SUFFICES \E q : Placed(q) /\ Continue(w, q)
  BY <1>0, <1>2, Onward
<1>3. CASE SelectType(w) \/ CopyConfig(w) \/ SelectFallback(w)
  <2>1. \/ Continue(w, Idle)
        \/ \E at : Continue(w, [req[w] EXCEPT !.at = at])
        \/ \E at, id : Continue(w, [req[w] EXCEPT !.at = at, !.id = id])
    BY <1>3 DEF SelectType, CopyConfig, SelectFallback, Answer, Goto
  <2> QED
    BY <2>1, SamePlace, IdlePlaced
<1>4. CASE CheckMandatory(w) \/ CheckFallback(w)
  <2>1. req[w].op \notin {"type", "install", "modify"}
    BY <1>4 DEF CheckMandatory, CheckFallback, At
  <2>2. \/ \E at : Continue(w, [req[w] EXCEPT !.at = at])
        \/ \E todo : Continue(w, [req[w] EXCEPT !.todo = todo])
        \/ \E at, todo : Continue(w, [req[w] EXCEPT !.at = at, !.todo = todo])
        \/ \E at, a : Continue(w, [req[w] EXCEPT !.at = at, !.addon = a])
    BY <1>4 DEF CheckMandatory, CheckFallback, Goto
  <2> QED
    BY <2>1, <2>2, SamePlace
<1>5. CASE ListAddons(w) \/ SendList(w)
  <2>1. \A rows : Placed([op |-> "listed", rows |-> rows])
    BY DEF Placed
  <2> QED
    BY <1>5, <2>1, IdlePlaced DEF ListAddons, SendList, Answer
<1>6. ASSUME NEW p \in parked, Unpark(w, p) PROVE \E q : Placed(q) /\ Continue(w, q)
  <2>1. p.req.op = "get"
    BY DEF AddonTypes, AddonInv, PInv, Requests
  <2>2. Placed(p.req)
    BY <2>1 DEF Placed
  <2> QED
    BY <1>6, <2>2 DEF Unpark
<1>7. CASE SelectConfig(w) \/ SendTypes(w)
  <2>1. req[w].op = "types"
    BY <1>7 DEF SelectConfig, SendTypes, At
  <2>2. \/ Continue(w, Idle)
        \/ \E ids : Continue(w, [req[w] EXCEPT !.ids = ids])
        \/ \E none : Continue(w, [req[w] EXCEPT !.none = none])
    BY <1>7 DEF SelectConfig, SendTypes, Answer
  <2> QED
    BY <2>1, <2>2, SamePlace, IdlePlaced
<1>8. CASE SelectDefault(w) \/ SelectIds(w)
  <2>1. req[w].op = "drop"
    BY <1>8 DEF SelectDefault, SelectIds, At
  <2>2. \/ Continue(w, Idle)
        \/ \E at, d : Continue(w, [req[w] EXCEPT !.at = at, !.default = d])
        \/ \E at, ids : Continue(w, [req[w] EXCEPT !.at = at, !.ids = ids])
    BY <1>8 DEF SelectDefault, SelectIds, Answer
  <2> QED
    BY <2>1, <2>2, SamePlace, IdlePlaced
<1> QED
  BY <1>3, <1>4, <1>5, <1>6, <1>7, <1>8

LEMMA AddonDeletionTypes ==
    ASSUME AddonTypes, NEW w \in Workers,
           DeleteRelations(w) \/ DeleteType(w) \/ DeleteDefault(w) \/ DeleteConfig(w) \/ AddonCrash(w)
    PROVE  AddonBounds'
<1>1. CASE DeleteRelations(w) \/ DeleteType(w)
  <2>1. /\ lastConfig' = lastConfig /\ configs' \subseteq configs /\ wds' \subseteq wds
        /\ lost' \subseteq lost \cup configs
    BY <1>1 DEF DeleteRelations, DeleteType, hist
  <2>2. Types' \subseteq Types
    BY <1>1 DEF DeleteRelations, DeleteType, Types
  <2>3. disturbed' \subseteq Workers
    BY <1>1 DEF DeleteRelations, DeleteType, hist, AddonTypes, AddonBounds
  <2>4. Continue(w, Idle) \/ \E at : Continue(w, [req[w] EXCEPT !.at = at])
    BY <1>1 DEF DeleteRelations, DeleteType, Answer, Goto
  <2> QED
    BY <2>1, <2>2, <2>3, <2>4, SamePlace, IdlePlaced, Onward
<1>2. CASE DeleteDefault(w) \/ DeleteConfig(w)
  <2>1. /\ lastConfig' = lastConfig /\ configs' \subseteq configs /\ wds' \subseteq wds
        /\ lost' \subseteq lost \cup configs /\ Types' \subseteq Types
    BY <1>2 DEF DeleteDefault, DeleteConfig, hist, Types
  <2>2. disturbed' \subseteq Workers
    BY <1>2 DEF DeleteDefault, DeleteConfig, hist, AddonTypes, AddonBounds
  <2>3. req[w].op = "drop"
    BY <1>2 DEF DeleteDefault, DeleteConfig, At
  <2>4. \/ Continue(w, Idle)
        \/ \E at : Continue(w, [req[w] EXCEPT !.at = at])
        \/ \E ids : Continue(w, [req[w] EXCEPT !.ids = ids])
    BY <1>2 DEF DeleteDefault, DeleteConfig, Answer, Goto
  <2> QED
    BY <2>1, <2>2, <2>3, <2>4, SamePlace, IdlePlaced, Onward
<1>3. CASE AddonCrash(w)
  <2>1. lost' \subseteq lost \cup configs /\ UNCHANGED <<tables, disturbed>> /\ Continue(w, Idle)
    BY <1>3 DEF AddonCrash, Answer
  <2>2. /\ lastConfig' = lastConfig /\ configs' = configs /\ wds' = wds /\ Types' = Types
        /\ disturbed' \subseteq Workers
    BY <2>1 DEF tables, Types, AddonTypes, AddonBounds
  <2> QED
    BY <2>1, <2>2, IdlePlaced, Onward
<1> QED
  BY <1>1, <1>2, <1>3

LEMMA AddonTypeTypes ==
    ASSUME AddonTypes, NEW w \in Workers, NewConfig(w) \/ InsertType(w) \/ UpdateType(w)
    PROVE  AddonBounds'
<1>0. AddonBounds
  BY DEF AddonTypes
<1>1. CASE NewConfig(w)
  <2>1. /\ lastConfig < MaxConfig /\ lastConfig' = lastConfig + 1 /\ configs' = configs \cup {lastConfig + 1}
        /\ UNCHANGED <<addons, wds, hist>>
        /\ Continue(w, [req[w] EXCEPT !.at = "row", !.id = lastConfig + 1])
    BY <1>1 DEF NewConfig
  <2>2. \A v \in Workers : Placed(req'[v])
    BY <2>1, SamePlace, AddonGoesOn
  <2>3. lastConfig \in Nat
    BY DEF AddonTypes, AddonInv, PInv, Numbers
  <2>4. lastConfig' <= MaxConfig /\ lastConfig + 1 \in ConfigId
    BY <2>1, <2>3, AddonAssumption DEF ConfigId
  <2> QED
    BY <1>0, <2>1, <2>2, <2>4, NextAddonBounds DEF AddonBounds, hist, Types
<1>2. CASE InsertType(w)
  <2>1. req[w].op = "type" /\ req[w].addon \in Addons
    BY <1>0, <1>2 DEF InsertType, At, AddonBounds, Placed
  <2>2. /\ Continue(w, Idle) \/ \E at : Continue(w, [req[w] EXCEPT !.at = at])
        /\ UNCHANGED <<configs, wds, lastConfig, hist>>
    BY <1>2 DEF InsertType, Answer, Goto
  <2>3. \A v \in Workers : Placed(req'[v])
    BY <2>2, SamePlace, IdlePlaced, AddonGoesOn
  <2>4. Types' \subseteq Types \cup {req[w].addon}
    BY <1>2 DEF InsertType, Types
  <2> QED
    BY <1>0, <2>1, <2>2, <2>3, <2>4, NextAddonBounds DEF AddonBounds, hist
<1>3. CASE UpdateType(w)
  <2>1. Types' = Types
    BY <1>3 DEF UpdateType, Types
  <2>2. Continue(w, Idle) /\ UNCHANGED <<configs, wds, lastConfig, hist>>
    BY <1>3 DEF UpdateType, Answer
  <2>3. disturbed' \subseteq Workers /\ lost' = lost
    BY <1>0, <2>2 DEF AddonBounds, hist
  <2> QED
    BY <2>1, <2>2, <2>3, IdlePlaced, Onward
<1> QED
  BY <1>1, <1>2, <1>3

LEMMA AddonRelationTypes ==
    ASSUME AddonTypes, NEW w \in Workers, InsertRelation(w) \/ UpdateRelation(w)
    PROVE  AddonBounds'
<1>0. AddonBounds /\ PInv /\ KeyInv
  BY DEF AddonTypes, AddonInv
<1>1. req[w].op \in {"install", "get", "modify"}
  BY DEF InsertRelation, UpdateRelation
<1>2. req[w].device \in Devices \cup {NullDevice}
  BY <1>0, <1>1 DEF AddonBounds, Placed, KeyInv, Complete
<1>3. \A v \in Workers : Placed(req'[v])
  <2>1. CASE req[w].op = "get"
    <3>1. \/ Continue(w, Idle) \/ \E at : Continue(w, [req[w] EXCEPT !.at = at])
          \/ \E at, todo : Continue(w, [req[w] EXCEPT !.at = at, !.todo = todo])
      BY DEF InsertRelation, UpdateRelation, RelationDone, Answer, Goto
    <3> QED
      BY <2>1, <3>1, SamePlace, IdlePlaced, AddonGoesOn
  <2>2. CASE req[w].op # "get"
    <3>1. Continue(w, Idle) \/ \E at : Continue(w, [req[w] EXCEPT !.at = at])
      BY <2>2 DEF InsertRelation, UpdateRelation, RelationDone, Answer, Goto
    <3> QED
      BY <3>1, SamePlace, IdlePlaced, AddonGoesOn
  <2> QED
    BY <2>1, <2>2
<1>4. UNCHANGED <<configs, addons, lastConfig, hist>>
  BY DEF InsertRelation, UpdateRelation
<1>5. \A r \in wds' : r.device \in Devices \cup {NullDevice}
  <2>1. CASE InsertRelation(w)
    <3>1. \A r \in wds' : r \in wds \/ r.device = req[w].device
      BY <2>1 DEF InsertRelation
    <3> QED
      BY <1>0, <1>2, <3>1 DEF AddonBounds
  <2>2. CASE UpdateRelation(w)
    <3> SUFFICES ASSUME NEW r \in wds', r \notin wds PROVE r.device \in Devices \cup {NullDevice}
      BY <1>0 DEF AddonBounds
    <3>1. PICK o \in wds : r = [o EXCEPT !.config = req[w].id]
      BY <2>2 DEF UpdateRelation, RowAt, Rows
    <3>2. o = [wd |-> o.wd, addon |-> o.addon, device |-> o.device, config |-> o.config]
      BY <1>0 DEF PInv, RowsApart
    <3>3. r.device = o.device
      BY <3>1, <3>2
    <3> QED
      BY <1>0, <3>3 DEF AddonBounds
  <2> QED
    BY <2>1, <2>2
<1> QED
  BY <1>0, <1>3, <1>4, <1>5, NextAddonBounds DEF AddonBounds, hist, Types

LEMMA InitAddonTypes == AddonInit => AddonTypes
<1> SUFFICES ASSUME AddonInit PROVE AddonTypes
  OBVIOUS
<1>1. \A w \in Workers : req[w] = Idle
  BY DEF AddonInit, ServiceInit
<1>2. Types = {} /\ 0 <= MaxConfig
  BY AddonAssumption DEF AddonInit, Types
<1>3. AddonBounds
  BY <1>1, <1>2, IdlePlaced DEF AddonInit, AddonBounds
<1> QED
  BY <1>3, InitAddonInv DEF AddonTypes

LEMMA NextAddonTypes == AddonTypes /\ [AddonNext]_addonVars => AddonTypes'
<1> SUFFICES ASSUME AddonTypes, [AddonNext]_addonVars PROVE AddonBounds'
  BY NextAddonInv DEF AddonTypes
<1>1. CASE UNCHANGED addonVars
  BY <1>1 DEF addonVars, serviceVars, AddonTypes, AddonBounds, Types, Placed
<1>2. CASE AddonNext
  BY <1>2, AddonArrivalTypes, AddonReadingTypes, AddonDeletionTypes, AddonTypeTypes, AddonRelationTypes DEF AddonNext
<1> QED
  BY <1>1, <1>2

-----------------------------------------------------------------------------
(* The machine-learning backend.                                           *)

Noting(q) ==
    q.op = "pull" => /\ {"op", "at", "pair", "model"} \subseteq DOMAIN q
                     /\ q.pair \in Pairs /\ q.model \in models
ModelExtra ==
    /\ DOMAIN pulled \subseteq Pairs /\ \A p \in DOMAIN pulled : pulled[p] \in models
    /\ halved \subseteq Names
    /\ \A w \in Workers : Noting(req[w])
ModelTypes == MInv /\ ModelExtra

LEMMA ModelGoesOn ==
    ASSUME ModelTypes, NEW w \in Workers, NEW q, Noting(q), Continue(w, q) \/ Receive(w, q), models \subseteq models',
           DOMAIN pulled' \subseteq Pairs, \A p \in DOMAIN pulled' : pulled'[p] \in models, halved' \subseteq Names
    PROVE  ModelExtra'
<1>1. DOMAIN req = Workers /\ req' = [req EXCEPT ![w] = q] /\ \A v \in Workers : Noting(req[v])
  BY DEF ModelTypes, ModelExtra, MInv, StoreRequests, Continue, Receive
<1>2. \A v \in Workers : Noting(req'[v])
  BY <1>1
<1>3. \A v \in Workers : Noting(req[v])'
  <2> SUFFICES ASSUME NEW v \in Workers PROVE Noting(req[v])'
    OBVIOUS
  <2> QED
    BY <1>2 DEF Noting
<1> QED
  BY <1>3 DEF ModelExtra

LEMMA IdleNotesNothing == Noting(Idle)
BY DEF Noting, Idle

LEMMA ModelStoreTypes ==
    ASSUME ModelTypes, NEW w \in Workers,
           (\E d \in Things, n \in Names : StoreModel(w, d, n)) \/ InsertModel(w) \/ AssignModel(w) \/ ModelCrash(w)
    PROVE  ModelExtra'
<1>0. /\ DOMAIN pulled \subseteq Pairs /\ \A p \in DOMAIN pulled : pulled[p] \in models
      /\ halved \subseteq Names
  BY DEF ModelTypes, ModelExtra
<1>1. ASSUME NEW d \in Things, NEW n \in Names, StoreModel(w, d, n) PROVE ModelExtra'
  <2> DEFINE v == IF d \in DOMAIN devices THEN devices[d].version + 1 ELSE 1
             q == [op |-> "store", at |-> "models", dev |-> d, known |-> d \in DOMAIN devices,
                   model |-> [name |-> n, version |-> v]]
  <2>1. Receive(w, q) /\ UNCHANGED <<models, pulled, halved>>
    BY <1>1 DEF StoreModel
  <2>2. Noting(q)
    BY DEF Noting
  <2> HIDE DEF q
  <2> QED
    BY <1>0, <2>1, <2>2, ModelGoesOn
<1>2. CASE InsertModel(w)
  <2>1. req[w] \in StoreRequest
    BY <1>2 DEF InsertModel, At, ModelTypes, MInv, StoreRequests
  <2>2. Noting([req[w] EXCEPT !.at = "devices"])
    BY <2>1 DEF StoreRequest, Noting
  <2>3. /\ Continue(w, Idle) \/ Continue(w, [req[w] EXCEPT !.at = "devices"])
        /\ models \subseteq models' /\ UNCHANGED <<pulled, halved>>
    BY <1>2 DEF InsertModel, Answer, Goto
  <2> QED
    BY <1>0, <2>2, <2>3, IdleNotesNothing, ModelGoesOn
<1>3. CASE AssignModel(w)
  BY <1>0, <1>3, IdleNotesNothing, ModelGoesOn DEF AssignModel, Answer
<1>4. CASE ModelCrash(w)
  <2>1. halved' \subseteq Names
    <3>1. CASE At(w, "store", "devices")
      <4>1. req[w] \in StoreRequest
        BY <3>1 DEF At, ModelTypes, MInv, StoreRequests
      <4>2. req[w].model.name \in Names
        BY <4>1 DEF StoreRequest, Model
      <4> QED
        BY <1>0, <1>4, <4>2 DEF ModelCrash
    <3>2. CASE ~At(w, "store", "devices")
      BY <1>0, <1>4, <3>2 DEF ModelCrash
    <3> QED
      BY <3>1, <3>2
  <2> QED
    BY <1>0, <1>4, <2>1, IdleNotesNothing, ModelGoesOn DEF ModelCrash, Answer
<1> QED
  BY <1>1, <1>2, <1>3, <1>4

LEMMA ModelPullTypes ==
    ASSUME ModelTypes, NEW w \in Workers,
           \/ \E b \in Boxes, d \in Things : GetLatestModel(w, b, d) \/ \E v \in 1 .. MaxVersion : GetModel(w, b, d, v)
           \/ FindVersion(w) \/ InsertPulled(w) \/ UpdatePulled(w)
    PROVE  ModelExtra'
<1>0. /\ DOMAIN pulled \subseteq Pairs /\ \A p \in DOMAIN pulled : pulled[p] \in models
      /\ halved \subseteq Names /\ Noting(req[w])
  BY DEF ModelTypes, ModelExtra
<1>1. ASSUME NEW b \in Boxes, NEW d \in Things, GetLatestModel(w, b, d) PROVE ModelExtra'
  <2> DEFINE q == [op |-> "pull", at |-> "insert", pair |-> <<b, d>>, model |-> devices[d]]
  <2>1. devices[d] \in models
    BY <1>1 DEF GetLatestModel, ModelTypes, MInv, Tables
  <2>2. Noting(q)
    BY <2>1 DEF Noting, Pairs
  <2>3. Receive(w, q) /\ UNCHANGED <<models, pulled, halved>>
    BY <1>1 DEF GetLatestModel
  <2> HIDE DEF q
  <2> QED
    BY <1>0, <2>2, <2>3, ModelGoesOn
<1>2. ASSUME NEW b \in Boxes, NEW d \in Things, NEW v \in 1 .. MaxVersion, GetModel(w, b, d, v) PROVE ModelExtra'
  <2> DEFINE q == [op |-> "pull", at |-> "models", pair |-> <<b, d>>, model |-> devices[d], version |-> v]
  <2>1. devices[d] \in models
    BY <1>2 DEF GetModel, ModelTypes, MInv, Tables
  <2>2. Noting(q)
    BY <2>1 DEF Noting, Pairs
  <2>3. Receive(w, q) /\ UNCHANGED <<models, pulled, halved>>
    BY <1>2 DEF GetModel
  <2> HIDE DEF q
  <2> QED
    BY <1>0, <2>2, <2>3, ModelGoesOn
<1>3. CASE FindVersion(w) \/ InsertPulled(w) \/ UpdatePulled(w)
  <2>1. /\ {"op", "at", "pair", "model"} \subseteq DOMAIN req[w]
        /\ req[w].op = "pull" /\ req[w].pair \in Pairs /\ req[w].model \in models
    BY <1>0, <1>3 DEF FindVersion, InsertPulled, UpdatePulled, At, Noting
  <2>2. \A at : Noting([req[w] EXCEPT !.at = at])
    BY <2>1 DEF Noting
  <2>3. Continue(w, Idle) \/ \E at : Continue(w, [req[w] EXCEPT !.at = at])
    BY <1>3 DEF FindVersion, InsertPulled, UpdatePulled, Answer, Goto
  <2>4. UNCHANGED <<models, halved>>
    BY <1>3 DEF FindVersion, InsertPulled, UpdatePulled
  <2>5. DOMAIN pulled' \subseteq Pairs /\ \A p \in DOMAIN pulled' : pulled'[p] \in models
    BY <1>0, <1>3, <2>1 DEF FindVersion, InsertPulled, UpdatePulled, Put
  <2>6. PICK q : Noting(q) /\ Continue(w, q)
    BY <2>2, <2>3, IdleNotesNothing
  <2> QED
    BY <1>0, <2>4, <2>5, <2>6, ModelGoesOn
<1> QED
  BY <1>1, <1>2, <1>3

LEMMA InitModelTypes == ModelInit => ModelTypes
<1> SUFFICES ASSUME ModelInit PROVE ModelTypes
  OBVIOUS
<1>1. \A w \in Workers : req[w] = Idle
  BY DEF ModelInit, ServiceInit
<1> QED
  BY <1>1, InitMInv, IdleNotesNothing DEF ModelTypes, ModelExtra, ModelInit

LEMMA NextModelTypes == ModelTypes /\ [ModelNext]_modelVars => ModelTypes'
<1> SUFFICES ASSUME ModelTypes, [ModelNext]_modelVars PROVE ModelExtra'
  BY NextMInv DEF ModelTypes
<1>1. CASE UNCHANGED <<req, models, pulled, halved>>
  BY <1>1 DEF ModelTypes, ModelExtra, Noting
<1>2. CASE UNCHANGED modelVars
  BY <1>1, <1>2 DEF modelVars, serviceVars
<1>3. ASSUME NEW w \in Workers,
             (\E d \in Things, m \in models : SelectAffected(w, d, m)) \/ (\E b \in Boxes : TellNext(w, b)) \/ AllTold(w)
      PROVE  ModelExtra'
  BY <1>1, <1>3 DEF SelectAffected, TellNext, AllTold, serviceVars
<1> QED
  BY <1>2, <1>3, ModelStoreTypes, ModelPullTypes DEF ModelNext

LEMMA TypesFromModelTypes == ModelTypes => ModelTypeOK
BY DEF ModelTypes, ModelExtra, MInv, Tables, ModelTypeOK

-----------------------------------------------------------------------------
(* The device control backend.                                             *)

Rowed(q) == q.op = "setting" => q.row \in Gadgets \X Settings
ControlRows ==
    /\ gadgets \in [Registered -> Statuses]
    /\ settings \subseteq Gadgets \X Settings /\ homeless \subseteq settings
    /\ welcomed \subseteq Registered /\ confused \subseteq Gadgets
    /\ notices \subseteq Workers \X Registered /\ owner \in BOOLEAN
ControlTypes == CInv /\ ControlRows /\ \A w \in Workers : Rowed(req[w])

LEMMA IdleIsRowed == Rowed(Idle)
BY DEF Rowed, Idle

LEMMA ControlGoesOn ==
    ASSUME ControlTypes, NEW w \in Workers, NEW q, Rowed(q), Continue(w, q) \/ Receive(w, q)
    PROVE  \A v \in Workers : Rowed(req'[v])
BY DEF ControlTypes, CInv, Continue, Receive

\* Nothing but a request changes.
LEMMA ControlAsks ==
    ASSUME ControlTypes, NEW w \in Workers, NEW q, Rowed(q), Continue(w, q) \/ Receive(w, q),
           UNCHANGED <<gadgets, settings, welcomed, homeless, confused, notices>>, owner' \in BOOLEAN
    PROVE  ControlRows' /\ \A v \in Workers : Rowed(req'[v])
<1>1. ControlRows'
  BY DEF ControlTypes, ControlRows, Registered
<1> QED
  BY <1>1, ControlGoesOn

LEMMA ControlRequestTypes ==
    ASSUME ControlTypes, NEW w \in Workers,
           \/ \E g \in Gadgets : RegisterGadget(w, g) \/ \E k \in Settings, user \in BOOLEAN : UpdateSetting(w, g, k, user)
           \/ ConnectUser(w) \/ InsertUser(w) \/ SelectPolicy(w) \/ SelectEmail(w)
           \/ GadgetKnown(w) \/ RequestDevices(w)
    PROVE  ControlRows' /\ \A v \in Workers : Rowed(req'[v])
<1>1. /\ UNCHANGED <<gadgets, settings, welcomed, homeless, confused, notices>>
      /\ owner' \in BOOLEAN
  BY DEF RegisterGadget, UpdateSetting, ConnectUser, InsertUser, SelectPolicy, SelectEmail, GadgetKnown,
         RequestDevices, mailVars, ControlTypes, ControlRows
<1>2. ASSUME NEW q, Rowed(q), Continue(w, q) \/ Receive(w, q)
      PROVE  ControlRows' /\ \A v \in Workers : Rowed(req'[v])
  BY <1>1, <1>2, ControlAsks
<1>3. ASSUME NEW g \in Gadgets, RegisterGadget(w, g) PROVE \E q : Rowed(q) /\ Receive(w, q)
  <2> DEFINE q == [op |-> "gadget", at |-> IF g \in Registered THEN "known" ELSE "insert", dev |-> g]
  <2>1. Rowed(q)
    BY DEF Rowed
  <2> QED
    BY <1>3, <2>1 DEF RegisterGadget
<1>4. ASSUME NEW g \in Gadgets, NEW k \in Settings, NEW user \in BOOLEAN, UpdateSetting(w, g, k, user)
      PROVE  \E q : Rowed(q) /\ Receive(w, q)
  <2> DEFINE q == [op |-> "setting", at |-> IF <<g, k>> \in settings THEN "update" ELSE "insert",
                   row |-> <<g, k>>, user |-> user]
  <2>1. Rowed(q)
    BY DEF Rowed
  <2> QED
    BY <1>4, <2>1 DEF UpdateSetting
<1>5. CASE ConnectUser(w)
  <2>1. Rowed([op |-> "user", at |-> "insert"])
    BY DEF Rowed
  <2> QED
    BY <1>2, <1>5, <2>1 DEF ConnectUser
<1>6. CASE RequestDevices(w)
  <2>1. Rowed([op |-> "info", at |-> "options", read |-> Registered])
    BY DEF Rowed
  <2> QED
    BY <1>2, <1>6, <2>1 DEF RequestDevices
<1>7. CASE SelectPolicy(w)
  <2> DEFINE q == [op |-> "mail", at |-> "email", dev |-> req[w].dev, policy |-> <<req[w].dev, MailPolicy>> \in settings]
  <2>1. Rowed(q)
    BY DEF Rowed
  <2>2. Continue(w, q)
    BY <1>7 DEF SelectPolicy
  <2> HIDE DEF q
  <2> QED
    BY <1>2, <2>1, <2>2
<1>8. CASE InsertUser(w) \/ SelectEmail(w) \/ GadgetKnown(w)
  <2>1. Continue(w, Idle)
    BY <1>8 DEF InsertUser, SelectEmail, GadgetKnown, Answer
  <2> QED
    BY <1>2, <2>1, IdleIsRowed
<1> QED
  BY <1>2, <1>3, <1>4, <1>5, <1>6, <1>7, <1>8

LEMMA ControlNoticeTypes ==
    ASSUME ControlTypes, NEW w \in Workers,
           \/ \E g \in Gadgets :
                \/ UpdateGadgetType(w, g) \/ (\E s \in Statuses, user \in BOOLEAN : UpdateStatus(w, g, s, user))
                \/ Heard(w, g) \/ Unheard(w, g)
           \/ ControlCrash(w)
    PROVE  ControlRows' /\ \A v \in Workers : Rowed(req'[v])
<1>0. ControlRows /\ \A v \in Workers : Rowed(req[v])
  BY DEF ControlTypes
<1>1. UNCHANGED <<settings, welcomed, homeless, confused, owner>>
  BY DEF UpdateGadgetType, UpdateStatus, Heard, Unheard, ControlCrash, Notify, mailVars
<1>2. \A v \in Workers : Rowed(req'[v])
  <2>1. CASE UNCHANGED req
    BY <1>0, <2>1
  <2>2. CASE Continue(w, Idle)
    BY <2>2, IdleIsRowed, ControlGoesOn
  <2>3. ASSUME NEW g \in Gadgets, Unheard(w, g) PROVE \A v \in Workers : Rowed(req'[v])
    <3> DEFINE q == [op |-> "mail", at |-> "policy", dev |-> g]
    <3>1. Rowed(q) /\ Continue(w, q)
      BY <2>3 DEF Rowed, Unheard
    <3> HIDE DEF q
    <3> QED
      BY <3>1, ControlGoesOn
  <2> QED
    BY <2>1, <2>2, <2>3 DEF UpdateGadgetType, UpdateStatus, Heard, ControlCrash, Answer, serviceVars
<1>3. Registered' = Registered /\ gadgets' \in [Registered -> Statuses]
  <2>1. UNCHANGED gadgets \/ \E g \in Registered, s \in Statuses : gadgets' = [gadgets EXCEPT ![g] = s]
    BY DEF UpdateGadgetType, UpdateStatus, Heard, Unheard, ControlCrash
  <2> QED
    BY <1>0, <2>1 DEF ControlRows, Registered
<1>4. notices' \subseteq Workers \X Registered
  <2>1. notices' \subseteq notices \/ \E g \in Registered : notices' = notices \cup {<<w, g>>}
    BY DEF UpdateGadgetType, UpdateStatus, Heard, Unheard, ControlCrash, Notify, mailVars
  <2> QED
    BY <1>0, <2>1 DEF ControlRows
<1>5. ControlRows'
  BY <1>0, <1>1, <1>3, <1>4 DEF ControlRows
<1> QED
  BY <1>2, <1>5

LEMMA ControlWriteTypes ==
    ASSUME ControlTypes, NEW w \in Workers, InsertGadget(w) \/ WriteSetting(w) \/ RequestOptions(w)
    PROVE  ControlRows' /\ \A v \in Workers : Rowed(req'[v])
<1>0. ControlRows /\ Rowed(req[w]) /\ Grounded(req[w])
  BY DEF ControlTypes, CInv
<1>1. \A v \in Workers : Rowed(req'[v])
  BY IdleIsRowed, ControlGoesOn DEF InsertGadget, WriteSetting, RequestOptions, Answer
<1>2. CASE InsertGadget(w)
  <2> DEFINE g == req[w].dev
  <2>1. CASE g \in Registered
    <3>1. UNCHANGED <<gadgets, settings, welcomed, homeless, confused, notices, owner>>
      BY <1>2, <2>1 DEF InsertGadget, mailVars
    <3> QED
      BY <1>0, <1>1, <3>1 DEF ControlRows, Registered
  <2>2. CASE g \notin Registered
    <3>1. /\ gadgets' = WithGadget(g) /\ welcomed' = welcomed \cup {g} /\ notices' = notices \cup {<<w, g>>}
          /\ UNCHANGED <<settings, homeless, confused, owner>>
      BY <1>2, <2>2 DEF InsertGadget, Notify
    <3>2. Registered' = Registered \cup {g} /\ gadgets' \in [Registered \cup {g} -> Statuses]
      BY <1>0, <3>1, ControlAssumption DEF WithGadget, ControlRows, Registered
    <3>3. ControlRows'
      BY <1>0, <3>1, <3>2 DEF ControlRows
    <3> QED
      BY <1>1, <3>3
  <2> QED
    BY <2>1, <2>2
<1>3. CASE WriteSetting(w)
  <2>1. req[w].row \in Gadgets \X Settings
    BY <1>0, <1>3 DEF WriteSetting, At, Rowed
  <2>2. /\ settings' = settings \cup {req[w].row} /\ homeless' \subseteq homeless \cup {req[w].row}
        /\ UNCHANGED <<gadgets, welcomed, confused, notices, owner>>
    BY <1>3 DEF WriteSetting, mailVars
  <2>3. ControlRows'
    BY <1>0, <2>1, <2>2 DEF ControlRows, Registered
  <2> QED
    BY <1>1, <2>3
<1>4. CASE RequestOptions(w)
  <2>1. Lacking(w) \subseteq Gadgets
    BY <1>0 DEF Lacking, ControlRows
  <2>2. confused' = confused \cup Lacking(w) /\ UNCHANGED <<gadgets, settings, welcomed, homeless, notices, owner>>
    BY <1>4 DEF RequestOptions, mailVars
  <2>3. ControlRows'
    BY <1>0, <2>1, <2>2 DEF ControlRows, Registered
  <2> QED
    BY <1>1, <2>3
<1> QED
  BY <1>2, <1>3, <1>4

LEMMA InitControlTypes == ControlInit => ControlTypes
<1> SUFFICES ASSUME ControlInit PROVE ControlTypes
  OBVIOUS
<1>1. \A w \in Workers : Rowed(req[w])
  BY IdleIsRowed DEF ControlInit, ServiceInit
<1>2. ControlRows
  BY DEF ControlInit, ControlRows, Registered
<1> QED
  BY <1>1, <1>2, InitCInv DEF ControlTypes

LEMMA NextControlTypes == ControlTypes /\ [ControlNext]_controlVars => ControlTypes'
<1> SUFFICES ASSUME ControlTypes, [ControlNext]_controlVars PROVE ControlTypes'
  OBVIOUS
<1>1. CInv'
  BY NextCInv DEF ControlTypes
<1>2. ControlRows' /\ \A v \in Workers : Rowed(req'[v])
  <2>1. CASE UNCHANGED controlVars
    BY <2>1 DEF controlVars, serviceVars, mailVars, ControlTypes, ControlRows, Registered
  <2>2. CASE ControlNext
    BY <2>2, ControlRequestTypes, ControlNoticeTypes, ControlWriteTypes DEF ControlNext
  <2> QED
    BY <2>1, <2>2
<1>3. \A v \in Workers : Rowed(req[v])'
  <2> SUFFICES ASSUME NEW v \in Workers PROVE Rowed(req[v])'
    OBVIOUS
  <2> QED
    BY <1>2 DEF Rowed
<1> QED
  BY <1>1, <1>2, <1>3 DEF ControlTypes

LEMMA TypesFromControlTypes == ControlTypes => ControlTypeOK
BY DEF ControlTypes, ControlRows, CInv, NewAsDecided, ControlSound, MailsWanted, ControlTypeOK

-----------------------------------------------------------------------------
(* The monitoring backend.                                                 *)

\* What a request inserts fits the columns.
Fits(q) ==
    /\ q.op = "submit" => q.home \in Homes /\ q.sensor \in Sensors
    /\ q.op = "config" => q.home \in Homes
    /\ q.op = "upload" => /\ DOMAIN q = {"op", "at", "list", "next", "length", "bad"}
                          /\ q.list \in Nat \ {0} /\ q.next \in Nat \ {0} /\ q.length \in 1 .. Entries
                          /\ q.next <= q.length

MonitoringRows ==
    /\ hour \in 0 .. MaxHour /\ uploads \in Nat
    /\ \A s \in statistics : s.home \in Homes /\ s.sensor \in Sensors
    /\ logs \subseteq (1 .. uploads) \X (1 .. Entries)
    /\ remotes \subseteq Homes

\* A list that is being stored has been counted.
MonitoringRequests == \A w \in Workers : Fits(req[w]) /\ (req[w].op = "upload" => req[w].list <= uploads)
MonitoringTypes == NInv /\ MonitoringRows /\ MonitoringRequests

LEMMA IdleFits == Fits(Idle) /\ Idle.op = "idle"
BY DEF Fits, Idle

LEMMA MonitoringGoesOn ==
    ASSUME MonitoringTypes, NEW w \in Workers, NEW q, Fits(q), q.op = "upload" => q.list <= uploads',
           Continue(w, q) \/ Receive(w, q), uploads' \in Nat, uploads <= uploads'
    PROVE  \A v \in Workers : Fits(req'[v]) /\ (req'[v].op = "upload" => req'[v].list <= uploads')
<1>1. req' = [req EXCEPT ![w] = q] /\ DOMAIN req = Workers /\ uploads \in Nat
  BY DEF MonitoringTypes, MonitoringRows, NInv, Continue, Receive
<1> SUFFICES ASSUME NEW v \in Workers
             PROVE  Fits(req'[v]) /\ (req'[v].op = "upload" => req'[v].list <= uploads')
  OBVIOUS
<1>2. CASE v = w
  BY <1>1, <1>2
<1>3. CASE v # w
  <2>1. req'[v] = req[v]
    BY <1>1, <1>3
  <2>2. Fits(req[v]) /\ (req[v].op = "upload" => req[v].list <= uploads)
    BY DEF MonitoringTypes, MonitoringRequests
  <2>3. req[v].op = "upload" => req[v].list \in Nat
    BY <2>2 DEF Fits
  <2>4. req[v].op = "upload" => req[v].list <= uploads'
    BY <1>1, <2>2, <2>3
  <2> QED
    BY <2>1, <2>2, <2>4
<1> QED
  BY <1>2, <1>3

MonitoringKept ==
    MonitoringRows' /\ \A v \in Workers : Fits(req'[v]) /\ (req'[v].op = "upload" => req'[v].list <= uploads')

LEMMA MonitoringArrivalTypes ==
    ASSUME MonitoringTypes, NEW w \in Workers,
           \/ \E h \in Homes : InsertConfig(w, h) \/ \E s \in Sensors : SubmitStatistics(w, h, s)
           \/ UploadLogs(w) \/ MonitoringCrash(w)
    PROVE  MonitoringKept
<1>0. MonitoringRows
  BY DEF MonitoringTypes
<1>1. UNCHANGED <<hour, statistics, logs, remotes>> /\ (uploads' = uploads \/ uploads' = uploads + 1)
  BY DEF InsertConfig, SubmitStatistics, UploadLogs, MonitoringCrash
<1>2. uploads' \in Nat /\ uploads <= uploads'
  BY <1>0, <1>1 DEF MonitoringRows
<1>3. MonitoringRows'
  <2>1. 1 .. uploads \subseteq 1 .. uploads'
    BY <1>0, <1>2 DEF MonitoringRows
  <2>2. logs' \subseteq (1 .. uploads') \X (1 .. Entries)
    BY <1>0, <1>1, <2>1 DEF MonitoringRows
  <2> QED
    BY <1>0, <1>1, <1>2, <2>2 DEF MonitoringRows
<1>4. ASSUME NEW q, Fits(q), q.op = "upload" => q.list <= uploads', Continue(w, q) \/ Receive(w, q)
      PROVE  MonitoringKept
  BY <1>2, <1>3, <1>4, MonitoringGoesOn DEF MonitoringKept
<1>5. ASSUME NEW h \in Homes, InsertConfig(w, h) PROVE MonitoringKept
  <2> DEFINE q == [op |-> "config", at |-> "insert", home |-> h]
  <2>1. Fits(q) /\ q.op # "upload"
    BY DEF Fits
  <2>2. Receive(w, q)
    BY <1>5 DEF InsertConfig
  <2> HIDE DEF q
  <2> QED
    BY <1>4, <2>1, <2>2
<1>6. ASSUME NEW h \in Homes, NEW s \in Sensors, SubmitStatistics(w, h, s) PROVE MonitoringKept
  <2> DEFINE q == [op |-> "submit", at |-> "insert", home |-> h, sensor |-> s]
  <2>1. Fits(q) /\ q.op # "upload"
    BY DEF Fits
  <2>2. Receive(w, q)
    BY <1>6 DEF SubmitStatistics
  <2> HIDE DEF q
  <2> QED
    BY <1>4, <2>1, <2>2
<1>7. CASE UploadLogs(w)
  <2>1. PICK n \in 1 .. Entries, bad \in 1 .. Entries + 1 :
           Receive(w, [op |-> "upload", at |-> "insert", list |-> uploads + 1, next |-> 1, length |-> n, bad |-> bad])
    BY <1>7 DEF UploadLogs
  <2> DEFINE q == [op |-> "upload", at |-> "insert", list |-> uploads + 1, next |-> 1, length |-> n, bad |-> bad]
  <2>2. uploads + 1 \in Nat \ {0} /\ 1 <= n /\ uploads' = uploads + 1
    BY <1>0, <1>7 DEF MonitoringRows, UploadLogs
  <2>3. Fits(q) /\ q.list <= uploads'
    BY <2>2, <1>0 DEF Fits, MonitoringRows
  <2> HIDE DEF q
  <2> QED
    BY <1>4, <2>1, <2>3 DEF q
<1>8. CASE MonitoringCrash(w)
  BY <1>4, <1>8, IdleFits DEF MonitoringCrash, Answer
<1> QED
  BY <1>5, <1>6, <1>7, <1>8

LEMMA MonitoringWriteTypes ==
    ASSUME MonitoringTypes, NEW w \in Workers, InsertStatistics(w) \/ InsertLog(w) \/ WriteConfig(w)
    PROVE  MonitoringKept
<1>0. MonitoringRows /\ Fits(req[w]) /\ (req[w].op = "upload" => req[w].list <= uploads)
  BY DEF MonitoringTypes, MonitoringRequests
<1>1. UNCHANGED <<hour, uploads>> /\ uploads \in Nat /\ uploads <= uploads'
  BY <1>0 DEF InsertStatistics, InsertLog, WriteConfig, MonitoringRows
<1>2. ASSUME NEW q, Fits(q), q.op = "upload" => q.list <= uploads, Continue(w, q), MonitoringRows'
      PROVE  MonitoringKept
  BY <1>1, <1>2, MonitoringGoesOn DEF MonitoringKept
<1>3. CASE InsertStatistics(w)
  <2>1. req[w].home \in Homes /\ req[w].sensor \in Sensors
    BY <1>0, <1>3 DEF InsertStatistics, At, Fits
  <2>2. \A s \in statistics' : s.home \in Homes /\ s.sensor \in Sensors
    BY <1>0, <1>3, <2>1 DEF InsertStatistics, MonitoringRows
  <2>3. MonitoringRows'
    BY <1>0, <1>1, <1>3, <2>2 DEF InsertStatistics, MonitoringRows
  <2> QED
    BY <1>2, <1>3, <2>3, IdleFits DEF InsertStatistics, Answer
<1>4. CASE InsertLog(w)
  <2> DEFINE r == req[w]
  <2>1. r.op = "upload"
    BY <1>4 DEF InsertLog, At
  <2>2. /\ DOMAIN r = {"op", "at", "list", "next", "length", "bad"}
        /\ r.list \in 1 .. uploads /\ r.next \in 1 .. Entries /\ r.next <= r.length
        /\ r.next \in Nat \ {0} /\ r.length \in 1 .. Entries /\ r.list \in Nat \ {0}
    BY <1>0, <1>1, <2>1, MonitoringAssumption DEF Fits
  <2>3. logs' \subseteq logs \cup {<<r.list, r.next>>} /\ UNCHANGED <<hour, statistics, remotes, uploads>>
    BY <1>4 DEF InsertLog
  <2>4. MonitoringRows'
    BY <1>0, <2>2, <2>3 DEF MonitoringRows
  <2>5. CASE Continue(w, Idle)
    BY <1>2, <2>4, <2>5, IdleFits
  <2>6. CASE ~Continue(w, Idle)
    <3> DEFINE q == [r EXCEPT !.next = @ + 1]
    <3>1. Continue(w, q) /\ r.next # r.length
      BY <1>4, <2>6 DEF InsertLog, Answer
    <3>2. r.next + 1 \in Nat \ {0} /\ r.next + 1 <= r.length
      BY <2>2, <3>1
    <3>3. /\ DOMAIN q = DOMAIN r /\ q.op = "upload" /\ q.list = r.list /\ q.length = r.length /\ q.next = r.next + 1
      BY <2>1, <2>2
    <3> HIDE DEF q
    <3>4. Fits(q)
      BY <2>2, <3>2, <3>3 DEF Fits
    <3> QED
      BY <1>0, <1>2, <2>1, <2>4, <3>1, <3>3, <3>4
  <2> QED
    BY <2>5, <2>6
<1>5. CASE WriteConfig(w)
  <2>1. req[w].op = "config" /\ req[w].home \in Homes
    BY <1>0, <1>5 DEF WriteConfig, At, Fits
  <2>2. remotes' \subseteq remotes \cup {req[w].home} /\ UNCHANGED <<hour, statistics, logs, uploads>>
    BY <1>5 DEF WriteConfig
  <2>3. MonitoringRows'
    BY <1>0, <2>1, <2>2 DEF MonitoringRows
  <2>4. CASE Continue(w, Idle)
    BY <1>2, <2>3, <2>4, IdleFits
  <2>5. CASE ~Continue(w, Idle)
    <3> DEFINE q == [req[w] EXCEPT !.at = "update"]
    <3>1. Continue(w, q)
      BY <1>5, <2>5 DEF WriteConfig, Answer, Goto
    <3>2. Fits(q) /\ q.op # "upload"
      BY <2>1 DEF Fits
    <3> HIDE DEF q
    <3> QED
      BY <1>2, <2>3, <3>1, <3>2
  <2> QED
    BY <2>4, <2>5
<1> QED
  BY <1>3, <1>4, <1>5

LEMMA InitMonitoringTypes == MonitoringInit => MonitoringTypes
<1> SUFFICES ASSUME MonitoringInit PROVE MonitoringTypes
  OBVIOUS
<1>1. MonitoringRequests
  BY IdleFits DEF MonitoringRequests, MonitoringInit, ServiceInit
<1>2. MonitoringRows
  BY MonitoringAssumption DEF MonitoringInit, MonitoringRows
<1>3. NInv
  BY InitNInv DEF MonitoringInit
<1> QED
  BY <1>1, <1>2, <1>3 DEF MonitoringTypes

LEMMA NextMonitoringTypes == MonitoringTypes /\ [MonitoringNext]_monitorVars => MonitoringTypes'
<1> SUFFICES ASSUME MonitoringTypes, [MonitoringNext]_monitorVars PROVE MonitoringTypes'
  OBVIOUS
<1>1. NInv'
  BY NextNInv DEF MonitoringTypes
<1>2. MonitoringKept
  <2>1. CASE UNCHANGED monitorVars
    BY <2>1 DEF monitorVars, serviceVars, MonitoringTypes, MonitoringRows, MonitoringRequests, MonitoringKept
  <2>2. CASE HourPasses
    <3>1. hour' \in 0 .. MaxHour /\ UNCHANGED <<req, statistics, logs, remotes, uploads>>
      BY <2>2, MonitoringAssumption DEF HourPasses, serviceVars, MonitoringTypes, MonitoringRows
    <3> QED
      BY <3>1 DEF MonitoringTypes, MonitoringRows, MonitoringRequests, MonitoringKept
  <2> QED
    BY <2>1, <2>2, MonitoringArrivalTypes, MonitoringWriteTypes DEF MonitoringNext
<1>3. MonitoringRequests'
  <2> SUFFICES ASSUME NEW v \in Workers PROVE Fits(req[v])' /\ (req[v].op = "upload" => req[v].list <= uploads)'
    BY DEF MonitoringRequests
  <2> QED
    BY <1>2 DEF Fits, MonitoringKept
<1> QED
  BY <1>1, <1>2, <1>3 DEF MonitoringTypes, MonitoringKept

LEMMA TypesFromMonitoringTypes == MonitoringTypes => MonitoringTypeOK
BY DEF MonitoringTypes, MonitoringRows, NInv, Measured, MonitoringTypeOK


-----------------------------------------------------------------------------
(* The backends side by side: the types of the one that the behaviour is   *)
(* about.                                                                  *)

CloudTypesInv ==
    /\ service \in {"auth", "addon", "ml", "control", "monitoring"}
    /\ service = "auth"       => AuthTypes
    /\ service = "addon"      => AddonTypes
    /\ service = "ml"         => ModelTypes
    /\ service = "control"    => ControlTypes
    /\ service = "monitoring" => MonitoringTypes

LEMMA InitCloudTypes == CloudInit => CloudTypesInv
BY InitAuthTypes, InitAddonTypes, InitModelTypes, InitControlTypes, InitMonitoringTypes DEF CloudInit, CloudTypesInv

LEMMA NextCloudTypes == CloudTypesInv /\ [CloudNext]_cloudVars => CloudTypesInv'
<1> SUFFICES ASSUME CloudTypesInv, [CloudNext]_cloudVars PROVE CloudTypesInv'
  OBVIOUS
<1>1. service' = service
  BY DEF CloudNext, cloudVars
<1>2. CASE CloudNext
  <2>1. /\ service = "auth"       => AuthNext
        /\ service = "addon"      => AddonNext
        /\ service = "ml"         => ModelNext
        /\ service = "control"    => ControlNext
        /\ service = "monitoring" => MonitoringNext
    BY <1>2 DEF CloudNext
  <2> QED
    BY <1>1, <2>1, NextAuthTypes, NextAddonTypes, NextModelTypes, NextControlTypes, NextMonitoringTypes
       DEF CloudTypesInv
<1>3. CASE UNCHANGED cloudVars
  <2>1. UNCHANGED <<serviceVars, authOnly, addonOnly, modelOnly, controlOnly, monitorOnly>>
    BY <1>3 DEF cloudVars
  <2>2. UNCHANGED authVars
    BY <2>1 DEF authVars, authOnly
  <2>3. UNCHANGED addonVars
    BY <2>1 DEF addonVars, addonOnly, tables, hist
  <2>4. UNCHANGED modelVars
    BY <2>1 DEF modelVars, modelOnly
  <2>5. UNCHANGED controlVars
    BY <2>1 DEF controlVars, controlOnly
  <2>6. UNCHANGED monitorVars
    BY <2>1 DEF monitorVars, monitorOnly
  <2> QED
    BY <1>1, <2>2, <2>3, <2>4, <2>5, <2>6, NextAuthTypes, NextAddonTypes, NextModelTypes, NextControlTypes,
       NextMonitoringTypes DEF CloudTypesInv
<1> QED
  BY <1>2, <1>3

LEMMA TypesFromCloudTypes == ASSUME CloudTypesInv PROVE CloudTypeOK
<1>1. CASE service = "auth"
  BY <1>1 DEF CloudTypesInv, CloudTypeOK, AuthTypes
<1>2. CASE service = "addon"
  BY <1>2, TypesFromAddonTypes DEF CloudTypesInv, CloudTypeOK
<1>3. CASE service = "ml"
  BY <1>3, TypesFromModelTypes DEF CloudTypesInv, CloudTypeOK
<1>4. CASE service = "control"
  BY <1>4, TypesFromControlTypes DEF CloudTypesInv, CloudTypeOK
<1>5. CASE service = "monitoring"
  BY <1>5, TypesFromMonitoringTypes DEF CloudTypesInv, CloudTypeOK
<1> QED
  BY <1>1, <1>2, <1>3, <1>4, <1>5 DEF CloudTypesInv

\* Whichever backend the behaviour is about, its tables hold what their columns
\* say, keys refer to rows that exist and a request never knows more than its
\* statements gave it: for any number of processes, users, watchdogs and devices.
THEOREM CloudTypes == CloudSpec => []CloudTypeOK
<1> QED
  BY InitCloudTypes, NextCloudTypes, TypesFromCloudTypes, PTL DEF CloudSpec

=============================================================================
