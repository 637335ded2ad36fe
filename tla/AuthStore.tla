----------------------------- MODULE AuthStore -----------------------------
(***************************************************************************)
(* The auth backend, src/auth_backend/src/app.py: users register with the  *)
(* code of a watchdog and verify their address, log in, renew their token, *)
(* reset their password and unregister; watchdogs prove their code with a  *)
(* secret.                                                                 *)
(*                                                                         *)
(* The service runs as 1 to n processes on one database (README, "1-n      *)
(* instances") and every connection is in autocommit mode, so a request is *)
(* a sequence of statements, each its own transaction: the statements of   *)
(* two processes interleave, and a process may die between any two.  A     *)
(* handler of one process runs to its end once it has read its request     *)
(* (nothing it does afterwards yields to the event loop), with the single  *)
(* exception of resetPassword, which reads the request body after it has   *)
(* looked up the link.                                                     *)
(*                                                                         *)
(* The ages of a row of `pending` that matter are below and above ten      *)
(* minutes; passwords are the link that set them (0 for the one given at   *)
(* registration).                                                          *)
(***************************************************************************)
EXTENDS Service

CONSTANTS
    Emails,     \* the addresses people register with
    Codes,      \* the codes of watchdogs
    Secrets,    \* what a watchdog sends to prove that it is that watchdog
    Unset,      \* SQL's NULL: the secret of a code, the code of a password reset
    MaxTokens,  \* bound: tokens in the hands of clients
    MaxUid,     \* bound: accounts ever created
    MaxLink     \* bound: links ever mailed

ASSUME AuthAssumption ==
    /\ MaxTokens \in Nat /\ MaxUid \in Nat /\ MaxLink \in Nat
    /\ Unset \notin Codes /\ Unset \notin Secrets
    /\ Emails \cap Codes = {}

VARIABLES
    users,      \* table users
    wdcodes,    \* table wdcodes: a partial function on Codes
    pending,    \* table pending
    lastUid,    \* the last uid drawn: a fresh one is never an old one
    lastLink,   \* the last link token drawn
    issued,     \* the signed tokens clients hold that have not expired
    cache,      \* per process, what generateToken's lru_cache holds
    bodies,     \* password resets whose body has not arrived
    cut,        \* uids whose verification or deletion a crash cut in two
    early,      \* uids that got a token before their code was theirs
    claims,     \* claims[u]: the code account u was verified for
    robbed      \* uids whose code a token of somebody else released

authDb   == <<users, wdcodes, pending, lastUid, lastLink>>
authHist == <<cut, early, claims, robbed>>
authVars == <<serviceVars, authDb, issued, cache, bodies, authHist>>

Unclaimed == 0      \* uid -1 in the table
Uids      == 1 .. MaxUid
Links     == 1 .. MaxLink

User    == [uid : Uids, email : Emails, pw : Links \cup {0}]
CodeRow == [uid : Uids \cup {Unclaimed}, secret : Secrets \cup {Unset}]
Pending == [link : Links, type : {"email", "reset"}, email : Emails,
            code : Codes \cup {Unset}, fresh : BOOLEAN]
Token   == [code : Emails \cup Codes, id : Uids, perm : {"user", "none"},
            belongs : SUBSET Codes]

\* What a process remembers of its request between two statements.
AuthRequest ==
    {Idle}
    \cup [op : {"register"}, at : {"code", "pending", "insert"}, email : Emails, code : Codes]
    \cup [op : {"verify"}, at : {"delete", "insert"}, row : Pending]
    \cup [op : {"verify"}, at : {"claim"}, row : Pending, uid : Uids]
    \cup [op : {"forgot"}, at : {"pending", "insert"}, email : Emails]
    \cup [op : {"reset"}, at : {"update"}, email : Emails, link : Links]
    \cup [op : {"secret"}, code : Codes, uid : Uids, secret : Secrets]
    \cup [op : {"token"}, code : Emails \cup Codes, id : Uids, perm : {"user", "none"}]
    \cup [op : {"unregister"}, at : {"pending", "users"}, token : Token]
    \cup [op : {"unregister"}, at : {"codes"}, token : Token, left : SUBSET Codes]

AuthTypeOK ==
    /\ alive \subseteq Workers /\ handled \in 0 .. MaxOverlap
    /\ users \subseteq User
    /\ DOMAIN wdcodes \subseteq Codes
    /\ \A c \in DOMAIN wdcodes : wdcodes[c] \in CodeRow
    /\ pending \subseteq Pending
    /\ lastUid \in 0 .. MaxUid /\ lastLink \in 0 .. MaxLink
    /\ issued \subseteq Token
    /\ cache \in [Workers -> SUBSET Token]
    /\ req \in [Workers -> AuthRequest]
    /\ bodies \subseteq [w : Workers, link : Links, email : Emails]
    /\ cut \subseteq Uids /\ early \subseteq Uids /\ robbed \subseteq Uids
    /\ claims \in [Uids -> Codes \cup {Unset}]

AuthInit ==
    /\ ServiceInit
    /\ users = {} /\ wdcodes = [c \in {} |-> Unset] /\ pending = {}
    /\ lastUid = 0 /\ lastLink = 0
    /\ issued = {} /\ bodies = {}
    /\ cache = [w \in Workers |-> {}]
    /\ cut = {} /\ early = {} /\ robbed = {}
    /\ claims = [u \in Uids |-> Unset]

-----------------------------------------------------------------------------
(* Statements.                                                             *)

HasAccount(e) == \E u \in users : u.email = e
OwnerOf(c) == wdcodes[c].uid
SecuredCodesOf(id) ==                                                \* mutant
    {c \in DOMAIN wdcodes : OwnerOf(c) = id /\ wdcodes[c].secret # Unset}
CodesOf(id) == {c \in DOMAIN wdcodes : OwnerOf(c) = id}
CodeKnown(c) == c \in DOMAIN wdcodes                                 \* mutant
CodeFree(c) == c \in DOMAIN wdcodes /\ OwnerOf(c) = Unclaimed
AnySecret(c) == TRUE                                                 \* mutant
Secretless(c) == wdcodes[c].secret = Unset

Fresh == {r \in pending : r.fresh}
Stale == {r \in pending : ~r.fresh}

\* SELECT * FROM pending followed by a DELETE of every row that is too old.
Sweep == pending' = Fresh

\* INSERT INTO pending: the address is UNIQUE, a second row is an error 500.
InsertPending(type, e, c) ==
    IF \E r \in pending : r.email = e
    THEN UNCHANGED <<pending, lastLink>>
    ELSE /\ lastLink < MaxLink
         /\ lastLink' = lastLink + 1
         /\ pending' = pending \cup {[link |-> lastLink + 1, type |-> type,
                                      email |-> e, code |-> c, fresh |-> TRUE]}

-----------------------------------------------------------------------------
(* addCodes: the rows of new watchdogs, each INSERT its own transaction.   *)

AddCode(c) ==
    /\ c \notin DOMAIN wdcodes
    /\ wdcodes' = [d \in DOMAIN wdcodes \cup {c} |->
                     IF d = c THEN [uid |-> Unclaimed, secret |-> Unset] ELSE wdcodes[d]]
    /\ UNCHANGED <<serviceVars, users, pending, lastUid, lastLink, issued, cache,
                   bodies, authHist>>

(* register: is the address free, is the code free, is either being        *)
(* claimed; then the mail with the link.                                   *)

Register(w, e, c) ==
    /\ ~HasAccount(e)
    /\ Receive(w, [op |-> "register", at |-> "code", email |-> e, code |-> c])
    /\ UNCHANGED <<authDb, issued, cache, bodies, authHist>>

RegisterCode(w) ==
    /\ At(w, "register", "code")
    /\ IF CodeFree(req[w].code)
       THEN Goto(w, "pending") ELSE Answer(w)
    /\ UNCHANGED <<authDb, issued, cache, bodies, authHist>>

AddressConflicts(e, c) == \E r \in Fresh : r.email = e                 \* mutant
Conflicts(e, c) == \E r \in Fresh : r.email = e \/ r.code = c

RegisterPending(w) ==
    /\ At(w, "register", "pending")
    /\ Sweep
    /\ IF Conflicts(req[w].email, req[w].code) THEN Answer(w) ELSE Goto(w, "insert")
    /\ UNCHANGED <<users, wdcodes, lastUid, lastLink, issued, cache, bodies, authHist>>

RegisterInsert(w) ==
    /\ At(w, "register", "insert")
    /\ InsertPending("email", req[w].email, req[w].code)
    /\ Answer(w)
    /\ UNCHANGED <<users, wdcodes, lastUid, issued, cache, bodies, authHist>>

(* verifyEmail: the link is looked up and deleted, the account created and *)
(* the code given to it; no statement looks at the code or its owner again.*)

Verify(w, r) ==
    /\ r.type = "email" /\ r.fresh
    /\ Receive(w, [op |-> "verify", at |-> "delete", row |-> r])
    /\ UNCHANGED <<authDb, issued, cache, bodies, authHist>>

VerifyDelete(w) ==
    /\ At(w, "verify", "delete")
    /\ pending' = {r \in pending : r.link # req[w].row.link}
    /\ Goto(w, "insert")
    /\ UNCHANGED <<users, wdcodes, lastUid, lastLink, issued, cache, bodies, authHist>>

VerifyInsert(w) ==
    /\ At(w, "verify", "insert")
    /\ IF HasAccount(req[w].row.email)
       THEN Answer(w) /\ UNCHANGED <<users, lastUid, claims>>
       ELSE /\ lastUid < MaxUid
            /\ lastUid' = lastUid + 1
            /\ users' = users \cup {[uid |-> lastUid + 1, email |-> req[w].row.email, pw |-> 0]}
            /\ claims' = [claims EXCEPT ![lastUid + 1] = req[w].row.code]
            /\ Continue(w, [op |-> "verify", at |-> "claim", row |-> req[w].row,
                            uid |-> lastUid + 1])
    /\ UNCHANGED <<wdcodes, pending, lastLink, issued, cache, bodies,
                   cut, early, robbed>>

VerifyClaim(w) ==
    /\ At(w, "verify", "claim")
    /\ wdcodes' = [wdcodes EXCEPT ![req[w].row.code].uid = req[w].uid]
    /\ Answer(w)
    /\ UNCHANGED <<users, pending, lastUid, lastLink, issued, cache, bodies, authHist>>

(* requestPasswordReset: a fresh row of another address makes the handler  *)
(* evaluate a name that is not defined (wdcode) and end with an error 500; *)
(* it has then deleted the stale rows before that one.                     *)

Forgot(w, e) ==
    /\ HasAccount(e)
    /\ Receive(w, [op |-> "forgot", at |-> "pending", email |-> e])
    /\ UNCHANGED <<authDb, issued, cache, bodies, authHist>>

ForgotPending(w) ==
    /\ At(w, "forgot", "pending")
    /\ \/ /\ \E r \in Fresh : r.email # req[w].email
          /\ \E gone \in SUBSET Stale : pending' = pending \ gone
          /\ Answer(w)
       \/ /\ \A r \in Fresh : r.email = req[w].email
          /\ Sweep
          /\ IF Fresh = {} THEN Goto(w, "insert") ELSE Answer(w)
    /\ UNCHANGED <<users, wdcodes, lastUid, lastLink, issued, cache, bodies, authHist>>

ForgotInsert(w) ==
    /\ At(w, "forgot", "insert")
    /\ InsertPending("reset", req[w].email, Unset)
    /\ Answer(w)
    /\ UNCHANGED <<users, wdcodes, lastUid, issued, cache, bodies, authHist>>

(* resetPassword: the link is looked up, then the body awaited; other      *)
(* requests of the same process are handled meanwhile.                     *)

Reset(w, r) ==
    /\ r.type = "reset" /\ r.fresh
    /\ Receive(w, Idle)
    /\ bodies' = bodies \cup {[w |-> w, link |-> r.link, email |-> r.email]}
    /\ UNCHANGED <<authDb, issued, cache, authHist>>

\* The body: a password that is not accepted ends the request without a change.
ResetBody(w, b, accepted) ==
    /\ Free(w) /\ b.w = w
    /\ bodies' = bodies \ {b}
    /\ IF accepted
       THEN /\ pending' = {r \in pending : r.link # b.link}
            /\ Continue(w, [op |-> "reset", at |-> "update", email |-> b.email,
                            link |-> b.link])
       ELSE UNCHANGED <<pending, serviceVars>>
    /\ UNCHANGED <<users, wdcodes, lastUid, lastLink, issued, cache, authHist>>

ResetUpdate(w) ==
    /\ At(w, "reset", "update")
    /\ users' = {IF u.email = req[w].email THEN [u EXCEPT !.pw = req[w].link] ELSE u :
                   u \in users}
    /\ Answer(w)
    /\ UNCHANGED <<wdcodes, pending, lastUid, lastLink, issued, cache, bodies, authHist>>

-----------------------------------------------------------------------------
(* Tokens.                                                                 *)

Login(w, u) ==
    /\ Receive(w, [op |-> "token", code |-> u.email, id |-> u.uid, perm |-> "user"])
    /\ UNCHANGED <<authDb, issued, cache, bodies, authHist>>

RequestToken(w, t) ==
    /\ Receive(w, [op |-> "token", code |-> t.code, id |-> t.id, perm |-> "none"])
    /\ UNCHANGED <<authDb, issued, cache, bodies, authHist>>

\* authenticateWatchdog: the first secret sent for a claimed code is stored,
\* later ones must be equal to it.
AuthenticateWatchdog(w, c, s) ==
    /\ c \in DOMAIN wdcodes /\ OwnerOf(c) # Unclaimed
    /\ \/ /\ Secretless(c)
          /\ Receive(w, [op |-> "secret", code |-> c, uid |-> OwnerOf(c), secret |-> s])
       \/ /\ wdcodes[c].secret = s
          /\ Receive(w, [op |-> "token", code |-> c, id |-> OwnerOf(c), perm |-> "none"])
    /\ UNCHANGED <<authDb, issued, cache, bodies, authHist>>

StoreSecret(w) ==
    /\ req[w].op = "secret"
    /\ wdcodes' = [wdcodes EXCEPT ![req[w].code].secret = req[w].secret]
    /\ Continue(w, [op |-> "token", code |-> req[w].code, id |-> req[w].uid, perm |-> "none"])
    /\ UNCHANGED <<users, pending, lastUid, lastLink, issued, cache, bodies,
                   authHist>>

\* Is an account between the two statements that create it and give it its code?
MidVerify(uid) == \E v \in Workers : At(v, "verify", "claim") /\ req[v].uid = uid

SameCall(t, r) == t.code = r.code /\ t.id = r.id /\ t.perm = r.perm

\* generateToken: within ten minutes the cached token of an equal call, else
\* the whole cache is dropped or the call computed and added to it.
GenerateToken(w) ==
    /\ req[w].op = "token"
    /\ LET r == req[w]
           new == [code |-> r.code, id |-> r.id, perm |-> r.perm,
                   belongs |-> IF r.code \in Emails THEN CodesOf(r.id) ELSE {}]
           hits == {t \in cache[w] : SameCall(t, r)}
           Give(t) == /\ t \in issued \/ Cardinality(issued) < MaxTokens
                      /\ issued' = issued \cup {t}
                      /\ early' = IF MidVerify(r.id) THEN early \cup {r.id} ELSE early
       IN \/ /\ \E t \in hits : Give(t)
             /\ UNCHANGED cache
          \/ /\ hits = {} /\ Give(new)
             /\ cache' = [cache EXCEPT ![w] = @ \cup {new}]
          \/ /\ cache[w] # {} /\ Give(new)
             /\ cache' = [cache EXCEPT ![w] = {new}]
    /\ Answer(w)
    /\ UNCHANGED <<authDb, bodies, cut, claims, robbed>>

-----------------------------------------------------------------------------
(* unregister: the account of the token is deleted, then every code named  *)
(* in the token is released, whoever owns it by now.                       *)

Unregister(w, t) ==
    /\ t.code \in Emails
    /\ Receive(w, [op |-> "unregister", at |-> "pending", token |-> t])
    /\ UNCHANGED <<authDb, issued, cache, bodies, authHist>>

UnregisterPending(w) ==
    /\ At(w, "unregister", "pending")
    /\ Sweep
    /\ IF \E r \in Fresh : r.email = req[w].token.code THEN Answer(w) ELSE Goto(w, "users")
    /\ UNCHANGED <<users, wdcodes, lastUid, lastLink, issued, cache, bodies, authHist>>

UnregisterDelete(w) ==
    /\ At(w, "unregister", "users")
    /\ users' = {u \in users : u.uid # req[w].token.id}
    /\ IF req[w].token.belongs = {}
       THEN Answer(w)
       ELSE Continue(w, [op |-> "unregister", at |-> "codes", token |-> req[w].token,
                         left |-> req[w].token.belongs])
    /\ UNCHANGED <<wdcodes, pending, lastUid, lastLink, issued, cache, bodies, authHist>>

UnregisterCode(w, c) ==
    /\ At(w, "unregister", "codes") /\ c \in req[w].left
    /\ wdcodes' = [wdcodes EXCEPT ![c] = [uid |-> Unclaimed, secret |-> Unset]]
    /\ robbed' = IF OwnerOf(c) \in {Unclaimed, req[w].token.id}
                 THEN robbed ELSE robbed \cup {OwnerOf(c)}
    /\ IF req[w].left = {c} THEN Answer(w)
       ELSE Continue(w, [req[w] EXCEPT !.left = @ \ {c}])
    /\ UNCHANGED <<users, pending, lastUid, lastLink, issued, cache, bodies,
                   cut, early, claims>>

-----------------------------------------------------------------------------
(* Time and failures.                                                      *)

\* Ten minutes after it was written a row is stale; older rows are so before it.
TenMinutes(r) ==
    /\ r.fresh
    /\ \A s \in Fresh : r.link <= s.link
    /\ pending' = (pending \ {r}) \cup {[r EXCEPT !.fresh = FALSE]}
    /\ UNCHANGED <<serviceVars, users, wdcodes, lastUid, lastLink, issued, cache,
                   bodies, authHist>>

\* 36 hours after it was signed a token is refused.
TokenExpires(t) ==
    /\ issued' = issued \ {t}
    /\ UNCHANGED <<serviceVars, authDb, cache, bodies, authHist>>

\* A process dies and is started again: its requests and its cache are gone.
\* Cut in two: an account without its code, or a code without its account.
AuthCrash(w) ==
    /\ w \in alive
    /\ cut' = cut \cup {u \in Uids :
                 \/ At(w, "verify", "claim") /\ req[w].uid = u
                 \/ At(w, "unregister", "codes") /\ \E c \in req[w].left : OwnerOf(c) = u}
    /\ Answer(w)
    /\ cache' = [cache EXCEPT ![w] = {}]
    /\ bodies' = {b \in bodies : b.w # w}
    /\ UNCHANGED <<authDb, issued, early, claims, robbed>>

AuthNext ==
    \/ \E c \in Codes : AddCode(c)
    \/ \E w \in Workers :
        \/ \E e \in Emails, c \in Codes : Register(w, e, c)
        \/ RegisterCode(w) \/ RegisterPending(w) \/ RegisterInsert(w)
        \/ \E r \in pending : Verify(w, r)
        \/ VerifyDelete(w) \/ VerifyInsert(w) \/ VerifyClaim(w)
        \/ \E e \in Emails : Forgot(w, e)
        \/ ForgotPending(w) \/ ForgotInsert(w)
        \/ \E r \in pending : Reset(w, r)
        \/ \E b \in bodies, accepted \in BOOLEAN : ResetBody(w, b, accepted)
        \/ ResetUpdate(w)
        \/ \E u \in users : Login(w, u)
        \/ \E t \in issued : RequestToken(w, t) \/ Unregister(w, t)
        \/ \E c \in Codes, s \in Secrets : AuthenticateWatchdog(w, c, s)
        \/ StoreSecret(w) \/ GenerateToken(w)
        \/ UnregisterPending(w) \/ UnregisterDelete(w)
        \/ \E c \in Codes : UnregisterCode(w, c)
        \/ AuthCrash(w)
    \/ \E r \in pending : TenMinutes(r)
    \/ \E t \in issued : TokenExpires(t)

AuthSpec == AuthInit /\ [][AuthNext]_authVars

-----------------------------------------------------------------------------
(* Properties.                                                             *)

\* With every request answered, a claimed code belongs to an account that
\* exists.  Two things can break it: a process that died between two
\* statements, and a login between the INSERT of the account and the UPDATE
\* of its code, whose token names no code (and is cached for ten minutes), so
\* that unregistering with it leaves the code to nobody.
CodeHasOwner ==
    (\A w \in Workers : req[w] = Idle) =>
        \A c \in DOMAIN wdcodes :
            OwnerOf(c) # Unclaimed =>
                \/ \E u \in users : u.uid = OwnerOf(c)
                \/ OwnerOf(c) \in early \cup cut

\* One process: whoever was verified for a code has it as long as the account
\* exists, through every expired, repeated and competing claim; he can lose it
\* to an unregister with an older token of an account that had the code
\* before, and never gets it when a crash cut the verification.
VerifiedOwns ==
    Sequential =>
        \A u \in users :
            \/ OwnerOf(claims[u.uid]) = u.uid
            \/ MidVerify(u.uid)
            \/ u.uid \in robbed \cup cut

\* One process: a code is being claimed by one person at a time, and by nobody
\* while it has an owner (register checks the one in pending, the other in
\* wdcodes, and verifyEmail relies on both).
SoleClaim ==
    Sequential =>
        \A r \in Fresh : r.type = "email" =>
            /\ OwnerOf(r.code) = Unclaimed
            /\ \A s \in Fresh : s.code = r.code => s = r

\* Accounts: a code has the owner its rows say, verification gives the code to
\* the account it was asked for, and no two accounts claim it.
AccountsSound == CodeHasOwner /\ VerifiedOwns /\ SoleClaim

\* One process: the secret stored for a code is never replaced by another
\* while the code keeps its owner, so a second box cannot take the place of
\* the first (the check for NULL and the UPDATE are two statements).
OneBox ==
    [][Sequential =>
         \A c \in DOMAIN wdcodes :
            (wdcodes[c].secret # Unset /\ wdcodes'[c].uid = wdcodes[c].uid) =>
                wdcodes'[c].secret = wdcodes[c].secret]_authVars

=============================================================================
