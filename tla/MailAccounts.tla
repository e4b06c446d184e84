---------------------------- MODULE MailAccounts ----------------------------
(***************************************************************************)
(* One mail account and its app passwords: the row with its mirrored       *)
(* credentials, the cluster's account, and the requests that create, open, *)
(* save, rotate and delete it (mail_account.py, account_credentials.py,    *)
(* tenancy/sync.py, outbound_scan.py, api/mail/accounts.py).               *)
(*                                                                         *)
(* A save holds the row's lock from its check of `modified` until it       *)
(* commits, and pushes to the cluster on the way, one call a step. A form  *)
(* that opens writes the cluster's list of credentials over the mirror     *)
(* without touching `modified`. A credential is its number, in order of    *)
(* creation.                                                               *)
(***************************************************************************)
EXTENDS Naturals, FiniteSets, Sequences, SequencesExt

CONSTANTS
    Requests,
    NoRequest,
    Limit,       \* the maxAppPasswords quota of the account
    MaxIds,      \* bound: credentials ever created
    MaxEdits,    \* bound: requests that change the account
    MaxFaults    \* bound: calls that fail, workers that die

Ids == 1..MaxIds

VARIABLES
    row,       \* the committed row: exists, enabled, skip_outbound_scan, the fields of a patch, its credentials
    live,      \* the cluster's account: exists, disabled role, exempt key, fields, credentials
    made,      \* who made each credential: "login" (Suite Cloud's), "app" (a row of the form) or "owner"
    handed,    \* the login last handed to the tenant, 0 before
    lock,      \* the request that holds the row's lock
    proc,      \* each request: where it is, what it loaded, what it still pushes
    parted,    \* history: a save ended with some of its pushes done
    lost,      \* history: credentials whose revocation was lost
    overlaid,  \* history: a form wrote a list over the mirror beside another request
    edits,
    faults

vars == <<row, live, made, handed, lock, proc, parted, lost, overlaid, edits, faults>>

Account == [exists: BOOLEAN, enabled: BOOLEAN, exempt: BOOLEAN, field: BOOLEAN, creds: SUBSET Ids]
Vacant == [exists |-> FALSE, enabled |-> TRUE, exempt |-> FALSE, field |-> FALSE, creds |-> {}]

Pushes == {"create", "exempt", "patch", "login", "app", "role", "destroy"}

Idle == [at |-> "idle", fresh |-> FALSE, doc |-> Vacant, todo |-> <<>>, pushed |-> FALSE, created |-> {}, gone |-> {}]

TypeOK ==
    /\ row \in Account /\ live \in Account
    /\ made \in Seq({"login", "app", "owner"}) /\ Len(made) <= MaxIds
    /\ handed \in 0..MaxIds /\ lock \in Requests \cup {NoRequest}
    /\ DOMAIN proc = Requests
    /\ \A p \in Requests :
        /\ proc[p].at \in {"idle", "listed", "loaded", "saving", "revoking"} /\ proc[p].doc \in Account
        /\ proc[p].fresh \in BOOLEAN /\ proc[p].pushed \in BOOLEAN /\ Range(proc[p].todo) \subseteq Pushes
        /\ proc[p].created \subseteq Ids /\ proc[p].gone \subseteq Ids
    /\ parted \in BOOLEAN /\ lost \subseteq Ids /\ overlaid \in BOOLEAN
    /\ edits \in 0..MaxEdits /\ faults \in 0..MaxFaults

MadeBy(who) == {c \in DOMAIN made : made[c] = who}
Logins == MadeBy("login")

----------------------------------------------------------------------------
(* What a save will do *)

\* The newest k of the credentials: make_room lets the oldest go.
Newest(creds, k) == {c \in creds : Cardinality({d \in creds : d > c}) < k}

\* place_site_login and the limit: the credentials that stay, and whether a login is minted.
Placed(creds, adds) ==
    IF creds \cap Logins # {} THEN [creds |-> creds, mint |-> FALSE]
    ELSE [creds |-> Newest(creds, IF Limit > adds THEN Limit - adds - 1 ELSE 0), mint |-> TRUE]

Fits(placed, adds) ==
    /\ Cardinality(placed.creds \cap Logins) <= 1
    /\ Cardinality(placed.creds) + adds + (IF placed.mint THEN 1 ELSE 0) <= Limit

\* A push is made of what changed.
Only(step, changed) == IF changed THEN <<step>> ELSE <<>>

\* The pushes of on_update, in its order.
Changes(want, mint, adds) ==
    Only("exempt", want.exempt # row.exempt) \o Only("patch", want.field # row.field)
    \o Only("login", mint) \o Only("app", adds = 1) \o Only("role", want.enabled # row.enabled)

\* Takes the lock and starts the pushes; the credentials taken out go once the save commits.
Start(p, want, todo, gone) ==
    /\ lock = NoRequest /\ lock' = p
    /\ proc' = [proc EXCEPT ![p] = [at |-> "saving", fresh |-> TRUE, doc |-> want, todo |-> todo, pushed |-> FALSE,
                                    created |-> {}, gone |-> gone]]
    /\ UNCHANGED <<row, live, made, handed, parted, lost, overlaid, faults>>

\* What the cluster held before this save: the mirror, or its list when nothing was mirrored yet.
Baseline == IF row.creds = {} /\ live.creds # {} THEN live.creds ELSE row.creds

\* A save of the document `doc` with the credentials `keep` of it and `adds` new ones. An account that was
\* disabled keeps its mirror; one never mirrored starts from the cluster's list.
Saves(p, doc, keep, adds) ==
    LET placed == Placed(IF row.creds = {} THEN live.creds ELSE keep, adds)
    IN  IF ~row.enabled
        THEN keep = row.creds /\ adds = 0 /\ Start(p, [doc EXCEPT !.creds = keep], Changes(doc, FALSE, 0), {})
        ELSE /\ Fits(placed, adds)
             /\ Start(p, [doc EXCEPT !.creds = placed.creds], Changes(doc, placed.mint, adds), Baseline \ placed.creds)

\* Nothing is claimed of an account whose state parted from the cluster's: the exploration ends there.
Explored == edits < MaxEdits /\ ~parted /\ ~overlaid

Edit == Explored /\ edits' = edits + 1

----------------------------------------------------------------------------
(* Requests *)

\* insert: the account, its login, then what the row says beyond a plain account.
Insert(p) ==
    /\ proc[p] = Idle /\ ~row.exists /\ ~live.exists /\ Edit
    /\ \E enabled, exempt \in BOOLEAN :
        Start(p, [Vacant EXCEPT !.exists = TRUE, !.enabled = enabled, !.exempt = exempt],
              <<"create", "login">> \o Only("role", ~enabled) \o Only("exempt", exempt), {})

\* The API loads the document without a lock.
Load(p) ==
    /\ proc[p] = Idle /\ row.exists /\ Explored
    /\ proc' = [proc EXCEPT ![p] = [Idle EXCEPT !.at = "loaded", !.fresh = TRUE, !.doc.creds = row.creds]]
    /\ UNCHANGED <<row, live, made, handed, lock, parted, lost, overlaid, edits, faults>>

\* refresh, to the lookup: the form shows the cluster's list, the mirror of a disabled account.
OpenForm(p) ==
    LET shown == IF row.enabled /\ live.exists /\ live.enabled THEN live.creds ELSE row.creds
    IN  /\ proc[p] = Idle /\ row.exists /\ Explored
        /\ proc' = [proc EXCEPT ![p] = [Idle EXCEPT !.at = IF shown = row.creds THEN "loaded" ELSE "listed", !.fresh = TRUE,
                                                    !.doc.creds = shown]]
        /\ UNCHANGED <<row, live, made, handed, lock, parted, lost, overlaid, edits, faults>>

\* refresh, once it has the lock: the list goes over the mirror, and the save check sees no change.
WriteMirror(p) ==
    /\ proc[p].at = "listed" /\ lock = NoRequest
    /\ row' = IF row.exists THEN [row EXCEPT !.creds = proc[p].doc.creds] ELSE row
    /\ proc' = [proc EXCEPT ![p] = IF @.fresh THEN [@ EXCEPT !.at = "loaded"] ELSE Idle]
    /\ overlaid' = (overlaid \/ proc[p].doc.creds # live.creds \/ \E q \in Requests \ {p} : proc[q].at # "idle")
    /\ UNCHANGED <<live, made, handed, lock, parted, lost, edits, faults>>

\* The save of a loaded document, changed; its credentials are those it was loaded with.
Save(p) ==
    /\ proc[p].at = "loaded" /\ row.exists /\ Edit
    /\ \E enabled, exempt, field \in BOOLEAN, adds \in 0..1, drop \in SUBSET (proc[p].doc.creds \ Logins) :
        LET doc == [row EXCEPT !.enabled = enabled, !.exempt = exempt, !.field = field]
        IN  Cardinality(drop) + adds <= 1 /\ Saves(p, doc, proc[p].doc.creds \ drop, adds)

Close(p) ==
    /\ proc[p].at = "loaded"
    /\ proc' = [proc EXCEPT ![p] = Idle]
    /\ UNCHANGED <<row, live, made, handed, lock, parted, lost, overlaid, edits, faults>>

\* rotate_site_login: the save mints a new login in place of the rows that were taken out.
Rotate(p) ==
    /\ proc[p] = Idle /\ row.exists /\ row.enabled /\ Edit
    /\ LET loaded == IF row.creds = {} THEN live.creds ELSE row.creds
           placed == Placed(loaded \ Logins, 0)
       IN  /\ Fits(placed, 0)
           /\ Start(p, [row EXCEPT !.creds = placed.creds], Changes(row, TRUE, 0), loaded \ placed.creds)

\* create_credential, delete_credential: the row is locked for the change.
ChangeCredential(p) ==
    /\ proc[p] = Idle /\ row.exists /\ Edit
    /\ \/ Saves(p, row, row.creds, 1)
       \/ \E c \in row.creds \ Logins : Saves(p, row, row.creds \ {c}, 0)

Delete(p) ==
    /\ proc[p] = Idle /\ row.exists /\ Edit
    /\ Start(p, Vacant, Only("exempt", row.exempt) \o <<"destroy">>, {})

----------------------------------------------------------------------------
(* Pushes *)

Fresh == Len(made) + 1

\* Not the code: the old credentials go as the new one comes.
MintedInPlace(p) == (live.creds \cup {Fresh}) \ proc[p].gone

Minted(p) == live.creds \cup {Fresh}

\* What the next push of a request does to the cluster.
Effect(p) ==
    LET step == Head(proc[p].todo)
        want == proc[p].doc
    IN  CASE step = "create"  -> [Vacant EXCEPT !.exists = TRUE, !.field = want.field, !.exempt = live.exempt]
          [] step = "exempt"  -> [live EXCEPT !.exempt = want.exempt]
          [] step = "patch"   -> [live EXCEPT !.field = want.field]
          [] step = "role"    -> [live EXCEPT !.enabled = want.enabled]
          [] step = "destroy" -> [Vacant EXCEPT !.exempt = live.exempt]
          [] OTHER            -> [live EXCEPT !.creds = Minted(p)]

Mints(p) == Head(proc[p].todo) \in {"login", "app"}

\* A credential is made through the account's own session, which the disabled role shuts.
Possible(p) == proc[p].at = "saving" /\ proc[p].todo # <<>> /\ (Mints(p) => Len(made) < MaxIds /\ live.exists /\ live.enabled)

Push(p) ==
    /\ Possible(p)
    /\ live' = Effect(p)
    /\ made' = IF Mints(p) THEN Append(made, Head(proc[p].todo)) ELSE made
    /\ proc' = [proc EXCEPT ![p].todo = Tail(@), ![p].pushed = @ \/ ~Mints(p),
                            ![p].created = IF Mints(p) THEN @ \cup {Fresh} ELSE @]
    /\ UNCHANGED <<row, handed, lock, parted, lost, overlaid, edits, faults>>

Inserting(p) == proc[p].at = "saving" /\ ~row.exists

\* Not the code: an insert that fails leaves the account behind.
DestroyedNever(p) == FALSE

\* after_insert: a failure after the account was created takes it away again.
Destroyed(p) == Inserting(p) /\ proc[p].pushed

\* Not the code: what was created before the failure stays.
RolledBackKeeps(p) == {}

\* The callback that push_kind leaves for a rollback.
RolledBack(p) == proc[p].created

\* A push is refused, or it took effect and the answer was lost: the save rolls back.
Fail(p, effect) ==
    LET now   == IF effect THEN Effect(p) ELSE live
        lone  == IF effect /\ Mints(p) /\ ~Inserting(p) THEN {Fresh} ELSE {}
    IN  /\ Possible(p) /\ faults < MaxFaults /\ faults' = faults + 1
        /\ live' = IF Destroyed(p) THEN [Vacant EXCEPT !.exempt = now.exempt] ELSE now
        /\ made' = IF effect /\ Mints(p) THEN Append(made, Head(proc[p].todo)) ELSE made
        /\ lost' = lost \cup lone
        /\ parted' = (parted \/ (IF Inserting(p) THEN effect /\ Head(proc[p].todo) \in {"create", "exempt"}
                                 ELSE proc[p].pushed \/ (effect /\ ~Mints(p))))
        /\ proc' = [proc EXCEPT ![p] = IF RolledBack(p) = {} \/ Inserting(p) THEN Idle
                                       ELSE [Idle EXCEPT !.at = "revoking", !.gone = RolledBack(p)]]
        /\ lock' = NoRequest
        /\ UNCHANGED <<row, handed, overlaid, edits>>

\* The worker dies: the database rolls back and nothing else does.
Crash(p) ==
    /\ proc[p].at = "saving" /\ faults < MaxFaults /\ faults' = faults + 1
    /\ parted' = (parted \/ proc[p].pushed)
    /\ lost' = lost \cup proc[p].created
    /\ proc' = [proc EXCEPT ![p] = Idle] /\ lock' = NoRequest
    /\ UNCHANGED <<row, live, made, handed, overlaid, edits>>

\* A document loaded before a save can no longer be saved.
Outdated(r) == IF r.at = "loaded" THEN Idle ELSE [r EXCEPT !.fresh = FALSE]

NewLogin(p) == proc[p].created \cap Logins

Commit(p) ==
    LET want == proc[p].doc
    IN  /\ proc[p].at = "saving" /\ proc[p].todo = <<>>
        /\ row' = [want EXCEPT !.creds = @ \cup proc[p].created]
        /\ handed' = IF ~want.exists THEN 0 ELSE IF NewLogin(p) = {} THEN handed ELSE CHOOSE c \in NewLogin(p) : TRUE
        /\ proc' = [q \in Requests |->
                      IF q # p THEN Outdated(proc[q])
                      ELSE IF proc[p].gone = {} THEN Idle ELSE [Idle EXCEPT !.at = "revoking", !.gone = proc[p].gone]]
        /\ lock' = NoRequest
        /\ UNCHANGED <<live, made, parted, lost, overlaid, edits, faults>>

\* After the commit or the rollback; the session may be shut, the call may fail.
Revoke(p) ==
    /\ proc[p].at = "revoking"
    /\ \/ /\ live.exists /\ live.enabled
          /\ live' = [live EXCEPT !.creds = @ \ proc[p].gone]
          /\ UNCHANGED <<lost, faults>>
       \/ /\ ~live.exists \/ ~live.enabled
          /\ lost' = lost \cup proc[p].gone
          /\ UNCHANGED <<live, faults>>
       \/ /\ faults < MaxFaults /\ faults' = faults + 1
          /\ lost' = lost \cup proc[p].gone
          /\ UNCHANGED live
    /\ proc' = [proc EXCEPT ![p] = Idle]
    /\ UNCHANGED <<row, made, handed, lock, parted, overlaid, edits>>

----------------------------------------------------------------------------
(* The owner of the mailbox, on the cluster itself *)

OwnerMints ==
    /\ live.exists /\ live.enabled /\ Len(made) < MaxIds /\ Explored
    /\ live' = [live EXCEPT !.creds = @ \cup {Fresh}]
    /\ made' = Append(made, "owner")
    /\ UNCHANGED <<row, handed, lock, proc, parted, lost, overlaid, edits, faults>>

OwnerRevokes(c) ==
    /\ c \in live.creds \ Logins /\ live.enabled /\ Explored
    /\ live' = [live EXCEPT !.creds = @ \ {c}]
    /\ UNCHANGED <<row, made, handed, lock, proc, parted, lost, overlaid, edits, faults>>

----------------------------------------------------------------------------
\* No account, or one that was adopted with the password its owner made.
Init ==
    /\ \E adopted \in BOOLEAN :
        /\ row = [Vacant EXCEPT !.exists = adopted]
        /\ live = [Vacant EXCEPT !.exists = adopted, !.creds = IF adopted THEN {1} ELSE {}]
        /\ made = IF adopted THEN <<"owner">> ELSE <<>>
    /\ handed = 0 /\ lock = NoRequest /\ proc = [p \in Requests |-> Idle]
    /\ parted = FALSE /\ lost = {} /\ overlaid = FALSE /\ edits = 0 /\ faults = 0

Next ==
    \/ \E p \in Requests :
        \/ Insert(p) \/ Load(p) \/ OpenForm(p) \/ WriteMirror(p) \/ Save(p) \/ Close(p)
        \/ Rotate(p) \/ ChangeCredential(p) \/ Delete(p)
        \/ Push(p) \/ Crash(p) \/ Commit(p) \/ Revoke(p) \/ \E effect \in BOOLEAN : Fail(p, effect)
    \/ OwnerMints \/ \E c \in Ids : OwnerRevokes(c)

Spec == Init /\ [][Next]_vars

----------------------------------------------------------------------------
Quiet == \A p \in Requests : proc[p].at \in {"idle", "loaded"}

\* With no save under way the cluster has the account as the row says, over inserts that fail half
\* way, unless a save of several pushes ended between two of them (on_update, after_insert).
AccountFollows ==
    Quiet /\ ~parted => [live EXCEPT !.creds = {}] = [row EXCEPT !.creds = {}]

\* With no save under way every credential that Suite Cloud made is on the account's list or its
\* revocation was lost, and once one was handed out the list has one login, that one, unless a form
\* wrote its list beside another request (push_kind, refresh).
CredentialsFollow ==
    Quiet /\ ~overlaid /\ ~parted /\ row.exists =>
        /\ live.creds \subseteq row.creds \cup MadeBy("owner") \cup lost
        /\ handed # 0 => (row.creds \cap Logins) \ lost = {handed}

\* The tenant is never without a login: the one last handed out works at every moment, between the
\* steps of a rotation too (rotate_site_login, push_kind).
LoginAnswers ==
    handed # 0 /\ ~parted /\ ~overlaid /\ live.exists => handed \in live.creds
=============================================================================
