--------------------------- MODULE MailDirectory ---------------------------
(***************************************************************************)
(* The directory of a tenant: an account, a group and a mailing list with  *)
(* their aliases, the account's membership of the group and the recipients *)
(* of the list, in Suite Cloud's rows and on the cluster (mail_group.py,   *)
(* mailing_list.py, tenancy/sync.py, tenancy/addresses.py,                 *)
(* tenancy/adopt.py, api/mail).                                            *)
(*                                                                         *)
(* A request checks what it reads at its start, then takes its locks, then *)
(* pushes call by call inside its transaction, then commits. An object     *)
(* stands for its own address.                                             *)
(***************************************************************************)
EXTENDS Naturals, FiniteSets, Sequences, SequencesExt

CONSTANTS
    Account, Group, List,
    Alias,       \* an address that objects take as an alias
    Outside,     \* a recipient elsewhere
    Requests,
    MaxEdits,    \* bound: requests
    MaxFaults    \* bound: calls that fail, workers that die

Objects == {Account, Group, List}
Addresses == Objects \cup {Alias}
Recipients == {Account, Outside}

VARIABLES
    db,      \* the committed rows: objects with their aliases, membership, recipients
    live,    \* the same on the cluster
    legacy,  \* objects of the cluster that Suite Cloud did not create and has not adopted
    proc,    \* each request: its operation, its locks, writes and the pushes left
    parted,  \* history: a request rolled back with pushes done, or its reads were out of date
    edits,
    faults

vars == <<db, live, legacy, proc, parted, edits, faults>>

Absent == [exists |-> FALSE, aliases |-> {}]
Present(aliases) == [exists |-> TRUE, aliases |-> aliases]

Directory == [obj: [Objects -> [exists: BOOLEAN, aliases: SUBSET Addresses]], member: BOOLEAN,
              rcpt: [Recipients -> {"none", "on", "off"}]]

Empty == [obj |-> [o \in Objects |-> Absent], member |-> FALSE, rcpt |-> [e \in Recipients |-> "none"]]

NoOp == [kind |-> "none", o |-> Account, addr |-> {}, on |-> FALSE]
Idle == [at |-> "idle", op |-> NoOp, seen |-> Empty, writes |-> <<>>, todo |-> <<>>, pushed |-> FALSE]

Kinds == {"none", "create", "delete", "alias", "member", "add", "remove", "toggle", "adopt"}

TypeOK ==
    /\ db \in Directory /\ live \in Directory /\ legacy \subseteq Objects
    /\ DOMAIN proc = Requests
    /\ \A p \in Requests : proc[p].at \in {"idle", "asked", "pushing"} /\ proc[p].op.kind \in Kinds /\ proc[p].seen \in Directory
    /\ parted \in BOOLEAN /\ edits \in 0..MaxEdits /\ faults \in 0..MaxFaults

----------------------------------------------------------------------------
(* Rows *)

SetObj(o, val) == [kind |-> "obj", o |-> o, val |-> val, status |-> "none"]
SetMember(on) == [kind |-> "member", o |-> Account, val |-> Absent, status |-> IF on THEN "on" ELSE "none"]
SetRcpt(e, status) == [kind |-> "rcpt", o |-> e, val |-> Absent, status |-> status]

\* The one write of a row among some.
Of(W, kind, o) == {w \in W : w.kind = kind /\ w.o = o}
The(S) == CHOOSE w \in S : TRUE

Gone(W, o) == \E w \in Of(W, "obj", o) : ~w.val.exists

\* Some writes, of a row each: the account's memberships go with it, the list's recipients with the list.
Write(s, W) ==
    [obj |-> [o \in Objects |-> IF Of(W, "obj", o) = {} THEN s.obj[o] ELSE The(Of(W, "obj", o)).val],
     member |-> IF Of(W, "member", Account) = {} THEN s.member /\ ~Gone(W, Account)
                ELSE The(Of(W, "member", Account)).status = "on",
     rcpt |-> [e \in Recipients |->
                IF Of(W, "rcpt", e) # {} THEN The(Of(W, "rcpt", e)).status
                ELSE IF Gone(W, List) THEN "none" ELSE s.rcpt[e]]]

\* A push: the cluster has no disabled recipients.
Sent(s, w) == Write(s, {IF w.kind = "rcpt" /\ w.status = "off" THEN [w EXCEPT !.status = "none"] ELSE w})

HeldBy(s, o) == IF s.obj[o].exists THEN {o} \cup s.obj[o].aliases ELSE {}

\* assert_address_available, of the rows the request sees.
Available(s, addresses, o) == \A other \in Objects \ {o} : HeldBy(s, other) \cap addresses = {}

\* The cluster refuses an address it has elsewhere, and a patch of what it does not have.
Accepts(w) ==
    CASE w.kind = "obj"    -> /\ w.val.exists => \A o \in Objects \ {w.o} : HeldBy(live, o) \cap ({w.o} \cup w.val.aliases) = {}
                              /\ w.val.exists => (live.obj[w.o].exists <=> db.obj[w.o].exists)
      [] w.kind = "member" -> live.obj[Account].exists
      [] w.kind = "rcpt"   -> live.obj[List].exists

----------------------------------------------------------------------------
(* Operations *)

\* The requests: create and delete, one alias, the membership, recipients and adoption.
Ops ==
    [kind: {"create"}, o: Objects, addr: {a \in SUBSET Addresses : Cardinality(a) <= 1}, on: BOOLEAN] \cup
    [kind: {"delete"}, o: Objects, addr: {{}}, on: {FALSE}] \cup
    [kind: {"alias"}, o: Objects, addr: {{a} : a \in Addresses}, on: BOOLEAN] \cup
    [kind: {"member"}, o: {Account}, addr: {{}}, on: BOOLEAN] \cup
    [kind: {"add", "remove"}, o: {List}, addr: (SUBSET Recipients) \ {{}}, on: {FALSE}] \cup
    [kind: {"toggle"}, o: {List}, addr: {{e} : e \in Recipients}, on: {FALSE}] \cup
    [kind: {"adopt"}, o: {List}, addr: {{}}, on: {FALSE}]

\* What a request checks of the rows it sees at its start. A list's recipients, a member of a group and
\* the list an account joins are named with the creation.
Checked(op) ==
    CASE op.kind = "create" -> /\ ~db.obj[op.o].exists /\ op.o \notin op.addr
                               /\ Available(db, {op.o} \cup op.addr, op.o)
                               /\ op.on => (op.o = Account => db.obj[List].exists) /\ (op.o = Group => db.obj[Account].exists)
      [] op.kind = "delete" -> db.obj[op.o].exists
      [] op.kind = "alias"  -> db.obj[op.o].exists /\ op.o \notin op.addr /\ (op.on => Available(db, op.addr, op.o))
      [] op.kind = "member" -> db.obj[Account].exists /\ db.obj[Group].exists
      [] op.kind \in {"add", "remove", "toggle"} -> db.obj[List].exists
      [] op.kind = "adopt"  -> legacy # {}

\* Nothing is claimed of a directory that parted from the cluster's: the exploration ends there.
Ask(p, op) ==
    /\ proc[p] = Idle /\ edits < MaxEdits /\ ~parted
    /\ Checked(op)
    /\ proc' = [proc EXCEPT ![p] = [Idle EXCEPT !.at = "asked", !.op = op, !.seen = IF op.kind = "adopt" THEN live ELSE db]]
    /\ edits' = edits + 1
    /\ UNCHANGED <<db, live, legacy, parted, faults>>

\* The rows an operation locks until it commits: the object, the membership rows, recipients.
Locks(op) ==
    CASE op.kind = "member" -> {<<"obj", Account>>, <<"member", Account>>}
      [] op.kind \in {"add", "remove", "toggle"} -> {<<"rcpt", e>> : e \in op.addr}
      [] op.kind = "adopt"  -> {<<"obj", o>> : o \in legacy} \cup {<<"member", Account>>} \cup {<<"rcpt", e>> : e \in Recipients}
      [] OTHER -> {<<"obj", op.o>>}
                  \cup (IF op.o = Group \/ op.o = Account THEN {<<"member", Account>>} ELSE {})
                  \cup (IF op.o = Group /\ op.on THEN {<<"obj", Account>>} ELSE {})
                  \cup (IF op.o = Account /\ op.on THEN {<<"rcpt", Account>>} ELSE {})
                  \cup (IF op.o = List THEN {<<"rcpt", e>> : e \in Recipients} ELSE {})

Unlocked(p) == \A q \in Requests \ {p} : proc[q].at = "pushing" => Locks(proc[p].op) \cap Locks(proc[q].op) = {}

Rcpts(S, status) == SetToSeq({SetRcpt(e, status) : e \in S})

(* Adoption: an object whose addresses are free is recorded as the cluster had it. *)

Recorded(seen) == {o \in legacy : ~db.obj[o].exists /\ Available(db, HeldBy(seen, o), o)}

AdoptObjects(seen) == SetToSeq({SetObj(o, seen.obj[o]) : o \in Recorded(seen)})

AdoptMember(seen) ==
    IF seen.member /\ Account \in Recorded(seen) /\ (Group \in Recorded(seen) \/ db.obj[Group].exists)
    THEN <<SetMember(TRUE)>> ELSE <<>>

AdoptRecipients(seen) ==
    IF List \in Recorded(seen) THEN Rcpts({e \in Recipients : seen.rcpt[e] = "on"}, "on") ELSE <<>>

Adopt(seen) == AdoptObjects(seen) \o AdoptMember(seen) \o AdoptRecipients(seen)

\* add_recipients: those that were not on the list and are not now.
AddRecipients(S, seen) == Rcpts({e \in S : seen.rcpt[e] = "none" /\ db.rcpt[e] = "none"}, "on")

\* remove_recipients: those that were on the list.
RemoveRecipients(S, seen) == Rcpts({e \in S : seen.rcpt[e] # "none"}, "none")

Toggle(S) == Rcpts({e \in S : db.rcpt[e] = "on"}, "off") \o Rcpts({e \in S : db.rcpt[e] = "off"}, "on")

\* What is named with a creation: the list an account joins, the member of a group, a list's recipients.
Named(o) ==
    CASE o = Account -> IF db.rcpt[Account] = "none" THEN <<SetRcpt(Account, "on")>> ELSE <<>>
      [] o = Group   -> <<SetMember(TRUE)>>
      [] o = List    -> Rcpts(Recipients, "on")

ChangeAlias(op) ==
    <<SetObj(op.o, Present(IF op.on THEN db.obj[op.o].aliases \cup op.addr ELSE db.obj[op.o].aliases \ op.addr))>>

\* A group's members leave it first.
RemoveObject(o) == (IF o = Group THEN <<SetMember(FALSE)>> ELSE <<>>) \o <<SetObj(o, Absent)>>

\* The rows a request writes, of what it sees now that it holds the locks.
Writes(op, seen) ==
    CASE op.kind = "create" -> <<SetObj(op.o, Present(op.addr))>> \o (IF op.on THEN Named(op.o) ELSE <<>>)
      [] op.kind = "delete" -> RemoveObject(op.o)
      [] op.kind = "alias"  -> ChangeAlias(op)
      [] op.kind = "member" -> <<SetMember(op.on)>>
      [] op.kind = "add"    -> AddRecipients(op.addr, seen)
      [] op.kind = "remove" -> RemoveRecipients(op.addr, seen)
      [] op.kind = "toggle" -> Toggle(op.addr)
      [] op.kind = "adopt"  -> Adopt(seen)

\* Not the code: an object is not pushed with its row.
PushesNoObject(op, writes, seen) == SelectSeq(writes, LAMBDA w : w.kind # "obj")

\* Every row is pushed, but an adopted one, and a recipient that was disabled when it was read.
Pushes(op, writes, seen) ==
    IF op.kind = "adopt" THEN <<>>
    ELSE IF op.kind = "remove" THEN Rcpts({e \in op.addr : seen.rcpt[e] = "on"}, "none")
    ELSE writes

\* What a request read at its start and would read otherwise now.
Outdated(op, seen) ==
    CASE op.kind = "remove" -> \E e \in op.addr : seen.rcpt[e] # db.rcpt[e]
      [] op.kind = "member" -> ~db.obj[Group].exists
      [] op.kind = "create" -> op.on /\ op.o = Account /\ ~db.obj[List].exists
      [] op.kind = "adopt"  -> seen # live
      [] OTHER -> FALSE

\* A document that is gone or came meanwhile.
Refused(op) ==
    \/ op.kind = "create" /\ (db.obj[op.o].exists \/ (op.on /\ op.o = Group /\ ~db.obj[Account].exists))
    \/ op.kind \in {"delete", "alias", "member"} /\ ~db.obj[op.o].exists
    \/ op.kind \in {"remove", "toggle"} /\ ~db.obj[List].exists

\* The locks are taken and the rows written.
Begin(p) ==
    LET op == proc[p].op
        seen == proc[p].seen
        writes == Writes(op, seen)
        gone == Refused(op)
    IN  /\ proc[p].at = "asked" /\ Unlocked(p)
        /\ proc' = [proc EXCEPT ![p] = IF gone THEN Idle
                                       ELSE [@ EXCEPT !.at = "pushing", !.seen = Empty, !.writes = writes, !.todo = Pushes(op, writes, seen)]]
        /\ parted' = (parted \/ (~gone /\ Outdated(op, seen)))
        /\ UNCHANGED <<db, live, legacy, edits, faults>>

----------------------------------------------------------------------------
(* Pushes *)

Waits(p) == proc[p].at = "pushing" /\ proc[p].todo # <<>>

Push(p) ==
    /\ Waits(p) /\ Accepts(Head(proc[p].todo))
    /\ live' = Sent(live, Head(proc[p].todo))
    /\ proc' = [proc EXCEPT ![p].todo = Tail(@), ![p].pushed = TRUE]
    /\ UNCHANGED <<db, legacy, parted, edits, faults>>

\* Not the code: what was created stays when the rest fails.
UndoneNever(op) == FALSE

\* create_account and create_mailing_list destroy the object when a later call fails; create_group does not.
Undone(op) == op.kind = "create" /\ op.o \in {Account, List}

\* What a failure leaves on the cluster: an object whose creation was not answered, the recipient of a
\* joined list, any push of the operations that take nothing back.
Remains(p, head, effect) ==
    IF proc[p].op.kind = "create" /\ proc[p].op.o # Group THEN effect /\ (head.kind = "obj" \/ proc[p].op.o = Account)
    ELSE effect \/ proc[p].pushed

\* The cluster refuses the next push, or it fails with or without effect: the request rolls back.
Fail(p, effect) ==
    LET op == proc[p].op
        head == Head(proc[p].todo)
        now == IF effect THEN Sent(live, head) ELSE live
        undo == Undone(op) /\ proc[p].pushed
    IN  /\ Waits(p)
        /\ \/ ~effect /\ ~Accepts(head) /\ UNCHANGED faults
           \/ Accepts(head) /\ faults < MaxFaults /\ faults' = faults + 1
        /\ live' = IF undo THEN Sent(now, SetObj(op.o, Absent)) ELSE now
        /\ parted' = (parted \/ Remains(p, head, effect))
        /\ proc' = [proc EXCEPT ![p] = Idle]
        /\ UNCHANGED <<db, legacy, edits>>

Crash(p) ==
    /\ proc[p].at = "pushing" /\ faults < MaxFaults /\ faults' = faults + 1
    /\ parted' = (parted \/ proc[p].pushed)
    /\ proc' = [proc EXCEPT ![p] = Idle]
    /\ UNCHANGED <<db, live, legacy, edits>>

Commit(p) ==
    /\ proc[p].at = "pushing" /\ proc[p].todo = <<>>
    /\ db' = Write(db, ToSet(proc[p].writes))
    /\ legacy' = IF proc[p].op.kind = "adopt" THEN {o \in legacy : ~db'.obj[o].exists} ELSE legacy
    /\ proc' = [proc EXCEPT ![p] = Idle]
    /\ UNCHANGED <<live, parted, edits, faults>>

----------------------------------------------------------------------------
\* A new cluster, or one from before with an account, a group that has it and a list that mails it.
Init ==
    /\ \E old \in BOOLEAN :
        /\ live = IF old THEN [obj |-> [o \in Objects |-> Present(IF o = Group THEN {Alias} ELSE {})], member |-> TRUE,
                               rcpt |-> [e \in Recipients |-> "on"]]
                  ELSE Empty
        /\ legacy = IF old THEN Objects ELSE {}
    /\ db = Empty /\ proc = [p \in Requests |-> Idle] /\ parted = FALSE /\ edits = 0 /\ faults = 0

Next ==
    \E p \in Requests :
        \/ \E op \in Ops : Ask(p, op)
        \/ Begin(p) \/ Push(p) \/ Crash(p) \/ Commit(p)
        \/ \E effect \in BOOLEAN : Fail(p, effect)

Spec == Init /\ [][Next]_vars

----------------------------------------------------------------------------
Releases(p) == proc[p].op.kind = "delete" \/ (proc[p].op.kind = "alias" /\ ~proc[p].op.on)

\* An address is the address or an alias of one object at most, over requests that check it at the
\* same time, at every moment but while one lets an address go, which leaves the cluster before its
\* row (assert_address_available; a refusal of the cluster rolls the second request back).
AddressHeldOnce ==
    ~parted /\ (\A p \in Requests : ~Releases(p)) =>
        \A o, other \in Objects : o # other => HeldBy(db, o) \cap HeldBy(db, other) = {}

\* With nothing under way the cluster has what the rows say: objects, aliases, membership and the
\* enabled recipients, over deletions, failed creations and adoption, unless a request rolled back
\* with pushes done that nothing takes back (sync.py, push_recipient_changes, GroupService.delete).
DirectoryFollows ==
    (\A p \in Requests : proc[p] = Idle) /\ ~parted =>
        /\ \A o \in Objects \ legacy : live.obj[o] = db.obj[o]
        /\ legacy = {} => live.member = db.member
        /\ List \notin legacy => \A e \in Recipients : live.rcpt[e] = "on" <=> db.rcpt[e] = "on"
=============================================================================
