------------------------------- MODULE MCMail -------------------------------
(* Three parts of a tenant's mail that share no variable: what its         *)
(* accounts may send (SendingLimits, extended here, with runs of its own), *)
(* the credentials of an account and the objects of its directory          *)
(* (instantiated). A behaviour exercises one of them, chosen at its start; *)
(* the rest stays where it began.                                          *)
EXTENDS MCSendingLimits, Sequences

CONSTANTS Requests, NoRequest, Limit, MaxIds, MaxEdits, MaxFaults,
          Mailbox, Group, List, Alias, Outside, MaxRequests

VARIABLES part,
          row, box, made, handed, lock, proc, parted, lost, overlaid, edits, faults,
          db, cluster, legacy, request, broken, asked, failures

A == INSTANCE MailAccounts WITH live <- box

D == INSTANCE MailDirectory WITH
        Account <- Mailbox, MaxEdits <- MaxRequests,
        live <- cluster, proc <- request, parted <- broken, edits <- asked, faults <- failures

ASSUME AccountConstants ==
    /\ NoRequest \notin Requests
    /\ {Limit, MaxIds} \subseteq Nat \ {0} /\ {MaxEdits, MaxFaults} \subseteq Nat

ASSUME DirectoryConstants ==
    /\ Mailbox \notin {Group, List, Alias} /\ Group \notin {List, Alias} /\ List # Alias

credentials == <<row, box, made, handed, lock, proc, parted, lost, overlaid, edits, faults>>
directory == <<db, cluster, legacy, request, broken, asked, failures>>

MCInit ==
    /\ part \in {"sending", "account", "directory"} /\ Init /\ A!Init /\ D!Init
    /\ part # "sending" => \A a \in Accounts : account[a] = CHOOSE limits \in Limits : TRUE
    /\ part # "account" => ~row.exists
    /\ part # "directory" => legacy = {}

MCNext ==
    \/ part = "sending" /\ Next /\ UNCHANGED <<part, credentials, directory>>
    \/ part = "account" /\ A!Next /\ UNCHANGED <<part, vars, directory>>
    \/ part = "directory" /\ D!Next /\ UNCHANGED <<part, vars, credentials>>

MCSpec == MCInit /\ [][MCNext]_<<part, vars, credentials, directory>>

RequestSymmetry == Permutations(Requests)

\* With no save under way the cluster has the account as the row says, over inserts that fail half
\* way, unless a save of several pushes ended between two of them (on_update, after_insert).
AccountFollows == A!AccountFollows

\* With no save under way every credential that Suite Cloud made is on the account's list or its
\* revocation was lost, and once one was handed out the list has one login, that one, unless a form
\* wrote its list beside another request (push_kind, refresh).
CredentialsFollow == A!CredentialsFollow

\* The tenant is never without a login: the one last handed out works at every moment, between the
\* steps of a rotation too (rotate_site_login, push_kind).
LoginAnswers == A!LoginAnswers

\* An address belongs to one object at most, over requests that check it at the same time, outside
\* requests that let one go (assert_address_available).
AddressHeldOnce == D!AddressHeldOnce

\* With nothing under way the cluster has the objects, aliases, members and recipients of the rows,
\* unless a request rolled back with pushes done that nothing takes back (sync.py).
DirectoryFollows == D!DirectoryFollows
=============================================================================
