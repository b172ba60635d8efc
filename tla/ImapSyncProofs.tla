---------------------------- MODULE ImapSyncProofs ----------------------------
(***************************************************************************)
(* Proofs of the safety of module ImapSync, for every value of its         *)
(* constants.                                                              *)
(***************************************************************************)
EXTENDS ImapSync, FiniteSetTheorems, TLAPS

(* What a run carries.  It starts before now; its window never opens       *)
(* before the configuration, which is there and stays; the e-mails it      *)
(* found are in the mailbox, and the one at work is in the window; and     *)
(* among the e-mails it has the access ImportNeedsAccess speaks of.        *)
Working == {"extract", "number", "create"}

RunIsBacked(q) ==
    /\ q.pc # "idle" => q.user \in Users /\ q.started <= now
    /\ q.pc \notin {"idle", "manual"} =>
        config[q.user] # None /\ config[q.user].createdAt <= q.since
    /\ q.pc \notin {"idle", "manual", "access"} =>
        access[q.user].state # "none" /\ q.started < access[q.user].until
    /\ q.pc \in {"email"} \cup Working =>
        \A e \in q.todo : /\ inbox[q.user][e] # None
                          /\ Day(inbox[q.user][e].arrived) >= Day(q.since)
    /\ q.pc \in Working =>
        /\ q.email \in Emails
        /\ inbox[q.user][q.email] # None
        /\ IsSince(inbox[q.user][q.email], q.since)
    /\ q.pc = "record" => config[q.user].createdAt <= q.done

SetterIsBacked(q) ==
    /\ q.pc # "idle" => q.user \in Users
    /\ q.pc = "resave" => config[q.user] # None

(* lastSync, when there is one, is not before the configuration.           *)
ConfigIsInOrder(u) ==
    config[u] # None =>
        /\ config[u].createdAt <= now
        /\ config[u].lastSync # None => config[u].createdAt <= config[u].lastSync

(* The message of an imported invoice stays in the mailbox.                *)
ImportIsInOrder(i) ==
    invoice[i] # None =>
        LET u == invoice[i].user
            e == invoice[i].email
        IN  /\ config[u] # None
            /\ inbox[u][e] # None
            /\ IsSince(inbox[u][e], config[u].createdAt)

(* The runs that may still import an e-mail.  One joins them only while    *)
(* nobody has imported it, and leaves them when it does.                   *)
Importing(e) == {r \in Runs : run[r].pc \in Working /\ run[r].email = e}
ImportsAreCounted(e) ==
    Cardinality(Naming(e)) + Cardinality(Importing(e)) <= Cardinality(Runs)

SyncInv ==
    /\ TypeOK
    /\ \A r \in Runs : RunIsBacked(run[r])
    /\ \A h \in Setters : SetterIsBacked(setter[h])
    /\ \A u \in Users : ConfigIsInOrder(u)
    /\ \A i \in InvoiceIds : ImportIsInOrder(i)
    /\ \A e \in Emails : ImportsAreCounted(e)

(* Time passes, messages and configurations stay, access is granted once.  *)
SyncGrows ==
    /\ now <= now'
    /\ \A u \in Users : config[u] # None =>
            config'[u] # None /\ config'[u].createdAt = config[u].createdAt
    /\ \A u \in Users, e \in Emails : inbox[u][e] # None => inbox'[u][e] = inbox[u][e]
    /\ \A u \in Users : access[u].state # "none" =>
            access'[u].state # "none" /\ access'[u].until = access[u].until

(* A later day is not an earlier one, so a window that opens earlier holds *)
(* whatever a later one holds.                                             *)
LEMMA DaysPass ==
  ASSUME NEW s \in Nat, NEW t \in Nat, s <= t
  PROVE  Day(s) <= Day(t) /\ Day(s) \in Int /\ Day(t) \in Int
<1> USE ImapAssumption
<1>d. DayLength \in Nat \ {0} OBVIOUS
<1> DEFINE a == s \div DayLength
           b == t \div DayLength
<1>1. /\ a \in Int /\ b \in Int
      /\ DayLength * a <= s /\ t < DayLength * b + DayLength
  BY <1>d
<1> HIDE DEF a, b
<1>2. a <= b
  <2>1. SUFFICES ASSUME b + 1 <= a PROVE FALSE BY <1>1
  <2>2. DayLength * (b + 1) <= DayLength * a BY <1>1, <1>d, <2>1
  <2>3. DayLength * (b + 1) = DayLength * b + DayLength BY <1>1, <1>d
  <2>4. DayLength * a \in Int /\ DayLength * b \in Int BY <1>1, <1>d
  <2>q. QED BY <1>1, <1>d, <2>2, <2>3, <2>4
<1>q. QED BY <1>1, <1>2 DEF Day, a, b

LEMMA SinceEarlier ==
  ASSUME NEW m \in Message, NEW s \in Nat, NEW t \in Nat, s <= t, IsSince(m, t)
  PROVE  IsSince(m, s)
<1>1. m.date \in Nat \cup {None} /\ m.arrived \in Nat BY DEF Message
<1>2. Day(s) <= Day(t) /\ Day(s) \in Int /\ Day(t) \in Int BY DaysPass
<1>3. Day(m.arrived) \in Int BY <1>1, DaysPass
<1>q. QED BY <1>1, <1>2, <1>3 DEF IsSince

LEMMA RunStaysBacked ==
  ASSUME TypeOK, TypeOK', SyncGrows, NEW q \in Run, RunIsBacked(q)
  PROVE  RunIsBacked(q)'
<1>1. /\ now \in Nat /\ now' \in Nat /\ now <= now' BY ImapAssumption DEF TypeOK, SyncGrows
<1>2. /\ q.started \in Nat /\ q.since \in Nat /\ q.done \in Nat /\ q.todo \in SUBSET Emails
  BY DEF Run
<1>3. q.pc # "idle" => q.user \in Users /\ q.started <= now'
  BY <1>1, <1>2 DEF RunIsBacked
<1>4. q.pc # "idle" => \A e \in Emails : inbox[q.user][e] # None =>
                                            inbox'[q.user][e] = inbox[q.user][e]
  BY <1>3 DEF SyncGrows
<1>5. q.pc # "idle" => /\ config[q.user] # None =>
                            /\ config'[q.user] # None
                            /\ config'[q.user].createdAt = config[q.user].createdAt
                       /\ access[q.user].state # "none" =>
                            /\ access'[q.user].state # "none"
                            /\ access'[q.user].until = access[q.user].until
  BY <1>3 DEF SyncGrows
<1>6. q.pc \notin {"idle", "manual"} =>
        config'[q.user] # None /\ config'[q.user].createdAt <= q.since
  BY <1>5 DEF RunIsBacked
<1>7. q.pc \notin {"idle", "manual", "access"} =>
        access'[q.user].state # "none" /\ q.started < access'[q.user].until
  BY <1>5 DEF RunIsBacked
<1>8. q.pc \in {"email"} \cup Working =>
        \A e \in q.todo : /\ inbox'[q.user][e] # None
                          /\ Day(inbox'[q.user][e].arrived) >= Day(q.since)
  BY <1>2, <1>4 DEF RunIsBacked, Working
<1>9. q.pc \in Working => /\ q.email \in Emails
                          /\ inbox'[q.user][q.email] # None
                          /\ IsSince(inbox'[q.user][q.email], q.since)
  BY <1>4 DEF RunIsBacked, Working
<1>10. q.pc = "record" => config'[q.user].createdAt <= q.done
  BY <1>5 DEF RunIsBacked
<1>q. QED BY <1>3, <1>6, <1>7, <1>8, <1>9, <1>10 DEF RunIsBacked

LEMMA SetterStaysBacked ==
  ASSUME SyncGrows, NEW q, SetterIsBacked(q)
  PROVE  SetterIsBacked(q)'
  BY DEF SetterIsBacked, SyncGrows

(* A step that keeps the invariant but for the counts.                     *)
LEMMA SyncMove ==
  ASSUME SyncInv, TypeOK', SyncGrows,
         \A r \in Runs : run'[r] = run[r] \/ RunIsBacked(run[r])',
         \A h \in Setters : setter'[h] = setter[h] \/ SetterIsBacked(setter[h])',
         \A u \in Users : config'[u] = config[u] \/ ConfigIsInOrder(u)',
         \A i \in InvoiceIds : invoice'[i] = invoice[i] \/ ImportIsInOrder(i)',
         \A e \in Emails : ImportsAreCounted(e)'
  PROVE  SyncInv'
<1>t. TypeOK BY DEF SyncInv
<1>1. ASSUME NEW r \in Runs PROVE RunIsBacked(run[r])'
  <2>1. CASE run'[r] = run[r]
    <3>1. PICK q : q = run[r] OBVIOUS
    <3>2. q \in Run /\ RunIsBacked(q) BY <3>1 DEF SyncInv, TypeOK
    <3>3. RunIsBacked(q)' BY <1>t, <3>2, RunStaysBacked
    <3>q. QED BY <2>1, <3>1, <3>3
  <2>q. QED BY <2>1
<1>2. ASSUME NEW h \in Setters PROVE SetterIsBacked(setter[h])'
  <2>1. CASE setter'[h] = setter[h]
    <3>1. PICK q : q = setter[h] OBVIOUS
    <3>2. SetterIsBacked(q) BY <3>1 DEF SyncInv
    <3>3. SetterIsBacked(q)' BY <3>2, SetterStaysBacked
    <3>q. QED BY <2>1, <3>1, <3>3
  <2>q. QED BY <2>1
<1>3. ASSUME NEW u \in Users PROVE ConfigIsInOrder(u)'
  <2>1. CASE config'[u] = config[u]
    <3>1. now \in Nat /\ now' \in Nat /\ now <= now' BY ImapAssumption DEF SyncInv, TypeOK, SyncGrows
    <3>2. config[u] # None => config[u].createdAt \in Nat BY <1>t DEF TypeOK, Config
    <3>3. ConfigIsInOrder(u) BY DEF SyncInv
    <3>q. QED BY <2>1, <3>1, <3>2, <3>3 DEF ConfigIsInOrder
  <2>q. QED BY <2>1
<1>4. ASSUME NEW i \in InvoiceIds PROVE ImportIsInOrder(i)'
  <2>1. CASE invoice'[i] = invoice[i] /\ invoice[i] # None
    <3>1. invoice[i] \in Invoice BY <1>t, <2>1 DEF TypeOK
    <3>2. invoice[i].user \in Users /\ invoice[i].email \in Emails BY <3>1 DEF Invoice
    <3>3. ImportIsInOrder(i) BY DEF SyncInv
    <3>q. QED BY <2>1, <3>2, <3>3 DEF ImportIsInOrder, SyncGrows
  <2>2. CASE invoice'[i] = None BY <2>2 DEF ImportIsInOrder
  <2>q. QED BY <2>1, <2>2
<1>q. QED BY <1>1, <1>2, <1>3, <1>4 DEF SyncInv

-----------------------------------------------------------------------------
(* Counting.                                                               *)

RunsAreFinite == IsFiniteSet(Runs) /\ Cardinality(Runs) \in Nat

LEMMA RunsFinite == RunsAreFinite
  BY ImapAssumption, FS_Union, FS_CardinalityType DEF Runs, RunsAreFinite

LEMMA ImportCount ==
  ASSUME NEW S \in SUBSET InvoiceIds
  PROVE  IsFiniteSet(S) /\ Cardinality(S) \in Nat
<1>1. IsFiniteSet(InvoiceIds) BY ImapAssumption, FS_Interval DEF InvoiceIds
<1>q. QED BY <1>1, FS_Subset, FS_CardinalityType

LEMMA RunCount ==
  ASSUME NEW S \in SUBSET Runs
  PROVE  IsFiniteSet(S) /\ Cardinality(S) \in Nat /\ Cardinality(S) <= Cardinality(Runs)
  BY RunsFinite, FS_Subset, FS_CardinalityType DEF RunsAreFinite

(* Nobody imported the e-mail, nor comes to.                               *)
LEMMA CountIsKept ==
  ASSUME NEW e, ImportsAreCounted(e), Naming(e)' \subseteq Naming(e),
         Importing(e)' \subseteq Importing(e)
  PROVE  ImportsAreCounted(e)'
<1> DEFINE n == Cardinality(Naming(e))
           n2 == Cardinality(Naming(e)')
           m == Cardinality(Importing(e))
           m2 == Cardinality(Importing(e)')
           R == Cardinality(Runs)
<1>1. Naming(e) \in SUBSET InvoiceIds /\ Naming(e)' \in SUBSET InvoiceIds BY DEF Naming
<1>2. Importing(e) \in SUBSET Runs /\ Importing(e)' \in SUBSET Runs BY DEF Importing
<1>3. n \in Nat /\ n2 \in Nat /\ n2 <= n
  <2>1. IsFiniteSet(Naming(e)) /\ n \in Nat /\ n2 \in Nat BY <1>1, ImportCount
  <2>q. QED BY <2>1, FS_Subset
<1>4. m \in Nat /\ m2 \in Nat /\ m2 <= m
  <2>1. IsFiniteSet(Importing(e)) /\ m \in Nat /\ m2 \in Nat BY <1>2, RunCount
  <2>q. QED BY <2>1, FS_Subset
<1>5. R \in Nat BY RunsFinite DEF RunsAreFinite
<1>6. n + m <= R BY DEF ImportsAreCounted
<1> HIDE DEF n, n2, m, m2, R
<1>7. n2 + m2 <= R BY <1>3, <1>4, <1>5, <1>6
<1>q. QED BY <1>7 DEF ImportsAreCounted, n2, m2, R

LEMMA CountsAreKept ==
  ASSUME SyncInv, invoice' = invoice,
         \A r \in Runs : run'[r].pc \in Working =>
            run[r].pc \in Working /\ run'[r].email = run[r].email
  PROVE  \A e \in Emails : ImportsAreCounted(e)'
<1> SUFFICES ASSUME NEW e \in Emails PROVE ImportsAreCounted(e)'
  OBVIOUS
<1>1. Naming(e)' = Naming(e) BY DEF Naming
<1>2. Importing(e)' \subseteq Importing(e) BY DEF Importing
<1>q. QED BY <1>1, <1>2, CountIsKept DEF SyncInv
-----------------------------------------------------------------------------
(* A run goes on, and nothing but faults changes besides.                  *)
Tables == <<now, access, inbox, config, cron, invoice, setter, boot>>

LEMMA TablesStay ==
  ASSUME SyncInv, UNCHANGED Tables
  PROVE  /\ SyncGrows
         /\ UNCHANGED <<now, access, inbox, config, cron, invoice, setter, boot>>
<1>1. UNCHANGED <<now, access, inbox, config, cron, invoice, setter, boot>> BY DEF Tables
<1>2. now \in Nat BY ImapAssumption DEF SyncInv, TypeOK
<1>q. QED BY <1>1, <1>2 DEF SyncGrows

LEMMA RunMoves ==
  ASSUME SyncInv, NEW r \in Runs, NEW q \in Run, run' = [run EXCEPT ![r] = q],
         UNCHANGED Tables, faults' \in 0..MaxFaults, RunIsBacked(q),
         q.pc \in Working => run[r].pc \in Working /\ q.email = run[r].email
  PROVE  SyncInv'
<1>1. SyncGrows /\ UNCHANGED <<now, access, inbox, config, cron, invoice, setter, boot>>
  BY TablesStay
<1>2. TypeOK' BY <1>1 DEF SyncInv, TypeOK
<1>3. run'[r] = q /\ \A s \in Runs \ {r} : run'[s] = run[s] BY DEF SyncInv, TypeOK
<1>t. TypeOK BY DEF SyncInv
<1>4. RunIsBacked(q)' BY <1>t, <1>1, <1>2, RunStaysBacked
<1>5. \A s \in Runs : run'[s] = run[s] \/ RunIsBacked(run[s])' BY <1>3, <1>4
<1>6. \A e \in Emails : ImportsAreCounted(e)' BY <1>1, <1>3, CountsAreKept
<1>q. QED BY <1>1, <1>2, <1>5, <1>6, SyncMove

LEMMA NoRunIsBacked == NoRun \in Run /\ RunIsBacked(NoRun) /\ NoRun.pc = "idle"
  BY ImapAssumption DEF NoRun, Run, RunIsBacked, Working

LEMMA RunLeaves ==
  ASSUME SyncInv, NEW r \in Runs, Leave(r), UNCHANGED Tables, faults' \in 0..MaxFaults
  PROVE  SyncInv'
  BY NoRunIsBacked, RunMoves DEF Leave, Working

LEMMA RunTypes ==
  ASSUME SyncInv, NEW r \in Runs
  PROVE  /\ run[r] \in Run /\ RunIsBacked(run[r])
         /\ faults \in 0..MaxFaults /\ now \in Nat
         /\ run[r].pc # "idle" => run[r].user \in Users
  BY ImapAssumption DEF SyncInv, TypeOK, RunIsBacked

(* The window of a configuration does not open before it.                  *)
LEMMA WindowIsLater ==
  ASSUME SyncInv, NEW u \in Users, config[u] # None
  PROVE  /\ Window(u) \in Nat /\ config[u].createdAt <= Window(u)
         /\ config[u].createdAt \in Nat
<1>1. config[u] \in Config BY DEF SyncInv, TypeOK
<1>2. ConfigIsInOrder(u) BY DEF SyncInv
<1>q. QED BY <1>1, <1>2 DEF ConfigIsInOrder, Window, Config

LEMMA RunBegins ==
  ASSUME SyncInv, NEW r \in Runs, NEW u \in Users, UNCHANGED <<Tables, faults>>,
         \/ RunSyncJob(r, u)
         \/ SyncEmails(r, u)
         \/ ReadEmailTransactions(r, u)
  PROVE  SyncInv'
<1>t. now \in Nat /\ faults \in 0..MaxFaults BY ImapAssumption DEF SyncInv, TypeOK
<1>1. ASSUME NEW kind \in {"cron", "manual", "read"}, NEW since \in Nat,
             config[u] # None, config[u].createdAt <= since, Begin(r, u, kind, since)
      PROVE  SyncInv'
  <2> DEFINE q == [NoRun EXCEPT !.pc = "access", !.user = u, !.kind = kind,
                                !.started = now, !.since = since]
  <2>1. q \in Run /\ q.pc = "access" /\ q.user = u /\ q.started = now /\ q.since = since
    BY <1>t, NoRunIsBacked DEF Run
  <2>2. run' = [run EXCEPT ![r] = q] BY <1>1 DEF Begin
  <2> HIDE DEF q
  <2>3. RunIsBacked(q) BY <1>t, <1>1, <2>1 DEF RunIsBacked, Working
  <2>q. QED BY <1>t, <2>1, <2>2, <2>3, RunMoves DEF Working
<1>2. CASE RunSyncJob(r, u) BY <1>1, <1>2, WindowIsLater DEF RunSyncJob
<1>3. CASE SyncEmails(r, u)
  <2> DEFINE q == [NoRun EXCEPT !.pc = "manual", !.user = u, !.kind = "manual",
                                !.started = now]
  <2>1. q \in Run /\ q.pc = "manual" /\ q.user = u /\ q.started = now
    BY <1>t, NoRunIsBacked DEF Run
  <2>2. run' = [run EXCEPT ![r] = q] BY <1>3 DEF SyncEmails
  <2> HIDE DEF q
  <2>3. RunIsBacked(q) BY <1>t, <2>1 DEF RunIsBacked, Working
  <2>q. QED BY <1>t, <2>1, <2>2, <2>3, RunMoves DEF Working
<1>4. CASE ReadEmailTransactions(r, u)
  <2>1. config[u] # None /\ config[u].createdAt \in Nat
    BY <1>4, WindowIsLater DEF ReadEmailTransactions
  <2>2. config[u].createdAt <= config[u].createdAt BY <2>1
  <2>q. QED BY <1>1, <1>4, <2>1, <2>2 DEF ReadEmailTransactions
<1>q. QED BY <1>2, <1>3, <1>4

LEMMA RunGetsAccess ==
  ASSUME SyncInv, NEW r \in Runs, UNCHANGED <<Tables, faults>>,
         SyncReadConfig(r) \/ CheckUserAccess(r) \/ ImapClient(r)
  PROVE  SyncInv'
<1>t. /\ run[r] \in Run /\ RunIsBacked(run[r]) /\ faults \in 0..MaxFaults /\ now \in Nat
      /\ run[r].pc # "idle" => run[r].user \in Users
      /\ run \in [Runs -> Run]
  BY RunTypes DEF SyncInv, TypeOK
<1>1. CASE SyncReadConfig(r)
  <2>1. CASE SyncConfigured(run[r].user)
    <3> DEFINE w == Window(run[r].user)
               q == [run[r] EXCEPT !.pc = "access", !.since = w]
    <3>1. /\ run[r].pc = "manual" /\ run[r].user \in Users
          /\ config[run[r].user] # None
          /\ w \in Nat /\ config[run[r].user].createdAt <= w
      BY <1>1, <1>t, <2>1, WindowIsLater DEF SyncReadConfig, SyncConfigured
    <3>2. run' = [run EXCEPT ![r].pc = "access", ![r].since = w]
      BY <1>1, <2>1 DEF SyncReadConfig
    <3> HIDE DEF w
    <3>3. run' = [run EXCEPT ![r] = q] BY <1>t, <3>2
    <3>4. /\ q \in Run /\ q.pc = "access" /\ q.user = run[r].user
          /\ q.started = run[r].started /\ q.since = w
      BY <1>t, <3>1 DEF Run
    <3> HIDE DEF q
    <3>5. RunIsBacked(q) BY <1>t, <3>1, <3>4 DEF RunIsBacked, Working
    <3>q. QED BY <1>t, <3>3, <3>4, <3>5, RunMoves DEF Working
  <2>2. CASE Leave(r) BY <1>t, <2>2, RunLeaves
  <2>q. QED BY <1>1, <2>1, <2>2 DEF SyncReadConfig
<1>2. CASE CheckUserAccess(r)
  <2>1. CASE Entitled(run[r].user) /\ Move(r, "connect")
    <3> DEFINE q == [run[r] EXCEPT !.pc = "connect"]
    <3>1. run' = [run EXCEPT ![r] = q] BY <2>1 DEF Move
    <3>2. run[r].pc = "access" BY <1>2 DEF CheckUserAccess, CheckAccess
    <3>3. /\ q \in Run /\ q.pc = "connect" /\ q.user = run[r].user
          /\ q.started = run[r].started /\ q.since = run[r].since
      BY <1>t DEF Run
    <3>4. /\ access[run[r].user].state = "active" /\ access[run[r].user].until > now
          /\ access[run[r].user].until \in Nat /\ run[r].started \in Nat
      BY <1>t, <2>1, <3>2 DEF Entitled, Active, SyncInv, TypeOK, Run
    <3> HIDE DEF q
    <3>5. RunIsBacked(q) BY <1>t, <3>2, <3>3, <3>4 DEF RunIsBacked, Working
    <3>q. QED BY <1>t, <3>1, <3>3, <3>5, RunMoves DEF Working
  <2>2. CASE Leave(r) BY <1>t, <2>2, RunLeaves
  <2>q. QED BY <1>2, <2>1, <2>2 DEF CheckUserAccess, CheckAccess
<1>3. CASE ImapClient(r)
  <2> DEFINE q == [run[r] EXCEPT !.pc = "search"]
  <2>1. run' = [run EXCEPT ![r] = q] BY <1>3 DEF ImapClient, Move
  <2>2. run[r].pc = "connect" BY <1>3 DEF ImapClient
  <2>3. /\ q \in Run /\ q.pc = "search" /\ q.user = run[r].user
        /\ q.started = run[r].started /\ q.since = run[r].since
    BY <1>t DEF Run
  <2> HIDE DEF q
  <2>4. RunIsBacked(q) BY <1>t, <2>2, <2>3 DEF RunIsBacked, Working
  <2>q. QED BY <1>t, <2>1, <2>3, <2>4, RunMoves DEF Working
<1>q. QED BY <1>1, <1>2, <1>3

(* Among the e-mails a run keeps its user, its start and its window.       *)
LEMMA RunGoesOn ==
  ASSUME SyncInv, NEW r \in Runs, NEW q,
         run[r].pc \notin {"idle", "manual", "access"},
         q.pc \notin {"idle", "manual", "access", "record"},
         q.user = run[r].user, q.started = run[r].started, q.since = run[r].since,
         q.pc \in {"email"} \cup Working =>
            \A e \in q.todo : /\ inbox[run[r].user][e] # None
                              /\ Day(inbox[run[r].user][e].arrived) >= Day(run[r].since),
         q.pc \in Working => /\ q.email \in Emails
                             /\ inbox[run[r].user][q.email] # None
                             /\ IsSince(inbox[run[r].user][q.email], run[r].since)
  PROVE  RunIsBacked(q)
<1>1. RunIsBacked(run[r]) BY RunTypes
<1>q. QED BY <1>1 DEF RunIsBacked, Working

LEMMA RunSearches ==
  ASSUME SyncInv, NEW r \in Runs, UNCHANGED <<Tables, faults>>,
         Search(r) \/ NextKeyword(r)
  PROVE  SyncInv'
<1>t. /\ run[r] \in Run /\ RunIsBacked(run[r]) /\ faults \in 0..MaxFaults
      /\ run \in [Runs -> Run]
  BY RunTypes DEF SyncInv, TypeOK
<1>1. CASE Search(r)
  <2> DEFINE box == inbox[run[r].user]
             found == {e \in Emails : /\ box[e] # None
                                      /\ run[r].keyword \in Matching[e]
                                      /\ Day(box[e].arrived) >= Day(run[r].since)}
             q == [run[r] EXCEPT !.pc = "email", !.todo = found]
  <2>1. run[r].pc = "search" /\ run' = [run EXCEPT ![r].pc = "email", ![r].todo = found]
    BY <1>1 DEF Search
  <2>2. /\ found \in SUBSET Emails
        /\ \A e \in found : /\ inbox[run[r].user][e] # None
                            /\ Day(inbox[run[r].user][e].arrived) >= Day(run[r].since)
    OBVIOUS
  <2> HIDE DEF found
  <2>3. run' = [run EXCEPT ![r] = q] BY <1>t, <2>1
  <2>4. /\ q \in Run /\ q.pc = "email" /\ q.user = run[r].user /\ q.todo = found
        /\ q.started = run[r].started /\ q.since = run[r].since
    BY <1>t, <2>2 DEF Run
  <2> HIDE DEF q
  <2>5. RunIsBacked(q) BY <2>1, <2>2, <2>4, RunGoesOn DEF Working
  <2>q. QED BY <1>t, <2>3, <2>4, <2>5, RunMoves DEF Working
<1>2. CASE NextKeyword(r)
  <2>1. run[r].pc = "email" BY <1>2 DEF NextKeyword
  <2>2. CASE run[r].keyword = Keywords
    <3> DEFINE q == [run[r] EXCEPT !.pc = "finish"]
    <3>1. run' = [run EXCEPT ![r] = q] BY <1>2, <2>2 DEF NextKeyword
    <3>2. /\ q \in Run /\ q.pc = "finish" /\ q.user = run[r].user
          /\ q.started = run[r].started /\ q.since = run[r].since
      BY <1>t DEF Run
    <3> HIDE DEF q
    <3>3. RunIsBacked(q) BY <2>1, <3>2, RunGoesOn DEF Working
    <3>q. QED BY <1>t, <3>1, <3>2, <3>3, RunMoves DEF Working
  <2>3. CASE run[r].keyword # Keywords
    <3> DEFINE q == [run[r] EXCEPT !.pc = "search", !.keyword = run[r].keyword + 1]
    <3>1. run' = [run EXCEPT ![r] = q] BY <1>2, <2>3 DEF NextKeyword
    <3>2. run[r].keyword + 1 \in 1..Keywords
      <4>1. run[r].keyword \in 1..Keywords /\ Keywords \in Nat
        BY <1>t, ImapAssumption DEF Run
      <4>q. QED BY <2>3, <4>1
    <3>3. /\ q \in Run /\ q.pc = "search" /\ q.user = run[r].user
          /\ q.started = run[r].started /\ q.since = run[r].since
      BY <1>t, <3>2 DEF Run
    <3> HIDE DEF q
    <3>4. RunIsBacked(q) BY <2>1, <3>3, RunGoesOn DEF Working
    <3>q. QED BY <1>t, <3>1, <3>3, <3>4, RunMoves DEF Working
  <2>q. QED BY <2>2, <2>3
<1>q. QED BY <1>1, <1>2

(* The e-mail is taken up only if nobody has imported it: one more may     *)
(* import it now.                                                          *)
LEMMA RunExamines ==
  ASSUME SyncInv, NEW r \in Runs, ExamineEmail(r)
  PROVE  SyncInv'
<1>t. /\ run[r] \in Run /\ RunIsBacked(run[r]) /\ faults \in 0..MaxFaults
      /\ run \in [Runs -> Run]
  BY RunTypes DEF SyncInv, TypeOK
<1>1. PICK e \in run[r].todo :
        run' = [run EXCEPT ![r] =
                  IF e \in TooOld(r) \cup Known(r) THEN [run[r] EXCEPT !.todo = @ \ {e}]
                  ELSE [run[r] EXCEPT !.pc = "extract", !.todo = @ \ {e},
                                      !.email = e, !.pdfs = Pdfs[e]]]
  BY DEF ExamineEmail, Examine
<1>2. run[r].pc = "email" /\ UNCHANGED <<Tables, faults>>
  BY DEF ExamineEmail, Examine, Tables
<1>3. e \in Emails /\ run[r].todo \in SUBSET Emails /\ Pdfs[e] \in SUBSET Numbers
  BY <1>t, ImapAssumption DEF Run
<1>4. \A f \in run[r].todo : /\ inbox[run[r].user][f] # None
                             /\ Day(inbox[run[r].user][f].arrived) >= Day(run[r].since)
  BY <1>t, <1>2 DEF RunIsBacked
<1>5. CASE e \in TooOld(r) \cup Known(r)
  <2> DEFINE q == [run[r] EXCEPT !.todo = run[r].todo \ {e}]
  <2>1. run' = [run EXCEPT ![r] = q] BY <1>1, <1>5
  <2>2. /\ q \in Run /\ q.pc = "email" /\ q.user = run[r].user /\ q.todo = run[r].todo \ {e}
        /\ q.started = run[r].started /\ q.since = run[r].since
    BY <1>t, <1>2, <1>3 DEF Run
  <2> HIDE DEF q
  <2>3. RunIsBacked(q) BY <1>2, <1>4, <2>2, RunGoesOn DEF Working
  <2>q. QED BY <1>t, <1>2, <2>1, <2>2, <2>3, RunMoves DEF Working
<1>6. CASE e \notin TooOld(r) \cup Known(r)
  <2> DEFINE q == [run[r] EXCEPT !.pc = "extract", !.todo = run[r].todo \ {e}, !.email = e,
                                 !.pdfs = Pdfs[e]]
  <2>1. run' = [run EXCEPT ![r] = q] BY <1>1, <1>6
  <2>2. /\ q \in Run /\ q.pc = "extract" /\ q.user = run[r].user /\ q.email = e
        /\ q.todo = run[r].todo \ {e}
        /\ q.started = run[r].started /\ q.since = run[r].since
    BY <1>t, <1>3 DEF Run
  <2> HIDE DEF q
  <2>3. /\ Naming(e) = {}
        /\ inbox[run[r].user][e].date # None => ~(inbox[run[r].user][e].date < run[r].since)
    BY <1>6 DEF TooOld, Known, Dated
  <2>4. IsSince(inbox[run[r].user][e], run[r].since)
    <3>1. inbox[run[r].user][e] \in Message
      <4>1. run[r].user \in Users BY <1>t, <1>2 DEF RunIsBacked
      <4>q. QED BY <1>3, <1>4, <4>1 DEF SyncInv, TypeOK
    <3>2. inbox[run[r].user][e].date \in Nat \cup {None} /\ run[r].since \in Nat
      BY <1>t, <3>1 DEF Message, Run
    <3>q. QED BY <1>4, <2>3, <3>2 DEF IsSince
  <2>5. RunIsBacked(q) BY <1>2, <1>3, <1>4, <2>2, <2>4, RunGoesOn DEF Working
  <2>6. SyncGrows /\ UNCHANGED <<now, access, inbox, config, cron, invoice, setter, boot>>
    BY <1>2, TablesStay
  <2>7. TypeOK' BY <1>2, <2>1, <2>2, <2>6 DEF SyncInv, TypeOK
  <2>8. run'[r] = q /\ \A s \in Runs \ {r} : run'[s] = run[s] BY <1>t, <2>1
  <2>9. PICK p : p = q OBVIOUS
  <2>10. \A s \in Runs : run'[s] = run[s] \/ RunIsBacked(run[s])'
    <3>1. TypeOK BY DEF SyncInv
    <3>2. RunIsBacked(p)' BY <2>2, <2>5, <2>6, <2>7, <2>9, <3>1, RunStaysBacked
    <3>q. QED BY <2>8, <2>9, <3>2
  <2>11. ASSUME NEW f \in Emails PROVE ImportsAreCounted(f)'
    <3>1. ImportsAreCounted(f) BY DEF SyncInv
    <3>2. Naming(f)' = Naming(f) BY <2>6 DEF Naming
    <3>3. CASE f # e
      <4>1. Importing(f)' \subseteq Importing(f) BY <2>2, <2>8, <3>3 DEF Importing
      <4>q. QED BY <3>1, <3>2, <4>1, CountIsKept
    <3>4. CASE f = e
      <4>1. Naming(f)' = {} BY <2>3, <3>2, <3>4
      <4>2. Importing(f)' \in SUBSET Runs BY DEF Importing
      <4>3. /\ Cardinality(Importing(f)') \in Nat
            /\ Cardinality(Importing(f)') <= Cardinality(Runs)
        BY <4>2, RunCount
      <4>4. Cardinality(Naming(f)') = 0 BY <4>1, FS_EmptySet
      <4>5. Cardinality(Runs) \in Nat BY RunsFinite DEF RunsAreFinite
      <4>q. QED BY <4>3, <4>4, <4>5 DEF ImportsAreCounted
    <3>q. QED BY <3>3, <3>4
  <2>q. QED BY <2>6, <2>7, <2>10, <2>11, SyncMove
<1>q. QED BY <1>5, <1>6

(* While an e-mail is at work, what is to be known of a run is its place.  *)
LEMMA RunWorks ==
  ASSUME SyncInv, NEW r \in Runs, UNCHANGED <<Tables, faults>>, run[r].pc \in Working,
         NEW q \in Run, run' = [run EXCEPT ![r] = q],
         q.pc \in {"finish", "email"} \cup Working,
         q.user = run[r].user, q.started = run[r].started, q.since = run[r].since,
         q.todo = run[r].todo, q.pc \in Working => q.email = run[r].email
  PROVE  SyncInv'
<1>t. RunIsBacked(run[r]) /\ faults \in 0..MaxFaults BY RunTypes
<1>1. RunIsBacked(q) BY <1>t, RunGoesOn DEF RunIsBacked, Working
<1>q. QED BY <1>t, <1>1, RunMoves

LEMMA RunReadsPdfs ==
  ASSUME SyncInv, NEW r \in Runs, ExtractPdf(r) \/ FindNumber(r)
  PROVE  SyncInv'
<1>t. run[r] \in Run /\ run \in [Runs -> Run] BY RunTypes DEF SyncInv, TypeOK
<1>1. CASE ExtractPdf(r)
  <2>1. PICK n \in run[r].pdfs :
        \/ run' = [run EXCEPT ![r].pdfs = @ \ {n}]
        \/ run' = [run EXCEPT ![r].pc = "number", ![r].pdfs = @ \ {n}, ![r].number = n]
    BY <1>1 DEF ExtractPdf
  <2>2. UNCHANGED <<Tables, faults>> /\ run[r].pc = "extract"
    BY <1>1 DEF ExtractPdf, Tables
  <2> DEFINE q == [run[r] EXCEPT !.pdfs = run[r].pdfs \ {n}]
             p == [run[r] EXCEPT !.pc = "number", !.pdfs = run[r].pdfs \ {n}, !.number = n]
  <2>3. run' = [run EXCEPT ![r] = q] \/ run' = [run EXCEPT ![r] = p] BY <1>t, <2>1
  <2>4. /\ q \in Run /\ q.pc = "extract" /\ q.user = run[r].user /\ q.email = run[r].email
        /\ q.started = run[r].started /\ q.since = run[r].since /\ q.todo = run[r].todo
    BY <1>t, <2>2 DEF Run
  <2>5. /\ p \in Run /\ p.pc = "number" /\ p.user = run[r].user /\ p.email = run[r].email
        /\ p.started = run[r].started /\ p.since = run[r].since /\ p.todo = run[r].todo
    BY <1>t DEF Run
  <2> HIDE DEF q, p
  <2>6. CASE run' = [run EXCEPT ![r] = q] BY <2>2, <2>4, <2>6, RunWorks DEF Working
  <2>7. CASE run' = [run EXCEPT ![r] = p] BY <2>2, <2>5, <2>7, RunWorks DEF Working
  <2>q. QED BY <2>3, <2>6, <2>7
<1>2. CASE FindNumber(r)
  <2>1. PICK pc \in {"extract", "create"} : Move(r, pc) BY <1>2 DEF FindNumber
  <2>2. UNCHANGED <<Tables, faults>> /\ run[r].pc = "number"
    BY <1>2 DEF FindNumber, Tables
  <2> DEFINE q == [run[r] EXCEPT !.pc = pc]
  <2>3. run' = [run EXCEPT ![r] = q] BY <2>1 DEF Move
  <2>4. /\ q \in Run /\ q.pc = pc /\ q.user = run[r].user /\ q.email = run[r].email
        /\ q.started = run[r].started /\ q.since = run[r].since /\ q.todo = run[r].todo
    BY <1>t DEF Run
  <2> HIDE DEF q
  <2>q. QED BY <2>1, <2>2, <2>3, <2>4, RunWorks DEF Working
<1>q. QED BY <1>1, <1>2

(* An insert: one import more, and one run less that may import the e-mail.*)
LEMMA RunInserts ==
  ASSUME SyncInv, NEW r \in Runs, NEW number \in Numbers \cup {None}, Insert(r, number),
         run[r].pc \in Working,
         UNCHANGED <<now, access, inbox, config, cron, setter, boot, faults>>
  PROVE  SyncInv'
<1>t. /\ run[r] \in Run /\ RunIsBacked(run[r]) /\ run[r].user \in Users
      /\ run \in [Runs -> Run]
      /\ invoice \in [InvoiceIds -> Invoice \cup {None}]
  BY RunTypes DEF SyncInv, TypeOK, Working
<1> DEFINE new == [user |-> run[r].user, email |-> run[r].email, number |-> number]
           q == [run[r] EXCEPT !.pc = "email", !.email = None, !.pdfs = {},
                               !.number = None, !.created = TRUE]
<1>1. PICK i \in InvoiceIds : /\ invoice[i] = None /\ invoice' = [invoice EXCEPT ![i] = new]
                              /\ run' = [run EXCEPT ![r] = q]
  BY DEF Insert
<1>2. PICK e, u : e = run[r].email /\ u = run[r].user OBVIOUS
<1>3. /\ e \in Emails /\ u \in Users /\ config[u] # None /\ inbox[u][e] # None
      /\ config[u].createdAt <= run[r].since /\ IsSince(inbox[u][e], run[r].since)
  BY <1>t, <1>2 DEF RunIsBacked, Working
<1>4. /\ q \in Run /\ q.pc = "email" /\ q.user = run[r].user /\ q.todo = run[r].todo
      /\ q.started = run[r].started /\ q.since = run[r].since
  BY <1>t DEF Run
<1>5. new \in Invoice /\ new.user = u /\ new.email = e BY <1>2, <1>3 DEF Invoice
<1> HIDE DEF new, q
<1>6. /\ run'[r] = q /\ \A s \in Runs \ {r} : run'[s] = run[s]
      /\ invoice'[i] = new /\ \A j \in InvoiceIds \ {i} : invoice'[j] = invoice[j]
      /\ run' \in [Runs -> Run] /\ invoice' \in [InvoiceIds -> Invoice \cup {None}]
  BY <1>t, <1>1, <1>4, <1>5
<1>7. TypeOK' BY <1>6 DEF SyncInv, TypeOK
<1>8. SyncGrows
  <2>1. now \in Nat BY ImapAssumption DEF SyncInv, TypeOK
  <2>q. QED BY <2>1 DEF SyncGrows
<1>9. \A s \in Runs : run'[s] = run[s] \/ RunIsBacked(run[s])'
  <2>1. RunIsBacked(q) BY <1>t, <1>4, RunGoesOn DEF RunIsBacked, Working
  <2>2. PICK p : p = q OBVIOUS
  <2>3. TypeOK BY DEF SyncInv
  <2>4. RunIsBacked(p)' BY <1>4, <1>7, <1>8, <2>1, <2>2, <2>3, RunStaysBacked
  <2>q. QED BY <1>6, <2>2, <2>4
<1>10. \A j \in InvoiceIds : invoice'[j] = invoice[j] \/ ImportIsInOrder(j)'
  <2>1. IsSince(inbox[u][e], config[u].createdAt)
    <3>1. config[u] \in Config /\ inbox[u][e] \in Message BY <1>3 DEF SyncInv, TypeOK
    <3>2. config[u].createdAt \in Nat /\ run[r].since \in Nat BY <1>t, <3>1 DEF Config, Run
    <3>q. QED BY <1>3, <3>1, <3>2, SinceEarlier
  <2>2. ImportIsInOrder(i)' BY <1>3, <1>5, <1>6, <2>1 DEF ImportIsInOrder
  <2>q. QED BY <1>6, <2>2
<1>11. ASSUME NEW f \in Emails PROVE ImportsAreCounted(f)'
  <2>1. ImportsAreCounted(f) BY DEF SyncInv
  <2>2. CASE f # e
    <3>1. Naming(f)' \subseteq Naming(f) BY <1>5, <1>6, <2>2 DEF Naming
    <3>2. Importing(f)' \subseteq Importing(f)
      BY <1>4, <1>6 DEF Importing, Working
    <3>q. QED BY <2>1, <3>1, <3>2, CountIsKept
  <2>3. CASE f = e
    <3> DEFINE n == Cardinality(Naming(f))
               n2 == Cardinality(Naming(f)')
               m == Cardinality(Importing(f))
               m2 == Cardinality(Importing(f)')
    <3>1. Naming(f)' \subseteq Naming(f) \cup {i} BY <1>6 DEF Naming
    <3>2. r \in Importing(f) /\ Importing(f)' = Importing(f) \ {r}
      BY <1>2, <1>4, <1>6, <2>3 DEF Importing, Working
    <3>3. /\ Naming(f) \in SUBSET InvoiceIds /\ Naming(f)' \in SUBSET InvoiceIds
          /\ Importing(f) \in SUBSET Runs
      BY DEF Naming, Importing
    <3>4. n \in Nat /\ n2 \in Nat /\ n2 <= n + 1
      <4>1. IsFiniteSet(Naming(f)) /\ n \in Nat /\ n2 \in Nat BY <3>3, ImportCount
      <4>2. /\ IsFiniteSet(Naming(f) \cup {i})
            /\ Cardinality(Naming(f) \cup {i}) \in {n, n + 1}
        BY <4>1, FS_AddElement
      <4>3. n2 <= Cardinality(Naming(f) \cup {i}) BY <3>1, <4>2, FS_Subset
      <4> HIDE DEF n, n2
      <4>q. QED BY <4>1, <4>2, <4>3
    <3>5. m \in Nat /\ m2 = m - 1
      <4>1. IsFiniteSet(Importing(f)) /\ m \in Nat BY <3>3, RunCount
      <4>q. QED BY <3>2, <4>1, FS_RemoveElement
    <3>6. n + m <= Cardinality(Runs) BY <2>1 DEF ImportsAreCounted
    <3>7. Cardinality(Runs) \in Nat BY RunsFinite DEF RunsAreFinite
    <3> HIDE DEF n, n2, m, m2
    <3>8. n2 + m2 <= Cardinality(Runs) BY <3>4, <3>5, <3>6, <3>7
    <3>q. QED BY <3>8 DEF ImportsAreCounted, n2, m2
  <2>q. QED BY <2>2, <2>3
<1>q. QED BY <1>7, <1>8, <1>9, <1>10, <1>11, SyncMove

LEMMA RunCreates ==
  ASSUME SyncInv, NEW r \in Runs, CreateInvoice(r) \/ CreateFallback(r)
  PROVE  SyncInv'
<1>t. run[r] \in Run /\ run \in [Runs -> Run] BY RunTypes DEF SyncInv, TypeOK
<1>1. UNCHANGED <<now, access, inbox, config, cron, setter, boot, faults>>
      /\ run[r].pc \in Working
  BY DEF CreateInvoice, CreateFallback, Working
<1>2. CASE \E number \in Numbers \cup {None} : Insert(r, number) BY <1>1, <1>2, RunInserts
<1>3. CASE UNCHANGED invoice /\ \E pc \in {"extract", "finish"} : Move(r, pc)
  <2>1. PICK pc \in {"extract", "finish"} : Move(r, pc) BY <1>3
  <2> DEFINE q == [run[r] EXCEPT !.pc = pc]
  <2>2. run' = [run EXCEPT ![r] = q] BY <2>1 DEF Move
  <2>3. /\ q \in Run /\ q.pc = pc /\ q.user = run[r].user /\ q.email = run[r].email
        /\ q.started = run[r].started /\ q.since = run[r].since /\ q.todo = run[r].todo
    BY <1>t DEF Run
  <2> HIDE DEF q
  <2>4. UNCHANGED <<Tables, faults>> BY <1>1, <1>3 DEF Tables
  <2>q. QED BY <1>1, <2>1, <2>2, <2>3, <2>4, RunWorks DEF Working
<1>4. CASE UNCHANGED invoice /\ run' = [run EXCEPT ![r] = [@ EXCEPT !.pc = "email",
                                                          !.email = None, !.number = None]]
  <2> DEFINE q == [run[r] EXCEPT !.pc = "email", !.email = None, !.number = None]
  <2>1. run' = [run EXCEPT ![r] = q] BY <1>4
  <2>2. /\ q \in Run /\ q.pc = "email" /\ q.user = run[r].user
        /\ q.started = run[r].started /\ q.since = run[r].since /\ q.todo = run[r].todo
    BY <1>t DEF Run
  <2> HIDE DEF q
  <2>3. UNCHANGED <<Tables, faults>> BY <1>1, <1>4 DEF Tables
  <2>q. QED BY <1>1, <2>1, <2>2, <2>3, RunWorks DEF Working
<1>5. run[r].number \in Numbers \cup {None} BY <1>t DEF Run
<1>q. QED BY <1>2, <1>3, <1>4, <1>5 DEF CreateInvoice, CreateFallback
-----------------------------------------------------------------------------
(* The configurations and those who change them.                           *)

LEMMA ConfigChanges ==
  ASSUME SyncInv, NEW u \in Users, NEW c \in Config, config' = [config EXCEPT ![u] = c],
         config[u] = None => c.createdAt = now,
         config[u] # None => c.createdAt = config[u].createdAt,
         c.lastSync # None => c.createdAt <= c.lastSync,
         run' = run \/ \E r \in Runs : Leave(r),
         \/ setter' = setter
         \/ \E h \in Setters, q \in Setter :
              /\ setter' = [setter EXCEPT ![h] = q]
              /\ q.pc # "idle" => q.user = u,
         UNCHANGED <<now, access, inbox, cron, invoice, boot>>,
         faults' \in 0..MaxFaults
  PROVE  SyncInv'
<1>t. /\ TypeOK /\ now \in Nat /\ config \in [Users -> Config \cup {None}]
      /\ run \in [Runs -> Run] /\ setter \in [Setters -> Setter]
  BY ImapAssumption DEF SyncInv, TypeOK
<1>1. /\ config' \in [Users -> Config \cup {None}]
      /\ config'[u] = c /\ \A v \in Users \ {u} : config'[v] = config[v]
  BY <1>t
<1>2. c # None /\ c.createdAt \in Nat
  BY ImapNone DEF Config
<1>3. run' \in [Runs -> Run] /\ \A r \in Runs : run'[r] = run[r] \/ run'[r] = NoRun
  BY <1>t, NoRunIsBacked DEF Leave
<1>4. /\ setter' \in [Setters -> Setter]
      /\ \A h \in Setters : setter'[h] = setter[h] \/ SetterIsBacked(setter[h])'
  <2>1. CASE setter' = setter BY <1>t, <2>1
  <2>2. ASSUME NEW h \in Setters, NEW q \in Setter, setter' = [setter EXCEPT ![h] = q],
               q.pc # "idle" => q.user = u
        PROVE  /\ setter' \in [Setters -> Setter]
               /\ \A g \in Setters : setter'[g] = setter[g] \/ SetterIsBacked(setter[g])'
    <3>1. setter'[h] = q /\ \A g \in Setters \ {h} : setter'[g] = setter[g] BY <1>t, <2>2
    <3>2. SetterIsBacked(q)' BY <1>1, <1>2, <2>2 DEF SetterIsBacked
    <3>q. QED BY <1>t, <2>2, <3>1, <3>2
  <2>q. QED BY <2>1, <2>2
<1>5. TypeOK' BY <1>1, <1>3, <1>4 DEF SyncInv, TypeOK
<1>6. SyncGrows BY <1>t, <1>1, <1>2 DEF SyncGrows
<1>7. \A r \in Runs : run'[r] = run[r] \/ RunIsBacked(run[r])'
  BY <1>3, NoRunIsBacked DEF RunIsBacked, Working
<1>8. \A v \in Users : config'[v] = config[v] \/ ConfigIsInOrder(v)'
  <2>1. config[u] # None => config[u].createdAt <= now
    BY DEF SyncInv, ConfigIsInOrder
  <2>2. c.createdAt <= now BY <1>t, <1>2, <2>1
  <2>3. ConfigIsInOrder(u)' BY <1>1, <2>2 DEF ConfigIsInOrder
  <2>q. QED BY <1>1, <2>3
<1>9. \A e \in Emails : ImportsAreCounted(e)'
  BY <1>3, NoRunIsBacked, CountsAreKept DEF Working
<1>q. QED BY <1>4, <1>5, <1>6, <1>7, <1>8, <1>9, SyncMove

(* The flags, and the time of the last synchronisation.                    *)
LEMMA FlagsChange ==
  ASSUME SyncInv, NEW u \in Users, config[u] # None, NEW connect \in BOOLEAN,
         NEW sync \in BOOLEAN,
         config' = [config EXCEPT ![u].connect = connect, ![u].sync = sync],
         run' = run \/ \E r \in Runs : Leave(r),
         \/ setter' = setter
         \/ \E h \in Setters, q \in Setter :
              /\ setter' = [setter EXCEPT ![h] = q]
              /\ q.pc # "idle" => q.user = u,
         UNCHANGED <<now, access, inbox, cron, invoice, boot>>,
         faults' \in 0..MaxFaults
  PROVE  SyncInv'
<1> DEFINE c == [config[u] EXCEPT !.connect = connect, !.sync = sync]
<1>1. config[u] \in Config /\ config \in [Users -> Config \cup {None}]
  BY DEF SyncInv, TypeOK
<1>2. config' = [config EXCEPT ![u] = c] BY <1>1
<1>3. /\ c \in Config /\ c.createdAt = config[u].createdAt
      /\ c.lastSync = config[u].lastSync
  BY <1>1 DEF Config
<1>4. config[u].lastSync # None => config[u].createdAt <= config[u].lastSync
  BY DEF SyncInv, ConfigIsInOrder
<1> HIDE DEF c
<1>5. /\ config[u] = None => c.createdAt = now
      /\ config[u] # None => c.createdAt = config[u].createdAt
      /\ c.lastSync # None => c.createdAt <= c.lastSync
  BY <1>3, <1>4
<1>q. QED BY <1>2, <1>3, <1>5, ConfigChanges

LEMMA LastSyncChanges ==
  ASSUME SyncInv, NEW u \in Users, config[u] # None, NEW t \in Nat \cup {None},
         t # None => config[u].createdAt <= t,
         config' = [config EXCEPT ![u].lastSync = t],
         run' = run \/ \E r \in Runs : Leave(r),
         UNCHANGED <<now, access, inbox, cron, invoice, setter, boot, faults>>
  PROVE  SyncInv'
<1> DEFINE c == [config[u] EXCEPT !.lastSync = t]
<1>1. config[u] \in Config /\ config \in [Users -> Config \cup {None}]
      /\ faults \in 0..MaxFaults
  BY DEF SyncInv, TypeOK
<1>2. config' = [config EXCEPT ![u] = c] BY <1>1
<1>3. c \in Config /\ c.createdAt = config[u].createdAt /\ c.lastSync = t
  BY <1>1 DEF Config
<1> HIDE DEF c
<1>q. QED BY <1>1, <1>2, <1>3, ConfigChanges

LEMMA RunsChangeConfig ==
  ASSUME SyncInv, NEW r \in Runs, ImapAuthFails(r) \/ UpdateLastSync(r)
  PROVE  SyncInv'
<1>t. run[r] \in Run /\ RunIsBacked(run[r]) /\ faults \in 0..MaxFaults
      /\ (run[r].pc # "idle" => run[r].user \in Users)
  BY RunTypes
<1>1. CASE ImapAuthFails(r)
  <2>1. run[r].user \in Users /\ config[run[r].user] # None
    BY <1>t, <1>1 DEF ImapAuthFails, RunIsBacked
  <2>2. faults' \in 0..MaxFaults BY <1>t, <1>1, ImapAssumption DEF ImapAuthFails
  <2>q. QED BY <1>1, <2>1, <2>2, FlagsChange DEF ImapAuthFails
<1>2. CASE UpdateLastSync(r)
  <2>1. /\ run[r].user \in Users /\ config[run[r].user] # None
        /\ config[run[r].user].createdAt <= run[r].done /\ run[r].done \in Nat
    BY <1>t, <1>2 DEF UpdateLastSync, RunIsBacked, Run
  <2>q. QED BY <1>2, <2>1, LastSyncChanges DEF UpdateLastSync
<1>q. QED BY <1>1, <1>2

LEMMA FlagsAreSet ==
  ASSUME SyncInv, NEW u \in Users,
         \/ ConnectUser(u) \/ DisconnectUser(u)
         \/ EnableFeatures(u) \/ DisableFeatures(u)
         \/ ResetLastSync(u)
  PROVE  SyncInv'
<1>1. CASE ResetLastSync(u) BY <1>1, LastSyncChanges DEF ResetLastSync
<1>2. CASE \E flag \in BOOLEAN : SetFlags(u, flag)
  <2>1. faults \in 0..MaxFaults BY DEF SyncInv, TypeOK
  <2>q. QED BY <1>2, <2>1, FlagsChange DEF SetFlags
<1>q. QED BY <1>1, <1>2 DEF ConnectUser, DisconnectUser, EnableFeatures, DisableFeatures

(* A handler goes on, and nothing but the cron jobs changes besides.       *)
LEMMA SetterMoves ==
  ASSUME SyncInv, NEW h \in Setters, NEW q \in Setter, setter' = [setter EXCEPT ![h] = q],
         q.pc # "idle" => q.user \in Users,
         q.pc = "resave" => config[q.user] # None,
         UNCHANGED <<now, access, inbox, config, invoice, run>>,
         cron' \in [Users -> Intervals \cup {None}],
         boot' \in SUBSET Users, faults' \in 0..MaxFaults
  PROVE  SyncInv'
<1>1. now \in Nat BY ImapAssumption DEF SyncInv, TypeOK
<1>2. /\ setter' \in [Setters -> Setter]
      /\ setter'[h] = q /\ \A g \in Setters \ {h} : setter'[g] = setter[g]
  BY DEF SyncInv, TypeOK
<1>3. TypeOK' BY <1>2 DEF SyncInv, TypeOK
<1>4. SyncGrows BY <1>1 DEF SyncGrows
<1>5. \A g \in Setters : setter'[g] = setter[g] \/ SetterIsBacked(setter[g])'
  BY <1>2 DEF SetterIsBacked
<1>6. \A e \in Emails : ImportsAreCounted(e)' BY CountsAreKept
<1>q. QED BY <1>3, <1>4, <1>5, <1>6, SyncMove

LEMMA NoSetterIsFree == NoSetter \in Setter /\ NoSetter.pc = "idle"
  BY DEF NoSetter, Setter

LEMMA SetterTypes ==
  ASSUME SyncInv, NEW h \in Setters
  PROVE  /\ setter[h] \in Setter /\ SetterIsBacked(setter[h])
         /\ setter[h].pc # "idle" => setter[h].user \in Users
         /\ setter \in [Setters -> Setter]
         /\ cron \in [Users -> Intervals \cup {None}]
         /\ faults \in 0..MaxFaults /\ boot \in SUBSET Users /\ now \in Nat
  BY ImapAssumption DEF SyncInv, TypeOK, SetterIsBacked

LEMMA SettersSetUp ==
  ASSUME SyncInv, NEW h \in Setters,
         \/ SetupReadPlan(h) \/ SetupReadConfig(h) \/ CreateCronForUser(h)
         \/ StopCronForUser(h) \/ SetterFails(h)
  PROVE  SyncInv'
<1>t. /\ setter[h] \in Setter /\ setter \in [Setters -> Setter]
      /\ setter[h].pc # "idle" => setter[h].user \in Users
      /\ cron \in [Users -> Intervals \cup {None}]
      /\ faults \in 0..MaxFaults /\ boot \in SUBSET Users
  BY SetterTypes
<1>1. CASE SetupReadPlan(h)
  <2>1. CASE SetterMove(h, "config")
    <3> DEFINE q == [setter[h] EXCEPT !.pc = "config"]
    <3>1. setter' = [setter EXCEPT ![h] = q] BY <2>1 DEF SetterMove
    <3>2. q \in Setter /\ q.pc = "config" /\ q.user = setter[h].user BY <1>t DEF Setter
    <3> HIDE DEF q
    <3>q. QED BY <1>t, <1>1, <3>1, <3>2, SetterMoves DEF SetupReadPlan
  <2>2. CASE SetterDone(h)
    BY <1>t, <1>1, <2>2, NoSetterIsFree, SetterMoves DEF SetupReadPlan, SetterDone
  <2>q. QED BY <1>1, <2>1, <2>2 DEF SetupReadPlan
<1>2. CASE SetupReadConfig(h)
  <2>1. CASE SyncConfigured(setter[h].user)
    <3>1. setter[h].pc = "config" /\ setter[h].user \in Users
      BY <1>t, <1>2 DEF SetupReadConfig, SetupWhen
    <3>2. PICK i : i = config[setter[h].user].interval OBVIOUS
    <3>3. i \in Intervals \cup {None}
      BY <2>1, <3>1, <3>2 DEF SyncConfigured, SyncInv, TypeOK, Config
    <3> DEFINE q == [setter[h] EXCEPT !.pc = "register", !.interval = i]
    <3>4. setter' = [setter EXCEPT ![h] = q]
      <4>1. setter' = [setter EXCEPT ![h].pc = "register", ![h].interval = i]
        BY <1>2, <2>1, <3>2 DEF SetupReadConfig, SetupWhen
      <4>q. QED BY <1>t, <4>1
    <3>5. q \in Setter /\ q.pc = "register" /\ q.user = setter[h].user
      BY <1>t, <3>3 DEF Setter
    <3> HIDE DEF q
    <3>q. QED
      BY <1>t, <1>2, <3>1, <3>4, <3>5, SetterMoves DEF SetupReadConfig, SetupWhen
  <2>2. CASE SetterDone(h)
    BY <1>t, <1>2, <2>2, NoSetterIsFree, SetterMoves
       DEF SetupReadConfig, SetupWhen, SetterDone
  <2>q. QED BY <1>2, <2>1, <2>2 DEF SetupReadConfig, SetupWhen
<1>3. CASE CreateCronForUser(h)
  <2>1. cron' \in [Users -> Intervals \cup {None}]
    BY <1>t, <1>3 DEF CreateCronForUser, Setter
  <2>q. QED BY <1>t, <1>3, <2>1, NoSetterIsFree, SetterMoves
           DEF CreateCronForUser, SetterDone
<1>4. CASE StopCronForUser(h)
  <2>1. cron' \in [Users -> Intervals \cup {None}] BY <1>t, <1>4 DEF StopCronForUser
  <2>q. QED BY <1>t, <1>4, <2>1, NoSetterIsFree, SetterMoves
           DEF StopCronForUser, SetterDone
<1>5. CASE SetterFails(h)
  <2>1. faults' \in 0..MaxFaults BY <1>t, <1>5, ImapAssumption DEF SetterFails
  <2>q. QED BY <1>t, <1>5, <2>1, NoSetterIsFree, SetterMoves DEF SetterFails, SetterDone
<1>q. QED BY <1>1, <1>2, <1>3, <1>4, <1>5

LEMMA SettersBegin ==
  ASSUME SyncInv, NEW u \in Users,
         \/ \E h \in Handlers : SetImapConfiguration(h, u) \/ ImapDisconnect(h, u)
         \/ InitializeCronJob(u)
  PROVE  SyncInv'
<1>s. \A h \in Handlers \cup {Boot} : h \in Setters BY DEF Setters
<1>1. ASSUME NEW h \in Handlers, SetImapConfiguration(h, u) PROVE SyncInv'
  <2>1. PICK i \in Intervals \cup {None}, auto \in BOOLEAN, partial \in BOOLEAN :
          setter' = [setter EXCEPT ![h] = [pc |-> "save", user |-> u, interval |-> i,
                                           auto |-> auto, partial |-> partial]]
    BY <1>1 DEF SetImapConfiguration
  <2> DEFINE q == [pc |-> "save", user |-> u, interval |-> i, auto |-> auto,
                   partial |-> partial]
  <2>2. setter' = [setter EXCEPT ![h] = q] BY <2>1
  <2>3. q \in Setter /\ q.pc = "save" /\ q.user = u BY DEF Setter
  <2> HIDE DEF q
  <2>q. QED BY <1>s, <1>1, <2>2, <2>3, SetterMoves, SetterTypes DEF SetImapConfiguration
<1>2. ASSUME NEW h \in Handlers, ImapDisconnect(h, u) PROVE SyncInv'
  <2> DEFINE q == [NoSetter EXCEPT !.pc = "stop", !.user = u]
  <2>1. setter' = [setter EXCEPT ![h] = q] BY <1>2 DEF ImapDisconnect
  <2>2. q \in Setter /\ q.pc = "stop" /\ q.user = u BY DEF Setter, NoSetter
  <2>3. faults' \in 0..MaxFaults BY <1>s, <1>2, SetterTypes DEF ImapDisconnect
  <2> HIDE DEF q
  <2>q. QED BY <1>s, <1>2, <2>1, <2>2, <2>3, FlagsChange DEF ImapDisconnect
<1>3. CASE InitializeCronJob(u)
  <2> DEFINE q == [NoSetter EXCEPT !.pc = "subscription", !.user = u]
  <2>1. setter' = [setter EXCEPT ![Boot] = q] BY <1>3 DEF InitializeCronJob
  <2>2. q \in Setter /\ q.pc = "subscription" /\ q.user = u BY DEF Setter, NoSetter
  <2>3. boot' \in SUBSET Users BY <1>s, <1>3, SetterTypes DEF InitializeCronJob
  <2> HIDE DEF q
  <2>q. QED BY <1>s, <1>3, <2>1, <2>2, <2>3, SetterMoves, SetterTypes DEF InitializeCronJob
<1>q. QED BY <1>1, <1>2, <1>3

LEMMA SettersSave ==
  ASSUME SyncInv, NEW h \in Handlers, UpsertConfiguration(h) \/ ResaveSync(h)
  PROVE  SyncInv'
<1>s. h \in Setters BY DEF Setters
<1>t. /\ setter[h] \in Setter /\ SetterIsBacked(setter[h]) /\ setter \in [Setters -> Setter]
      /\ setter[h].pc # "idle" => setter[h].user \in Users
      /\ faults \in 0..MaxFaults /\ now \in Nat
      /\ config \in [Users -> Config \cup {None}]
  BY <1>s, SetterTypes DEF SyncInv, TypeOK
<1>1. CASE UpsertConfiguration(h)
  <2>1. PICK u : u = setter[h].user OBVIOUS
  <2>2. u \in Users /\ setter[h].pc = "save"
    BY <1>t, <1>1, <2>1 DEF UpsertConfiguration
  <2>3. PICK connected \in BOOLEAN :
        /\ config' = [config EXCEPT ![u] =
                  [connect |-> connected, sync |-> connected /\ setter[h].auto,
                   interval |-> setter[h].interval,
                   lastSync |-> IF @ = None THEN None ELSE @.lastSync,
                   createdAt |-> IF @ = None THEN now ELSE @.createdAt]]
        /\ \/ SetterMove(h, "resave") \/ SetterMove(h, "subscription") \/ SetterDone(h)
    BY <1>1, <2>1 DEF UpsertConfiguration
  <2> DEFINE last == IF config[u] = None THEN None ELSE config[u].lastSync
             created == IF config[u] = None THEN now ELSE config[u].createdAt
             c == [connect |-> connected, sync |-> connected /\ setter[h].auto,
                   interval |-> setter[h].interval, lastSync |-> last,
                   createdAt |-> created]
  <2>4. config' = [config EXCEPT ![u] = c] BY <1>t, <2>2, <2>3
  <2>5. last \in Nat \cup {None} /\ created \in Nat BY <1>t, <2>2 DEF Config
  <2>6. last # None => created <= last
    <3>1. config[u] # None /\ config[u].lastSync # None =>
            config[u].createdAt <= config[u].lastSync
      BY <2>2 DEF SyncInv, ConfigIsInOrder
    <3>q. QED BY <3>1
  <2>7. /\ config[u] = None => created = now
        /\ config[u] # None => created = config[u].createdAt
    OBVIOUS
  <2> HIDE DEF last, created
  <2>8. c \in Config /\ c.createdAt = created /\ c.lastSync = last
    BY <1>t, <2>5 DEF Config, Setter
  <2> HIDE DEF c
  <2>9. \E q \in Setter : /\ setter' = [setter EXCEPT ![h] = q]
                          /\ q.pc # "idle" => q.user = u
    <3>1. CASE SetterDone(h) BY <3>1, NoSetterIsFree DEF SetterDone
    <3>2. ASSUME NEW pc \in {"resave", "subscription"}, SetterMove(h, pc)
          PROVE  \E q \in Setter : /\ setter' = [setter EXCEPT ![h] = q]
                                   /\ q.pc # "idle" => q.user = u
      <4> DEFINE q == [setter[h] EXCEPT !.pc = pc]
      <4>1. setter' = [setter EXCEPT ![h] = q] BY <3>2 DEF SetterMove
      <4>2. q \in Setter /\ q.user = u BY <1>t, <2>1 DEF Setter
      <4> HIDE DEF q
      <4>q. QED BY <4>1, <4>2
    <3>q. QED BY <2>3, <3>1, <3>2
  <2>10. UNCHANGED <<now, access, inbox, cron, invoice, run, boot, faults>>
    BY <1>1 DEF UpsertConfiguration
  <2>q. QED BY <1>s, <1>t, <2>2, <2>4, <2>6, <2>7, <2>8, <2>9, <2>10, ConfigChanges
<1>2. CASE ResaveSync(h)
  <2>1. PICK u : u = setter[h].user OBVIOUS
  <2>2. u \in Users /\ config[u] # None
    BY <1>t, <1>2, <2>1 DEF ResaveSync, SetterIsBacked
  <2>3. config[u] \in Config /\ setter[h].auto \in BOOLEAN
    BY <1>t, <2>2 DEF Setter
  <2>4. config' = [config EXCEPT ![u].connect = config[u].connect, ![u].sync = setter[h].auto]
    <3>1. config' = [config EXCEPT ![u].sync = setter[h].auto]
      BY <1>2, <2>1 DEF ResaveSync
    <3>q. QED BY <1>t, <2>2, <2>3, <3>1 DEF Config
  <2>5. \E q \in Setter : /\ setter' = [setter EXCEPT ![h] = q]
                          /\ q.pc # "idle" => q.user = u
    <3>1. CASE SetterDone(h) BY <3>1, NoSetterIsFree DEF SetterDone
    <3>2. CASE SetterMove(h, "subscription")
      <4> DEFINE q == [setter[h] EXCEPT !.pc = "subscription"]
      <4>1. setter' = [setter EXCEPT ![h] = q] BY <3>2 DEF SetterMove
      <4>2. q \in Setter /\ q.user = u BY <1>t, <2>1 DEF Setter
      <4> HIDE DEF q
      <4>q. QED BY <4>1, <4>2
    <3>q. QED BY <1>2, <3>1, <3>2 DEF ResaveSync
  <2>6. UNCHANGED <<now, access, inbox, cron, invoice, run, boot, faults>>
    BY <1>2 DEF ResaveSync
  <2>7. config[u].connect \in BOOLEAN BY <2>3 DEF Config
  <2>q. QED BY <1>s, <1>t, <2>2, <2>3, <2>4, <2>5, <2>6, <2>7, FlagsChange
<1>q. QED BY <1>1, <1>2
-----------------------------------------------------------------------------
(* The ends of a run, and the restart.                                     *)

LEMMA RunEnds ==
  ASSUME SyncInv, NEW r \in Runs, CompleteSync(r) \/ RunFails(r)
  PROVE  SyncInv'
<1>t. /\ run[r] \in Run /\ RunIsBacked(run[r]) /\ faults \in 0..MaxFaults /\ now \in Nat
      /\ run[r].pc # "idle" => run[r].user \in Users
      /\ run \in [Runs -> Run]
  BY RunTypes DEF SyncInv, TypeOK
<1>1. CASE CompleteSync(r)
  <2>1. UNCHANGED <<Tables, faults>> /\ run[r].pc = "finish"
    BY <1>1 DEF CompleteSync, Tables
  <2>2. CASE Leave(r) BY <1>t, <2>1, <2>2, RunLeaves
  <2>3. CASE run' = [run EXCEPT ![r].pc = "record", ![r].done = now]
    <3> DEFINE q == [run[r] EXCEPT !.pc = "record", !.done = now]
    <3>1. run' = [run EXCEPT ![r] = q] BY <1>t, <2>3
    <3>2. /\ q \in Run /\ q.pc = "record" /\ q.user = run[r].user /\ q.done = now
          /\ q.started = run[r].started /\ q.since = run[r].since
      BY <1>t DEF Run
    <3> HIDE DEF q
    <3>3. config[run[r].user].createdAt <= now
      BY <1>t, <2>1 DEF RunIsBacked, SyncInv, ConfigIsInOrder
    <3>4. RunIsBacked(q) BY <1>t, <2>1, <3>2, <3>3 DEF RunIsBacked, Working
    <3>q. QED BY <1>t, <2>1, <3>1, <3>2, <3>4, RunMoves DEF Working
  <2>q. QED BY <1>1, <2>2, <2>3 DEF CompleteSync
<1>2. CASE RunFails(r)
  <2>1. UNCHANGED Tables /\ faults' \in 0..MaxFaults
    BY <1>t, <1>2, ImapAssumption DEF RunFails, Tables
  <2>2. CASE Leave(r) BY <2>1, <2>2, RunLeaves
  <2>3. CASE /\ run[r].pc \in {"search", "email", "extract"}
             /\ run' = [run EXCEPT ![r] = [@ EXCEPT !.pc = "finish", !.todo = {},
                                                    !.email = None, !.number = None]]
    <3> DEFINE q == [run[r] EXCEPT !.pc = "finish", !.todo = {}, !.email = None,
                                   !.number = None]
    <3>1. run' = [run EXCEPT ![r] = q] BY <2>3
    <3>2. /\ q \in Run /\ q.pc = "finish" /\ q.user = run[r].user
          /\ q.started = run[r].started /\ q.since = run[r].since
      BY <1>t DEF Run
    <3> HIDE DEF q
    <3>3. RunIsBacked(q) BY <1>t, <2>3, <3>2 DEF RunIsBacked, Working
    <3>q. QED BY <1>t, <2>1, <3>1, <3>2, <3>3, RunMoves DEF Working
  <2>q. QED BY <1>2, <2>2, <2>3 DEF RunFails
<1>q. QED BY <1>1, <1>2

LEMMA RestartLosesRuns == ASSUME SyncInv, Restart PROVE SyncInv'
<1>1. /\ UNCHANGED <<now, access, inbox, config, invoice>>
      /\ cron' = [u \in Users |-> None] /\ run' = [r \in Runs |-> NoRun]
      /\ setter' = [h \in Setters |-> NoSetter] /\ boot' = {u \in Users : Active(u)}
      /\ faults' = faults + 1 /\ faults < MaxFaults
  BY DEF Restart
<1>2. TypeOK'
  <2>1. faults' \in 0..MaxFaults BY <1>1, ImapAssumption DEF SyncInv, TypeOK
  <2>q. QED BY <1>1, <2>1, NoRunIsBacked, NoSetterIsFree DEF SyncInv, TypeOK
<1>3. SyncGrows
  <2>1. now \in Nat BY ImapAssumption DEF SyncInv, TypeOK
  <2>q. QED BY <1>1, <2>1 DEF SyncGrows
<1>4. \A r \in Runs : RunIsBacked(run[r])' BY <1>1, NoRunIsBacked DEF RunIsBacked, Working
<1>5. \A h \in Setters : SetterIsBacked(setter[h])'
  BY <1>1, NoSetterIsFree DEF SetterIsBacked
<1>6. \A e \in Emails : ImportsAreCounted(e)' BY <1>1, NoRunIsBacked, CountsAreKept DEF Working
<1>q. QED BY <1>1, <1>2, <1>3, <1>4, <1>5, <1>6, SyncMove

(* The environment: entitlements, messages, time.                          *)
LEMMA WorldGoesOn ==
  ASSUME SyncInv, TypeOK', SyncGrows, UNCHANGED <<config, invoice, run, setter>>
  PROVE  SyncInv'
<1>1. \A e \in Emails : ImportsAreCounted(e)' BY CountsAreKept
<1>q. QED BY <1>1, SyncMove

LEMMA EnvironmentSteps ==
  ASSUME SyncInv,
         \/ \E u \in Users : \/ Grant(u) \/ Lapse(u)
                             \/ \E e \in Emails : Deliver(u, e)
         \/ Tick
  PROVE  SyncInv'
<1>t. /\ now \in Nat /\ Period \in Nat
      /\ access \in [Users -> [state : {"none", "active", "lapsed"}, until : Nat]]
      /\ inbox \in [Users -> [Emails -> Message \cup {None}]]
  BY ImapAssumption DEF SyncInv, TypeOK
<1>1. ASSUME NEW u \in Users, Grant(u) PROVE SyncInv'
  <2>1. /\ access[u].state = "none"
        /\ access' = [access EXCEPT ![u] = [state |-> "active", until |-> now + Period]]
        /\ UNCHANGED <<now, inbox, config, cron, invoice, run, setter, boot, faults>>
    BY <1>1 DEF Grant
  <2>2. access' \in [Users -> [state : {"none", "active", "lapsed"}, until : Nat]]
    BY <1>t, <2>1
  <2>3. TypeOK' BY <2>1, <2>2 DEF SyncInv, TypeOK
  <2>4. SyncGrows BY <1>t, <2>1 DEF SyncGrows
  <2>q. QED BY <2>1, <2>3, <2>4, WorldGoesOn
<1>2. ASSUME NEW u \in Users, Lapse(u) PROVE SyncInv'
  <2>1. /\ access' = [access EXCEPT ![u].state = "lapsed"]
        /\ UNCHANGED <<now, inbox, config, cron, invoice, run, setter, boot, faults>>
    BY <1>2 DEF Lapse
  <2>2. access' \in [Users -> [state : {"none", "active", "lapsed"}, until : Nat]]
    BY <1>t, <2>1
  <2>3. TypeOK' BY <2>1, <2>2 DEF SyncInv, TypeOK
  <2>4. SyncGrows BY <1>t, <2>1 DEF SyncGrows
  <2>q. QED BY <2>1, <2>3, <2>4, WorldGoesOn
<1>3. ASSUME NEW u \in Users, NEW e \in Emails, Deliver(u, e) PROVE SyncInv'
  <2>1. PICK date \in (0..now) \cup {None} :
          inbox' = [inbox EXCEPT ![u][e] = [date |-> date, arrived |-> now]]
    BY <1>3 DEF Deliver
  <2>2. /\ inbox[u][e] = None
        /\ UNCHANGED <<now, access, config, cron, invoice, run, setter, boot, faults>>
    BY <1>3 DEF Deliver
  <2> DEFINE m == [date |-> date, arrived |-> now]
             box == [inbox[u] EXCEPT ![e] = m]
  <2>3. m \in Message BY <1>t DEF Message
  <2>4. inbox' = [inbox EXCEPT ![u] = box] BY <1>t, <2>1
  <2> HIDE DEF m
  <2>5. box \in [Emails -> Message \cup {None}] BY <1>t, <2>3
  <2>6. \A f \in Emails : f # e => box[f] = inbox[u][f] BY <1>t
  <2> HIDE DEF box
  <2>7. inbox' \in [Users -> [Emails -> Message \cup {None}]] BY <1>t, <2>4, <2>5
  <2>8. inbox'[u] = box /\ \A v \in Users \ {u} : inbox'[v] = inbox[v] BY <1>t, <2>4
  <2>9. TypeOK' BY <2>2, <2>7 DEF SyncInv, TypeOK
  <2>10. SyncGrows BY <1>t, <2>2, <2>6, <2>8 DEF SyncGrows
  <2>q. QED BY <2>2, <2>9, <2>10, WorldGoesOn
<1>4. CASE Tick
  <2>1. /\ now' = now + 1 /\ now < MaxTime
        /\ UNCHANGED <<access, inbox, config, cron, invoice, run, setter, boot, faults>>
    BY <1>4 DEF Tick
  <2>2. now' \in 0..MaxTime BY <1>t, <2>1, ImapAssumption
  <2>3. TypeOK' BY <2>1, <2>2 DEF SyncInv, TypeOK
  <2>4. SyncGrows BY <1>t, <2>1 DEF SyncGrows
  <2>q. QED BY <2>1, <2>3, <2>4, WorldGoesOn
<1>q. QED BY <1>1, <1>2, <1>3, <1>4

LEMMA RunSteps == ASSUME SyncInv, NEW r \in Runs, RunStep(r) PROVE SyncInv'
<1>1. CASE SyncReadConfig(r) \/ CheckUserAccess(r) \/ ImapClient(r)
  <2>1. UNCHANGED <<Tables, faults>>
    BY <1>1 DEF SyncReadConfig, CheckUserAccess, CheckAccess, ImapClient, Tables
  <2>q. QED BY <1>1, <2>1, RunGetsAccess
<1>2. CASE Search(r) \/ NextKeyword(r)
  <2>1. UNCHANGED <<Tables, faults>> BY <1>2 DEF Search, NextKeyword, Tables
  <2>q. QED BY <1>2, <2>1, RunSearches
<1>3. CASE ExamineEmail(r) BY <1>3, RunExamines
<1>4. CASE ExtractPdf(r) \/ FindNumber(r) BY <1>4, RunReadsPdfs
<1>5. CASE CreateInvoice(r) \/ CreateFallback(r) BY <1>5, RunCreates
<1>6. CASE CompleteSync(r) BY <1>6, RunEnds
<1>7. CASE UpdateLastSync(r) BY <1>7, RunsChangeConfig
<1>q. QED BY <1>1, <1>2, <1>3, <1>4, <1>5, <1>6, <1>7 DEF RunStep

LEMMA NothingSynchronised == Init => SyncInv
<1> SUFFICES ASSUME Init PROVE SyncInv
  OBVIOUS
<1>1. TypeOK BY ImapAssumption, NoRunIsBacked, NoSetterIsFree DEF Init, TypeOK
<1>2. \A r \in Runs : RunIsBacked(run[r]) BY NoRunIsBacked DEF Init
<1>3. \A h \in Setters : SetterIsBacked(setter[h])
  BY NoSetterIsFree DEF Init, SetterIsBacked
<1>4. \A u \in Users : ConfigIsInOrder(u) BY DEF Init, ConfigIsInOrder
<1>5. \A i \in InvoiceIds : ImportIsInOrder(i) BY DEF Init, ImportIsInOrder
<1>6. ASSUME NEW e \in Emails PROVE ImportsAreCounted(e)
  <2>1. Naming(e) = {} BY DEF Init, Naming
  <2>2. Importing(e) = {} BY NoRunIsBacked DEF Init, Importing, Working
  <2>3. Cardinality(Runs) \in Nat BY RunsFinite DEF RunsAreFinite
  <2>q. QED BY <2>1, <2>2, <2>3, FS_EmptySet DEF ImportsAreCounted
<1>q. QED BY <1>1, <1>2, <1>3, <1>4, <1>5, <1>6 DEF SyncInv

LEMMA SyncSteps == SyncInv /\ [Next]_vars => SyncInv'
<1> SUFFICES ASSUME SyncInv, [Next]_vars PROVE SyncInv'
  OBVIOUS
<1>r. \A r \in Jobs \cup Requests : r \in Runs BY DEF Runs
<1>1. ASSUME NEW u \in Users, NEW r \in Runs,
             RunSyncJob(r, u) \/ SyncEmails(r, u) \/ ReadEmailTransactions(r, u)
      PROVE  SyncInv'
  <2>1. UNCHANGED <<Tables, faults>>
    BY <1>1 DEF RunSyncJob, SyncEmails, ReadEmailTransactions, Tables
  <2>q. QED BY <1>1, <2>1, RunBegins
<1>2. ASSUME NEW u \in Users,
             \/ Grant(u) \/ Lapse(u)
             \/ \E e \in Emails : Deliver(u, e)
             \/ \E r \in Jobs : RunSyncJob(r, u)
             \/ \E r \in Requests : \/ SyncEmails(r, u)
                                    \/ ReadEmailTransactions(r, u)
             \/ \E h \in Handlers : \/ SetImapConfiguration(h, u)
                                    \/ ImapDisconnect(h, u)
             \/ ConnectUser(u) \/ DisconnectUser(u)
             \/ EnableFeatures(u) \/ DisableFeatures(u)
             \/ ResetLastSync(u)
             \/ InitializeCronJob(u)
      PROVE  SyncInv'
  BY <1>r, <1>1, <1>2, EnvironmentSteps, SettersBegin, FlagsAreSet
<1>3. ASSUME NEW r \in Runs, RunStep(r) \/ ImapAuthFails(r) \/ RunFails(r) PROVE SyncInv'
  BY <1>3, RunSteps, RunsChangeConfig, RunEnds
<1>4. ASSUME NEW h \in Handlers,
             \/ UpsertConfiguration(h) \/ ResaveSync(h)
             \/ StopCronForUser(h) \/ SetterFails(h)
      PROVE  SyncInv'
  BY <1>4, SettersSave, SettersSetUp DEF Setters
<1>5. ASSUME NEW h \in Setters, SetupStep(h) PROVE SyncInv'
  BY <1>5, SettersSetUp DEF SetupStep
<1>6. CASE UNCHANGED vars
  <2>1. UNCHANGED <<now, access, inbox, config, cron, invoice, run, setter, boot, faults>>
    BY <1>6 DEF vars
  <2>2. TypeOK' BY <2>1 DEF SyncInv, TypeOK
  <2>3. SyncGrows
    <3>1. now \in Nat BY ImapAssumption DEF SyncInv, TypeOK
    <3>q. QED BY <2>1, <3>1 DEF SyncGrows
  <2>q. QED BY <2>1, <2>2, <2>3, WorldGoesOn
<1>q. QED BY <1>2, <1>3, <1>4, <1>5, <1>6, RestartLosesRuns, EnvironmentSteps DEF Next

LEMMA SyncInvariance == Spec => []SyncInv
  BY NothingSynchronised, SyncSteps, PTL DEF Spec

-----------------------------------------------------------------------------
(* The tables, the registry of cron jobs and the runs in flight keep their *)
(* types: a step of a run never writes to a configuration row that is not  *)
(* there, whatever resets and restarts happened since it was read.         *)
THEOREM SyncTypes == Spec => []TypeOK
<1>1. SyncInv => TypeOK BY DEF SyncInv
<1>q. QED BY <1>1, SyncInvariance, PTL

(* A run works on a mailbox only if checkUserAccess found the plan active  *)
(* and unexpired after the run began, for any number of users, runs and    *)
(* failures.                                                               *)
THEOREM ImportsHaveAccess == Spec => []ImportNeedsAccess
<1>1. SyncInv => ImportNeedsAccess
  <2> SUFFICES ASSUME SyncInv, NEW r \in Runs, run[r].pc \notin {"idle", "manual", "access"}
               PROVE  /\ access[run[r].user].state # "none"
                      /\ run[r].started < access[run[r].user].until
    BY DEF ImportNeedsAccess
  <2>q. QED BY DEF SyncInv, RunIsBacked
<1>q. QED BY <1>1, SyncInvariance, PTL

(* readEmailTransactionsSince imports no e-mail dated before the user's    *)
(* configuration was created, and none without a date that arrived before  *)
(* the day of its creation, however the runs that write lastSync, the      *)
(* requests that reset it and the restarts interleave.                     *)
THEOREM ImportsAreRecent == Spec => []OnlySinceConfiguration
<1>1. SyncInv => OnlySinceConfiguration
  <2> SUFFICES ASSUME SyncInv, NEW i \in InvoiceIds, invoice[i] # None
               PROVE  /\ config[invoice[i].user] # None
                      /\ IsSince(inbox[invoice[i].user][invoice[i].email],
                                 config[invoice[i].user].createdAt)
    BY DEF OnlySinceConfiguration
  <2>q. QED BY DEF SyncInv, ImportIsInOrder
<1>q. QED BY <1>1, SyncInvariance, PTL

(* findFirst and create are two calls, yet an e-mail is imported at most   *)
(* as often as runs overlap: the invariant counts the runs past the look   *)
(* for an earlier import along with the rows already inserted.             *)
THEOREM ImportsAreBounded == Spec => []ImportsBounded
<1>1. SyncInv => ImportsBounded
  <2> SUFFICES ASSUME SyncInv, NEW e \in Emails
               PROVE  Cardinality(Naming(e)) <= Cardinality(Runs)
    BY DEF ImportsBounded
  <2>1. Cardinality(Naming(e)) \in Nat BY ImportCount DEF Naming
  <2>2. Cardinality(Importing(e)) \in Nat BY RunCount DEF Importing
  <2>3. Cardinality(Runs) \in Nat BY RunsFinite DEF RunsAreFinite
  <2>4. Cardinality(Naming(e)) + Cardinality(Importing(e)) <= Cardinality(Runs)
    BY DEF SyncInv, ImportsAreCounted
  <2>q. QED BY <2>1, <2>2, <2>3, <2>4
<1>q. QED BY <1>1, SyncInvariance, PTL
=============================================================================
