--------------------------- MODULE SaleEntryProofs ---------------------------
(***************************************************************************)
(* Proofs about SaleEntry, for any number of requests, forms, users and    *)
(* numbers.                                                                *)
(*                                                                         *)
(* Holding says who is inside its transaction, Rows and Jobs what such a   *)
(* request has written: the unique key of the job gives one charge per     *)
(* form, the row of the number keeps what the guard saw true until the     *)
(* commit (Apart).                                                         *)
(***************************************************************************)
EXTENDS SaleEntry, TLAPS

\* A request inside its transaction holds the row of its number, and no other.
Holding ==
    \A p \in Phone, r \in Request : holder[p] = r <=> p = asks[r].phone /\ at[r] \in Inside

\* A draft is that of a request about to commit.
Rows ==
    \A r \in Request :
        /\ sale[r].status = "draft" <=> at[r] = "commit"
        /\ sale[r].status \notin {"none", "draft"} => at[r] = "done"
        /\ sale[r].day <= today
        /\ sale[r].status = "draft" => sale[r].number = asks[r].phone /\ ~sale[r].edited

\* A job is that of a request with a sale, recorded or about to be.
Jobs ==
    /\ \A f \in Form, r \in Request : job[f] = r =>
          /\ f = asks[r].form /\ asks[r].charge /\ at[r] \in {"sale", "commit", "done"}
          /\ at[r] = "done" => sale[r].status # "none"
    /\ \A r \in Request :
          asks[r].charge /\ (at[r] \in {"sale", "commit"} \/ sale[r].status # "none") => job[asks[r].form] = r
    /\ \A r \in Request : at[r] \in {"token", "again", "job"} => asks[r].charge

\* s stands and is still for the number it was entered for.
Entered(s, p) == sale[s].status = "standing" /\ ~sale[s].edited /\ sale[s].number = p

\* Past the guard, unconfirmed, the number has no sale of the day or of a later one.
Apart ==
    \A r, s \in Request :
        ~asks[r].confirmed /\ s # r /\ Entered(s, asks[r].phone) =>
            /\ at[r] \in {"again", "job", "sale"} => sale[s].day < today
            /\ at[r] = "commit" => sale[s].day < sale[r].day

Inv == TypeOK /\ Holding /\ Rows /\ Jobs /\ Apart /\ AnswerIsTrue

\* A commit leaves a row of a sale.
LEMMA CommitsTyped ==
    ASSUME TypeOK, NEW r \in Request, Commits(r)
    PROVE  /\ sale' \in [Request -> SaleRow] /\ known' \in SUBSET Phone
           /\ holder' \in [Phone -> Request \cup {NoRequest}] /\ company' \in Request \cup {NoRequest}
<1>1. known' \in SUBSET Phone
  BY DEF Commits, TypeOK
<1>2. holder' \in [Phone -> Request \cup {NoRequest}] /\ company' \in Request \cup {NoRequest}
  BY DEF Commits, Releases, TypeOK
<1>3. sale' \in [Request -> SaleRow]
  <2> DEFINE row == [sale[r] EXCEPT !.status = IF @ = "draft" THEN "standing" ELSE @]
  <2>1. sale[r] \in SaleRow /\ sale \in [Request -> SaleRow]
    BY DEF TypeOK
  <2>2. row \in SaleRow
    <3>1. CASE sale[r].status = "draft"
      BY <2>1, <3>1 DEF SaleRow, NoSale, GoneSale
    <3>2. CASE sale[r].status # "draft"
      <4>1. row = sale[r]
        BY <2>1, <3>2 DEF SaleRow, NoSale, GoneSale
      <4> QED BY <2>1, <4>1
    <3> QED BY <3>1, <3>2
  <2>3. sale' = [sale EXCEPT ![r] = row]
    BY DEF Commits
  <2> HIDE DEF row
  <2> QED BY <2>1, <2>2, <2>3
<1> QED BY <1>1, <1>2, <1>3

\* No step leaves the types.
LEMMA TypingStep == TypeOK /\ [Next]_vars => TypeOK'
<1> SUFFICES ASSUME TypeOK, [Next]_vars PROVE TypeOK'
  OBVIOUS
<1> USE EntryAssumption
<1>1. ASSUME NEW r \in Request, Submit(r) PROVE TypeOK'
  BY <1>1 DEF Submit, Moves, TypeOK, Inside, SaleRow, NoSale, GoneSale, Ask
<1>2. ASSUME NEW r \in Request, Duplicate(r) PROVE TypeOK'
  <2>1. job[asks[r].form] \in Request /\ job' = job
    BY <1>2 DEF Duplicate, Taken, Commits, TypeOK, Ask
  <2> QED BY <1>2, <2>1, CommitsTyped DEF Duplicate, Answers, TypeOK, Inside
<1>3. ASSUME NEW r \in Request, Used(r) PROVE TypeOK'
  BY <1>3 DEF Used, RollBack, Releases, Answers, TypeOK, Inside, SaleRow, NoSale, GoneSale, Ask
<1>4. ASSUME NEW r \in Request, Unused(r) PROVE TypeOK'
  BY <1>4 DEF Unused, Moves, TypeOK, Inside, SaleRow, NoSale, GoneSale, Ask
<1>5. ASSUME NEW r \in Request, Refused(r) PROVE TypeOK'
  BY <1>5 DEF Refused, RollBack, Releases, Answers, TypeOK, Inside, SaleRow, NoSale, GoneSale, Ask
<1>6. ASSUME NEW r \in Request, SoldAlready(r) PROVE TypeOK'
  BY <1>6 DEF SoldAlready, RollBack, Releases, Answers, TypeOK, Inside, SaleRow, NoSale, GoneSale, Ask
<1>7. ASSUME NEW r \in Request, NotSoldYet(r) PROVE TypeOK'
  BY <1>7 DEF NotSoldYet, Moves, TypeOK, Inside, SaleRow, NoSale, GoneSale, Ask
<1>8. ASSUME NEW r \in Request, InsertNumber(r) PROVE TypeOK'
  BY <1>8 DEF InsertNumber, Moves, TypeOK, Inside, SaleRow, NoSale, GoneSale, Ask
<1>9. ASSUME NEW r \in Request, NumberIsKnown(r) PROVE TypeOK'
  BY <1>9 DEF NumberIsKnown, Moves, TypeOK, Inside, SaleRow, NoSale, GoneSale, Ask
<1>10. ASSUME NEW r \in Request, LockNumber(r) PROVE TypeOK'
  BY <1>10 DEF LockNumber, Moves, TypeOK, Inside, SaleRow, NoSale, GoneSale, Ask
<1>11. ASSUME NEW r \in Request, InsertJob(r) PROVE TypeOK'
  BY <1>11 DEF InsertJob, Moves, TypeOK, Inside, SaleRow, NoSale, GoneSale, Ask
<1>12. ASSUME NEW r \in Request, RecordSale(r) PROVE TypeOK'
  BY <1>12 DEF RecordSale, Moves, TypeOK, Inside, SaleRow, NoSale, GoneSale, Ask
<1>13. ASSUME NEW r \in Request, Recorded(r) PROVE TypeOK'
  <2>1. job' = job
    BY <1>13 DEF Recorded, Commits
  <2> QED BY <1>13, <2>1, CommitsTyped DEF Recorded, Answers, TypeOK, Inside
<1>14. ASSUME NEW r \in Request, Dies(r) PROVE TypeOK'
  BY <1>14 DEF Dies, RollBack, Releases, Answers, Fault, TypeOK, Inside, SaleRow, NoSale, GoneSale, Ask
<1>15. ASSUME NEW r \in Request, DiesRecorded(r) PROVE TypeOK'
  <2>1. job' = job
    BY <1>15 DEF DiesRecorded, Commits
  <2>2. faults' \in 0..MaxFaults
    BY <1>15 DEF DiesRecorded, Fault, TypeOK
  <2> QED BY <1>15, <2>1, <2>2, CommitsTyped DEF DiesRecorded, Answers, TypeOK, Inside
<1>16. ASSUME NEW s \in Request, Cancel(s) PROVE TypeOK'
  <2> DEFINE row == [sale[s] EXCEPT !.status = "cancelled"]
  <2>1. sale[s] \in SaleRow /\ sale[s].status = "standing" /\ sale \in [Request -> SaleRow]
    BY <1>16 DEF Cancel, TypeOK
  <2>2. sale[s] \in [status: {"draft", "standing", "cancelled"}, number: Phone, day: 0..LastDay, edited: BOOLEAN]
    BY <2>1 DEF SaleRow, NoSale, GoneSale
  <2>3. row \in SaleRow
    BY <2>2 DEF SaleRow
  <2>4. sale' = [sale EXCEPT ![s] = row]
    BY <1>16, <2>1 DEF Cancel
  <2>5. sale' \in [Request -> SaleRow]
    <3> HIDE DEF row
    <3> QED BY <2>1, <2>3, <2>4
  <2> QED BY <1>16, <2>5 DEF Cancel, TypeOK, Inside
<1>17. ASSUME NEW s \in Request, Delete(s) PROVE TypeOK'
  BY <1>17 DEF Delete, TypeOK, Inside, SaleRow, NoSale, GoneSale, Ask
<1>18. ASSUME NEW s \in Request, NEW p \in Phone, Edit(s, p) PROVE TypeOK'
  <2> DEFINE row == [sale[s] EXCEPT !.number = p, !.edited = TRUE]
  <2>1. sale[s] \in SaleRow /\ sale[s].status = "standing"
    BY <1>18 DEF Edit, TypeOK
  <2>2. row \in SaleRow
    <3>1. sale[s] \in [status: {"draft", "standing", "cancelled"}, number: Phone, day: 0..LastDay, edited: BOOLEAN]
      BY <2>1 DEF SaleRow, NoSale, GoneSale
    <3> QED BY <3>1 DEF SaleRow
  <2>3. sale' = [sale EXCEPT ![s] = row] /\ sale \in [Request -> SaleRow]
    <3>1. sale' = [sale EXCEPT ![s].number = p, ![s].edited = TRUE] /\ sale \in [Request -> SaleRow]
      BY <1>18 DEF Edit, TypeOK
    <3>2. [sale EXCEPT ![s].number = p, ![s].edited = TRUE] = [sale EXCEPT ![s] = row]
      BY <3>1
    <3> QED BY <3>1, <3>2
  <2>4. sale' \in [Request -> SaleRow]
    <3> HIDE DEF row
    <3> QED BY <2>2, <2>3
  <2> QED BY <1>18, <2>4 DEF Edit, TypeOK, Inside
<1>19. CASE Midnight
  BY <1>19 DEF Midnight, TypeOK, Inside, SaleRow, NoSale, GoneSale, Ask
<1>20. CASE UNCHANGED vars
  BY <1>20 DEF vars, TypeOK, Inside, SaleRow, NoSale, GoneSale, Ask
<1> QED BY <1>1, <1>2, <1>3, <1>4, <1>5, <1>6, <1>7, <1>8, <1>9, <1>10, <1>11, <1>12, <1>13, <1>14, <1>15, <1>16, <1>17, <1>18, <1>19, <1>20 DEF Next, Works

\* Rows of numbers are taken and given back with the transaction.
LEMMA HoldingStep == TypeOK /\ Holding /\ [Next]_vars => Holding'
<1> SUFFICES ASSUME TypeOK /\ Holding, [Next]_vars PROVE Holding'
  OBVIOUS
<1> USE EntryAssumption
<1>1. ASSUME NEW r \in Request, Submit(r) PROVE Holding'
  BY <1>1 DEF Submit, Moves, TypeOK, Inside, SaleRow, NoSale, GoneSale, Ask, Holding
<1>2. ASSUME NEW r \in Request, Duplicate(r) PROVE Holding'
  BY <1>2 DEF Duplicate, Commits, Releases, Answers, TypeOK, Inside, SaleRow, NoSale, GoneSale, Ask, Holding
<1>3. ASSUME NEW r \in Request, Used(r) PROVE Holding'
  BY <1>3 DEF Used, RollBack, Releases, Answers, TypeOK, Inside, SaleRow, NoSale, GoneSale, Ask, Holding
<1>4. ASSUME NEW r \in Request, Unused(r) PROVE Holding'
  BY <1>4 DEF Unused, Moves, TypeOK, Inside, SaleRow, NoSale, GoneSale, Ask, Holding
<1>5. ASSUME NEW r \in Request, Refused(r) PROVE Holding'
  BY <1>5 DEF Refused, RollBack, Releases, Answers, TypeOK, Inside, SaleRow, NoSale, GoneSale, Ask, Holding
<1>6. ASSUME NEW r \in Request, SoldAlready(r) PROVE Holding'
  BY <1>6 DEF SoldAlready, RollBack, Releases, Answers, TypeOK, Inside, SaleRow, NoSale, GoneSale, Ask, Holding
<1>7. ASSUME NEW r \in Request, NotSoldYet(r) PROVE Holding'
  BY <1>7 DEF NotSoldYet, Moves, TypeOK, Inside, SaleRow, NoSale, GoneSale, Ask, Holding
<1>8. ASSUME NEW r \in Request, InsertNumber(r) PROVE Holding'
  BY <1>8 DEF InsertNumber, Moves, TypeOK, Inside, SaleRow, NoSale, GoneSale, Ask, Holding
<1>9. ASSUME NEW r \in Request, NumberIsKnown(r) PROVE Holding'
  BY <1>9 DEF NumberIsKnown, Moves, TypeOK, Inside, SaleRow, NoSale, GoneSale, Ask, Holding
<1>10. ASSUME NEW r \in Request, LockNumber(r) PROVE Holding'
  BY <1>10 DEF LockNumber, Moves, TypeOK, Inside, SaleRow, NoSale, GoneSale, Ask, Holding
<1>11. ASSUME NEW r \in Request, InsertJob(r) PROVE Holding'
  BY <1>11 DEF InsertJob, Moves, TypeOK, Inside, SaleRow, NoSale, GoneSale, Ask, Holding
<1>12. ASSUME NEW r \in Request, RecordSale(r) PROVE Holding'
  BY <1>12 DEF RecordSale, Moves, TypeOK, Inside, SaleRow, NoSale, GoneSale, Ask, Holding
<1>13. ASSUME NEW r \in Request, Recorded(r) PROVE Holding'
  BY <1>13 DEF Recorded, Commits, Releases, Answers, TypeOK, Inside, SaleRow, NoSale, GoneSale, Ask, Holding
<1>14. ASSUME NEW r \in Request, Dies(r) PROVE Holding'
  BY <1>14 DEF Dies, RollBack, Releases, Answers, Fault, TypeOK, Inside, SaleRow, NoSale, GoneSale, Ask, Holding
<1>15. ASSUME NEW r \in Request, DiesRecorded(r) PROVE Holding'
  BY <1>15 DEF DiesRecorded, Commits, Releases, Answers, Fault, TypeOK, Inside, SaleRow, NoSale, GoneSale, Ask, Holding
<1>16. ASSUME NEW s \in Request, Cancel(s) PROVE Holding'
  BY <1>16 DEF Cancel, TypeOK, Inside, SaleRow, NoSale, GoneSale, Ask, Holding
<1>17. ASSUME NEW s \in Request, Delete(s) PROVE Holding'
  BY <1>17 DEF Delete, TypeOK, Inside, SaleRow, NoSale, GoneSale, Ask, Holding
<1>18. ASSUME NEW s \in Request, NEW p \in Phone, Edit(s, p) PROVE Holding'
  BY <1>18 DEF Edit, TypeOK, Inside, SaleRow, NoSale, GoneSale, Ask, Holding
<1>19. CASE Midnight
  BY <1>19 DEF Midnight, TypeOK, Inside, SaleRow, NoSale, GoneSale, Ask, Holding
<1>20. CASE UNCHANGED vars
  BY <1>20 DEF vars, TypeOK, Inside, SaleRow, NoSale, GoneSale, Ask, Holding
<1> QED BY <1>1, <1>2, <1>3, <1>4, <1>5, <1>6, <1>7, <1>8, <1>9, <1>10, <1>11, <1>12, <1>13, <1>14, <1>15, <1>16, <1>17, <1>18, <1>19, <1>20 DEF Next, Works

\* A draft is written last and goes with the transaction.
LEMMA RowsStep == TypeOK /\ Rows /\ [Next]_vars => Rows'
<1> SUFFICES ASSUME TypeOK /\ Rows, [Next]_vars PROVE Rows'
  OBVIOUS
<1> USE EntryAssumption
<1>1. ASSUME NEW r \in Request, Submit(r) PROVE Rows'
  BY <1>1 DEF Submit, Moves, TypeOK, Inside, SaleRow, NoSale, GoneSale, Ask, Rows
<1>2. ASSUME NEW r \in Request, Duplicate(r) PROVE Rows'
  BY <1>2 DEF Duplicate, Commits, Releases, Answers, TypeOK, Inside, SaleRow, NoSale, GoneSale, Ask, Rows
<1>3. ASSUME NEW r \in Request, Used(r) PROVE Rows'
  BY <1>3 DEF Used, RollBack, Releases, Answers, TypeOK, Inside, SaleRow, NoSale, GoneSale, Ask, Rows
<1>4. ASSUME NEW r \in Request, Unused(r) PROVE Rows'
  BY <1>4 DEF Unused, Moves, TypeOK, Inside, SaleRow, NoSale, GoneSale, Ask, Rows
<1>5. ASSUME NEW r \in Request, Refused(r) PROVE Rows'
  BY <1>5 DEF Refused, RollBack, Releases, Answers, TypeOK, Inside, SaleRow, NoSale, GoneSale, Ask, Rows
<1>6. ASSUME NEW r \in Request, SoldAlready(r) PROVE Rows'
  BY <1>6 DEF SoldAlready, RollBack, Releases, Answers, TypeOK, Inside, SaleRow, NoSale, GoneSale, Ask, Rows
<1>7. ASSUME NEW r \in Request, NotSoldYet(r) PROVE Rows'
  BY <1>7 DEF NotSoldYet, Moves, TypeOK, Inside, SaleRow, NoSale, GoneSale, Ask, Rows
<1>8. ASSUME NEW r \in Request, InsertNumber(r) PROVE Rows'
  BY <1>8 DEF InsertNumber, Moves, TypeOK, Inside, SaleRow, NoSale, GoneSale, Ask, Rows
<1>9. ASSUME NEW r \in Request, NumberIsKnown(r) PROVE Rows'
  BY <1>9 DEF NumberIsKnown, Moves, TypeOK, Inside, SaleRow, NoSale, GoneSale, Ask, Rows
<1>10. ASSUME NEW r \in Request, LockNumber(r) PROVE Rows'
  BY <1>10 DEF LockNumber, Moves, TypeOK, Inside, SaleRow, NoSale, GoneSale, Ask, Rows
<1>11. ASSUME NEW r \in Request, InsertJob(r) PROVE Rows'
  BY <1>11 DEF InsertJob, Moves, TypeOK, Inside, SaleRow, NoSale, GoneSale, Ask, Rows
<1>12. ASSUME NEW r \in Request, RecordSale(r) PROVE Rows'
  BY <1>12 DEF RecordSale, Moves, TypeOK, Inside, SaleRow, NoSale, GoneSale, Ask, Rows
<1>13. ASSUME NEW r \in Request, Recorded(r) PROVE Rows'
  BY <1>13 DEF Recorded, Commits, Releases, Answers, TypeOK, Inside, SaleRow, NoSale, GoneSale, Ask, Rows
<1>14. ASSUME NEW r \in Request, Dies(r) PROVE Rows'
  BY <1>14 DEF Dies, RollBack, Releases, Answers, Fault, TypeOK, Inside, SaleRow, NoSale, GoneSale, Ask, Rows
<1>15. ASSUME NEW r \in Request, DiesRecorded(r) PROVE Rows'
  BY <1>15 DEF DiesRecorded, Commits, Releases, Answers, Fault, TypeOK, Inside, SaleRow, NoSale, GoneSale, Ask, Rows
<1>16. ASSUME NEW s \in Request, Cancel(s) PROVE Rows'
  BY <1>16 DEF Cancel, TypeOK, Inside, SaleRow, NoSale, GoneSale, Ask, Rows
<1>17. ASSUME NEW s \in Request, Delete(s) PROVE Rows'
  BY <1>17 DEF Delete, TypeOK, Inside, SaleRow, NoSale, GoneSale, Ask, Rows
<1>18. ASSUME NEW s \in Request, NEW p \in Phone, Edit(s, p) PROVE Rows'
  BY <1>18 DEF Edit, TypeOK, Inside, SaleRow, NoSale, GoneSale, Ask, Rows
<1>19. CASE Midnight
  BY <1>19 DEF Midnight, TypeOK, Inside, SaleRow, NoSale, GoneSale, Ask, Rows
<1>20. CASE UNCHANGED vars
  BY <1>20 DEF vars, TypeOK, Inside, SaleRow, NoSale, GoneSale, Ask, Rows
<1> QED BY <1>1, <1>2, <1>3, <1>4, <1>5, <1>6, <1>7, <1>8, <1>9, <1>10, <1>11, <1>12, <1>13, <1>14, <1>15, <1>16, <1>17, <1>18, <1>19, <1>20 DEF Next, Works

\* A job is written once and goes with the transaction, or stays with its sale.
LEMMA JobsStep == TypeOK /\ Rows /\ Jobs /\ [Next]_vars => Jobs'
<1> SUFFICES ASSUME TypeOK /\ Rows /\ Jobs, [Next]_vars PROVE Jobs'
  OBVIOUS
<1> USE EntryAssumption
<1>1. ASSUME NEW r \in Request, Submit(r) PROVE Jobs'
  BY <1>1 DEF Submit, Moves, TypeOK, Inside, SaleRow, NoSale, GoneSale, Ask, Rows, Jobs
<1>2. ASSUME NEW r \in Request, Duplicate(r) PROVE Jobs'
  BY <1>2 DEF Duplicate, Commits, Releases, Answers, TypeOK, Inside, SaleRow, NoSale, GoneSale, Ask, Rows, Jobs
<1>3. ASSUME NEW r \in Request, Used(r) PROVE Jobs'
  BY <1>3 DEF Used, RollBack, Releases, Answers, TypeOK, Inside, SaleRow, NoSale, GoneSale, Ask, Rows, Jobs
<1>4. ASSUME NEW r \in Request, Unused(r) PROVE Jobs'
  BY <1>4 DEF Unused, Moves, TypeOK, Inside, SaleRow, NoSale, GoneSale, Ask, Rows, Jobs
<1>5. ASSUME NEW r \in Request, Refused(r) PROVE Jobs'
  BY <1>5 DEF Refused, RollBack, Releases, Answers, TypeOK, Inside, SaleRow, NoSale, GoneSale, Ask, Rows, Jobs
<1>6. ASSUME NEW r \in Request, SoldAlready(r) PROVE Jobs'
  BY <1>6 DEF SoldAlready, RollBack, Releases, Answers, TypeOK, Inside, SaleRow, NoSale, GoneSale, Ask, Rows, Jobs
<1>7. ASSUME NEW r \in Request, NotSoldYet(r) PROVE Jobs'
  <2>1. /\ UNCHANGED <<asks, sale, job>>
        /\ \/ at[r] = "today" /\ at' = [at EXCEPT ![r] = "insert"]
           \/ at[r] = "guard" /\ at' = [at EXCEPT ![r] = IF asks[r].charge THEN "again" ELSE "sale"]
    BY <1>7 DEF NotSoldYet, Moves
  <2>2. \A q \in Request : q # r => at'[q] = at[q]
    BY <2>1 DEF TypeOK
  <2>3. at'[r] = IF at[r] = "today" THEN "insert" ELSE IF asks[r].charge THEN "again" ELSE "sale"
    BY <2>1 DEF TypeOK
  <2>4. at[r] \in {"today", "guard"}
    BY <2>1
  <2> QED BY <2>1, <2>2, <2>3, <2>4 DEF Jobs
<1>8. ASSUME NEW r \in Request, InsertNumber(r) PROVE Jobs'
  BY <1>8 DEF InsertNumber, Moves, TypeOK, Inside, SaleRow, NoSale, GoneSale, Ask, Rows, Jobs
<1>9. ASSUME NEW r \in Request, NumberIsKnown(r) PROVE Jobs'
  BY <1>9 DEF NumberIsKnown, Moves, TypeOK, Inside, SaleRow, NoSale, GoneSale, Ask, Rows, Jobs
<1>10. ASSUME NEW r \in Request, LockNumber(r) PROVE Jobs'
  BY <1>10 DEF LockNumber, Moves, TypeOK, Inside, SaleRow, NoSale, GoneSale, Ask, Rows, Jobs
<1>11. ASSUME NEW r \in Request, InsertJob(r) PROVE Jobs'
  <2> DEFINE g == asks[r].form
  <2>1. g \in Form /\ job[g] = NoRequest /\ job' = [job EXCEPT ![g] = r] /\ job \in [Form -> Request \cup {NoRequest}]
    BY <1>11 DEF InsertJob, TypeOK, Ask
  <2>2. /\ at[r] = "job" /\ at' = [at EXCEPT ![r] = "sale"] /\ at \in [Request -> {"idle", "token", "today", "insert", "row", "done"} \cup Inside]
        /\ UNCHANGED <<asks, sale>>
    BY <1>11 DEF InsertJob, Moves, TypeOK
  <2>3. asks[r].charge
    BY <1>11, <2>2 DEF Jobs
  <2> HIDE DEF g
  <2> QED BY <2>1, <2>2, <2>3 DEF Jobs, g
<1>12. ASSUME NEW r \in Request, RecordSale(r) PROVE Jobs'
  BY <1>12 DEF RecordSale, Moves, TypeOK, Inside, SaleRow, NoSale, GoneSale, Ask, Rows, Jobs
<1>13. ASSUME NEW r \in Request, Recorded(r) PROVE Jobs'
  BY <1>13 DEF Recorded, Commits, Releases, Answers, TypeOK, Inside, SaleRow, NoSale, GoneSale, Ask, Rows, Jobs
<1>14. ASSUME NEW r \in Request, Dies(r) PROVE Jobs'
  BY <1>14 DEF Dies, RollBack, Releases, Answers, Fault, TypeOK, Inside, SaleRow, NoSale, GoneSale, Ask, Rows, Jobs
<1>15. ASSUME NEW r \in Request, DiesRecorded(r) PROVE Jobs'
  BY <1>15 DEF DiesRecorded, Commits, Releases, Answers, Fault, TypeOK, Inside, SaleRow, NoSale, GoneSale, Ask, Rows, Jobs
<1>16. ASSUME NEW s \in Request, Cancel(s) PROVE Jobs'
  BY <1>16 DEF Cancel, TypeOK, Inside, SaleRow, NoSale, GoneSale, Ask, Rows, Jobs
<1>17. ASSUME NEW s \in Request, Delete(s) PROVE Jobs'
  BY <1>17 DEF Delete, TypeOK, Inside, SaleRow, NoSale, GoneSale, Ask, Rows, Jobs
<1>18. ASSUME NEW s \in Request, NEW p \in Phone, Edit(s, p) PROVE Jobs'
  BY <1>18 DEF Edit, TypeOK, Inside, SaleRow, NoSale, GoneSale, Ask, Rows, Jobs
<1>19. CASE Midnight
  BY <1>19 DEF Midnight, TypeOK, Inside, SaleRow, NoSale, GoneSale, Ask, Rows, Jobs
<1>20. CASE UNCHANGED vars
  BY <1>20 DEF vars, TypeOK, Inside, SaleRow, NoSale, GoneSale, Ask, Rows, Jobs
<1> QED BY <1>1, <1>2, <1>3, <1>4, <1>5, <1>6, <1>7, <1>8, <1>9, <1>10, <1>11, <1>12, <1>13, <1>14, <1>15, <1>16, <1>17, <1>18, <1>19, <1>20 DEF Next, Works

\* Whoever commits a sale of the number would have to hold its row.
LEMMA ApartStep == TypeOK /\ Holding /\ Rows /\ Apart /\ [Next]_vars => Apart'
<1> SUFFICES ASSUME TypeOK /\ Holding /\ Rows /\ Apart, [Next]_vars PROVE Apart'
  OBVIOUS
<1> USE EntryAssumption
<1>1. ASSUME NEW r \in Request, Submit(r) PROVE Apart'
  BY <1>1 DEF Submit, Moves, TypeOK, Inside, SaleRow, NoSale, GoneSale, Ask, Holding, Rows, Apart, Entered, SoldToday
<1>2. ASSUME NEW r \in Request, Duplicate(r) PROVE Apart'
  BY <1>2 DEF Duplicate, Commits, Releases, Answers, TypeOK, Inside, SaleRow, NoSale, GoneSale, Ask, Holding, Rows, Apart, Entered, SoldToday
<1>3. ASSUME NEW r \in Request, Used(r) PROVE Apart'
  BY <1>3 DEF Used, RollBack, Releases, Answers, TypeOK, Inside, SaleRow, NoSale, GoneSale, Ask, Holding, Rows, Apart, Entered, SoldToday
<1>4. ASSUME NEW r \in Request, Unused(r) PROVE Apart'
  BY <1>4 DEF Unused, Moves, TypeOK, Inside, SaleRow, NoSale, GoneSale, Ask, Holding, Rows, Apart, Entered, SoldToday
<1>5. ASSUME NEW r \in Request, Refused(r) PROVE Apart'
  BY <1>5 DEF Refused, RollBack, Releases, Answers, TypeOK, Inside, SaleRow, NoSale, GoneSale, Ask, Holding, Rows, Apart, Entered, SoldToday
<1>6. ASSUME NEW r \in Request, SoldAlready(r) PROVE Apart'
  BY <1>6 DEF SoldAlready, RollBack, Releases, Answers, TypeOK, Inside, SaleRow, NoSale, GoneSale, Ask, Holding, Rows, Apart, Entered, SoldToday
<1>7. ASSUME NEW r \in Request, NotSoldYet(r) PROVE Apart'
  <2>1. /\ UNCHANGED <<asks, sale, today>>
        /\ \/ at[r] = "today" /\ at' = [at EXCEPT ![r] = "insert"]
           \/ at[r] = "guard" /\ at' = [at EXCEPT ![r] = IF asks[r].charge THEN "again" ELSE "sale"]
    BY <1>7 DEF NotSoldYet, Moves
  <2>2. ASSUME NEW s \in Request, ~asks[r].confirmed, Entered(s, asks[r].phone)
        PROVE  sale[s].day < today
    <3>1. sale[s].day \in 0..LastDay /\ today \in 0..LastDay
      BY DEF TypeOK, SaleRow, NoSale, GoneSale, Entered
    <3>2. sale[s].day # today
      BY <1>7, <2>2 DEF NotSoldYet, SoldToday, Entered
    <3> QED BY <3>1, <3>2, EntryAssumption DEF Rows
  <2>3. at \in [Request -> {"idle", "token", "today", "insert", "row", "done"} \cup Inside]
    BY DEF TypeOK
  <2>4. \A q \in Request : q # r => at'[q] = at[q]
    BY <2>1, <2>3
  <2>5. at'[r] # "commit"
    BY <2>1, <2>3
  <2> QED BY <2>1, <2>2, <2>4, <2>5 DEF Apart, Entered
<1>8. ASSUME NEW r \in Request, InsertNumber(r) PROVE Apart'
  BY <1>8 DEF InsertNumber, Moves, TypeOK, Inside, SaleRow, NoSale, GoneSale, Ask, Holding, Rows, Apart, Entered, SoldToday
<1>9. ASSUME NEW r \in Request, NumberIsKnown(r) PROVE Apart'
  BY <1>9 DEF NumberIsKnown, Moves, TypeOK, Inside, SaleRow, NoSale, GoneSale, Ask, Holding, Rows, Apart, Entered, SoldToday
<1>10. ASSUME NEW r \in Request, LockNumber(r) PROVE Apart'
  BY <1>10 DEF LockNumber, Moves, TypeOK, Inside, SaleRow, NoSale, GoneSale, Ask, Holding, Rows, Apart, Entered, SoldToday
<1>11. ASSUME NEW r \in Request, InsertJob(r) PROVE Apart'
  BY <1>11 DEF InsertJob, Moves, TypeOK, Inside, SaleRow, NoSale, GoneSale, Ask, Holding, Rows, Apart, Entered, SoldToday
<1>12. ASSUME NEW r \in Request, RecordSale(r) PROVE Apart'
  BY <1>12 DEF RecordSale, Moves, TypeOK, Inside, SaleRow, NoSale, GoneSale, Ask, Holding, Rows, Apart, Entered, SoldToday
<1>13. ASSUME NEW r \in Request, Recorded(r) PROVE Apart'
  BY <1>13 DEF Recorded, Commits, Releases, Answers, TypeOK, Inside, SaleRow, NoSale, GoneSale, Ask, Holding, Rows, Apart, Entered, SoldToday
<1>14. ASSUME NEW r \in Request, Dies(r) PROVE Apart'
  BY <1>14 DEF Dies, RollBack, Releases, Answers, Fault, TypeOK, Inside, SaleRow, NoSale, GoneSale, Ask, Holding, Rows, Apart, Entered, SoldToday
<1>15. ASSUME NEW r \in Request, DiesRecorded(r) PROVE Apart'
  BY <1>15 DEF DiesRecorded, Commits, Releases, Answers, Fault, TypeOK, Inside, SaleRow, NoSale, GoneSale, Ask, Holding, Rows, Apart, Entered, SoldToday
<1>16. ASSUME NEW s \in Request, Cancel(s) PROVE Apart'
  BY <1>16 DEF Cancel, TypeOK, Inside, SaleRow, NoSale, GoneSale, Ask, Holding, Rows, Apart, Entered, SoldToday
<1>17. ASSUME NEW s \in Request, Delete(s) PROVE Apart'
  BY <1>17 DEF Delete, TypeOK, Inside, SaleRow, NoSale, GoneSale, Ask, Holding, Rows, Apart, Entered, SoldToday
<1>18. ASSUME NEW s \in Request, NEW p \in Phone, Edit(s, p) PROVE Apart'
  BY <1>18 DEF Edit, TypeOK, Inside, SaleRow, NoSale, GoneSale, Ask, Holding, Rows, Apart, Entered, SoldToday
<1>19. CASE Midnight
  <2>1. today \in Int /\ \A s \in Request : sale[s].day \in Int
    BY DEF TypeOK, SaleRow, NoSale, GoneSale
  <2> QED BY <1>19, <2>1 DEF Midnight, Apart, Entered
<1>20. CASE UNCHANGED vars
  BY <1>20 DEF vars, TypeOK, Inside, SaleRow, NoSale, GoneSale, Ask, Holding, Rows, Apart, Entered, SoldToday
<1> QED BY <1>1, <1>2, <1>3, <1>4, <1>5, <1>6, <1>7, <1>8, <1>9, <1>10, <1>11, <1>12, <1>13, <1>14, <1>15, <1>16, <1>17, <1>18, <1>19, <1>20 DEF Next, Works

-----------------------------------------------------------------------------

\* A request whose answer is about to be given has none yet, and nobody's job or
\* sale but its own changes with it.
LEMMA AnswerStep ==
    TypeOK /\ Rows /\ Jobs /\ AnswerIsTrue /\ [Next]_vars => AnswerIsTrue'
<1> SUFFICES ASSUME TypeOK, Rows, Jobs, AnswerIsTrue, [Next]_vars PROVE AnswerIsTrue'
  OBVIOUS
<1> USE EntryAssumption
<1>0. at \in [Request -> {"idle", "token", "today", "insert", "row", "done"} \cup Inside]
  BY DEF TypeOK
<1>1. ASSUME NEW r \in Request, Submit(r) PROVE AnswerIsTrue'
  BY <1>1 DEF Submit, Moves, TypeOK, Inside, SaleRow, NoSale, GoneSale, Ask, NoAnswer, Rows, Jobs, AnswerIsTrue
<1>2. ASSUME NEW r \in Request, Duplicate(r) PROVE AnswerIsTrue'
  BY <1>2 DEF Duplicate, Commits, Releases, Answers, Taken, OwnSale, TypeOK, Inside, SaleRow, NoSale, GoneSale, Ask, NoAnswer, Rows, Jobs, AnswerIsTrue
<1>3. ASSUME NEW r \in Request, Used(r) PROVE AnswerIsTrue'
  BY <1>3 DEF Used, RollBack, Releases, Answers, TypeOK, Inside, SaleRow, NoSale, GoneSale, Ask, NoAnswer, Rows, Jobs, AnswerIsTrue
<1>4. ASSUME NEW r \in Request, Unused(r) PROVE AnswerIsTrue'
  BY <1>4 DEF Unused, Moves, TypeOK, Inside, SaleRow, NoSale, GoneSale, Ask, NoAnswer, Rows, Jobs, AnswerIsTrue
<1>5. ASSUME NEW r \in Request, Refused(r) PROVE AnswerIsTrue'
  BY <1>5 DEF Refused, RollBack, Releases, Answers, TypeOK, Inside, SaleRow, NoSale, GoneSale, Ask, NoAnswer, Rows, Jobs, AnswerIsTrue
<1>6. ASSUME NEW r \in Request, SoldAlready(r) PROVE AnswerIsTrue'
  BY <1>6 DEF SoldAlready, RollBack, Releases, Answers, TypeOK, Inside, SaleRow, NoSale, GoneSale, Ask, NoAnswer, Rows, Jobs, AnswerIsTrue
<1>7. ASSUME NEW r \in Request, NotSoldYet(r) PROVE AnswerIsTrue'
  BY <1>7 DEF NotSoldYet, Moves, TypeOK, Inside, SaleRow, NoSale, GoneSale, Ask, NoAnswer, Rows, Jobs, AnswerIsTrue
<1>8. ASSUME NEW r \in Request, InsertNumber(r) PROVE AnswerIsTrue'
  BY <1>8 DEF InsertNumber, Moves, TypeOK, Inside, SaleRow, NoSale, GoneSale, Ask, NoAnswer, Rows, Jobs, AnswerIsTrue
<1>9. ASSUME NEW r \in Request, NumberIsKnown(r) PROVE AnswerIsTrue'
  BY <1>9 DEF NumberIsKnown, Moves, TypeOK, Inside, SaleRow, NoSale, GoneSale, Ask, NoAnswer, Rows, Jobs, AnswerIsTrue
<1>10. ASSUME NEW r \in Request, LockNumber(r) PROVE AnswerIsTrue'
  BY <1>10 DEF LockNumber, Moves, TypeOK, Inside, SaleRow, NoSale, GoneSale, Ask, NoAnswer, Rows, Jobs, AnswerIsTrue
<1>11. ASSUME NEW r \in Request, InsertJob(r) PROVE AnswerIsTrue'
  BY <1>11 DEF InsertJob, Moves, TypeOK, Inside, SaleRow, NoSale, GoneSale, Ask, NoAnswer, Rows, Jobs, AnswerIsTrue
<1>12. ASSUME NEW r \in Request, RecordSale(r) PROVE AnswerIsTrue'
  BY <1>12 DEF RecordSale, Moves, TypeOK, Inside, SaleRow, NoSale, GoneSale, Ask, NoAnswer, Rows, Jobs, AnswerIsTrue
<1>13. ASSUME NEW r \in Request, Recorded(r) PROVE AnswerIsTrue'
  BY <1>13 DEF Recorded, Commits, Releases, Answers, TypeOK, Inside, SaleRow, NoSale, GoneSale, Ask, NoAnswer, Rows, Jobs, AnswerIsTrue
<1>14. ASSUME NEW r \in Request, Dies(r) PROVE AnswerIsTrue'
  BY <1>14 DEF Dies, RollBack, Releases, Answers, Fault, TypeOK, Inside, SaleRow, NoSale, GoneSale, Ask, NoAnswer, Rows, Jobs, AnswerIsTrue
<1>15. ASSUME NEW r \in Request, DiesRecorded(r) PROVE AnswerIsTrue'
  BY <1>15 DEF DiesRecorded, Commits, Releases, Answers, Fault, TypeOK, Inside, SaleRow, NoSale, GoneSale, Ask, NoAnswer, Rows, Jobs, AnswerIsTrue
<1>16. ASSUME NEW s \in Request, Cancel(s) PROVE AnswerIsTrue'
  BY <1>16 DEF Cancel, TypeOK, Inside, SaleRow, NoSale, GoneSale, Ask, NoAnswer, Rows, Jobs, AnswerIsTrue
<1>17. ASSUME NEW s \in Request, Delete(s) PROVE AnswerIsTrue'
  <2>1. sale \in [Request -> SaleRow] /\ sale' = [sale EXCEPT ![s] = GoneSale]
    BY <1>17 DEF Delete, TypeOK
  <2>2. sale[s].status \notin {"none", "draft"} /\ GoneSale.status \notin {"none", "draft"}
    BY <1>17 DEF Delete, GoneSale
  <2>3. \A q \in Request : /\ sale'[q].status = "none" <=> sale[q].status = "none"
                           /\ sale[q].status \notin {"none", "draft"} => sale'[q].status \notin {"none", "draft"}
    <3>1. sale'[s] = GoneSale /\ \A q \in Request : q # s => sale'[q] = sale[q]
      BY <2>1
    <3> QED BY <2>2, <3>1
  <2>4. UNCHANGED <<at, asks, answer, job>>
    BY <1>17 DEF Delete
  <2> QED BY <2>3, <2>4 DEF AnswerIsTrue
<1>18. ASSUME NEW s \in Request, NEW p \in Phone, Edit(s, p) PROVE AnswerIsTrue'
  BY <1>18 DEF Edit, TypeOK, Inside, SaleRow, NoSale, GoneSale, Ask, NoAnswer, Rows, Jobs, AnswerIsTrue
<1>19. CASE Midnight
  BY <1>19 DEF Midnight, AnswerIsTrue
<1>20. CASE UNCHANGED vars
  BY <1>20 DEF vars, AnswerIsTrue
<1> QED BY <1>1, <1>2, <1>3, <1>4, <1>5, <1>6, <1>7, <1>8, <1>9, <1>10, <1>11, <1>12, <1>13, <1>14, <1>15, <1>16, <1>17, <1>18, <1>19, <1>20 DEF Next, Works

-----------------------------------------------------------------------------

\* Nothing is submitted yet.
LEMMA InitInv == Init => Inv
<1> SUFFICES ASSUME Init PROVE Inv
  OBVIOUS
<1>1. TypeOK
  BY EntryAssumption DEF Init, TypeOK, SaleRow, NoSale, NoAnswer, Inside
<1>2. Holding
  BY EntryAssumption DEF Init, Holding, Inside
<1>3. Rows /\ Jobs
  BY EntryAssumption DEF Init, Rows, Jobs, NoSale
<1>4. Apart /\ AnswerIsTrue
  BY DEF Init, Apart, Entered, AnswerIsTrue, NoSale
<1> QED BY <1>1, <1>2, <1>3, <1>4 DEF Inv

\* The invariant of every run of the form.
LEMMA Invariant == Spec => []Inv
<1>1. Inv /\ [Next]_vars => Inv'
  BY TypingStep, HoldingStep, RowsStep, JobsStep, ApartStep, AnswerStep DEF Inv
<1> QED BY InitInv, <1>1, PTL DEF Spec

\* Every variable keeps its type.
THEOREM TypeCorrect == Spec => []TypeOK
<1>1. Inv => TypeOK
  BY DEF Inv
<1> QED BY Invariant, <1>1, PTL

\* A form charges at most once, however often and by whomever it is submitted.
THEOREM OneCharge == Spec => []OneChargePerForm
<1>1. Inv => OneChargePerForm
  BY DEF Inv, Jobs, OneChargePerForm
<1> QED BY Invariant, <1>1, PTL

\* What the user of a request is told is what the database holds.
THEOREM AnswersAreTrue == Spec => []AnswerIsTrue
<1>1. Inv => AnswerIsTrue
  BY DEF Inv
<1> QED BY Invariant, <1>1, PTL

\* No sale joins another of its number and day unless that was confirmed.
THEOREM RepeatsAreConfirmed == Spec => RepeatWasConfirmed
<1> DEFINE Confirmed ==
      \A r, s \in Request :
          /\ sale[r].status = "draft" /\ sale'[r].status = "standing" /\ ~asks[r].confirmed
          /\ s # r /\ sale[s].status = "standing" /\ ~sale[s].edited
          => ~(sale[s].number = asks[r].phone /\ sale[s].day = sale[r].day)
<1>1. Inv => Confirmed
  <2> SUFFICES ASSUME Inv, NEW r \in Request, NEW s \in Request,
                      sale[r].status = "draft", ~asks[r].confirmed,
                      s # r, sale[s].status = "standing", ~sale[s].edited,
                      sale[s].number = asks[r].phone, sale[s].day = sale[r].day
               PROVE  FALSE
    OBVIOUS
  <2>1. at[r] = "commit"
    BY DEF Inv, Rows
  <2>2. sale[s].day < sale[r].day
    BY <2>1 DEF Inv, Apart, Entered
  <2>3. sale[r].day \in Int
    BY DEF Inv, TypeOK, SaleRow, NoSale, GoneSale
  <2> QED BY <2>2, <2>3
<1>2. Inv => [Confirmed]_vars
  BY <1>1
<1> QED BY Invariant, <1>2, PTL DEF RepeatWasConfirmed
=============================================================================
