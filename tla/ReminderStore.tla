--------------------------- MODULE ReminderStore ---------------------------
(***************************************************************************)
(* The operations of internal/reminder/store.go on the contents of         *)
(* reminders.json.                                                         *)
(*                                                                         *)
(* Every operation of the store holds its mutex from the read of the file  *)
(* to the rename that replaces it, so an operation is one function from    *)
(* file contents to file contents.  Add appends and the filters keep the   *)
(* order, so the file is always ordered by age: with identifiers numbered  *)
(* in the order Add hands them out, the contents are a set of records and  *)
(* the file order is the order of the identifiers.                         *)
(***************************************************************************)
EXTENDS Naturals

(* Add: append a new reminder, which has no failed send yet.               *)
Add(file, id, user, dueAt) ==
    file \cup {[id |-> id, user |-> user, dueAt |-> dueAt, sendAttempts |-> 0]}

(* Faulty: takes a reminder one tick before its time.                      *)
DueOneTickEarly(file, before) == {r \in file : r.dueAt <= before + 1}

(* Due: a copy of the reminders whose time is not after "before".          *)
Due(file, before) == {r \in file : r.dueAt <= before}

(* Remove: drop the reminder with this identifier; no error if none has it *)
Remove(file, id) == {r \in file : r.id # id}

OfUser(file, user) == {r \in file : r.user = user}

RemoveAllForUser(file, user) == file \ OfUser(file, user)

(* IncrementSendAttempts: count a failed send; if the identifier is not    *)
(* there (an error in the code) the file stays as it is.                   *)
IncrementSendAttempts(file, id) ==
    {IF r.id = id THEN [r EXCEPT !.sendAttempts = @ + 1] ELSE r : r \in file}

Ids(file) == {r.id : r \in file}

(* The reminder that comes first in file order.                            *)
IsFirst(r, file) == r \in file /\ \A s \in file : r.id <= s.id
============================================================================
