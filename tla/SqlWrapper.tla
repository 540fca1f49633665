----------------------------- MODULE SqlWrapper -----------------------------
(***************************************************************************)
(* CppSQLite3: who owns a compiled statement (SQLite's virtual machine, a  *)
(* VM) and when it is freed.  A CppSQLite3Query made by a database owns    *)
(* its VM, one made by a CppSQLite3Statement borrows it, and copying       *)
(* either hands the VM over.  An object that has been destroyed is a       *)
(* default-constructed one here: the slot is ready for the next object.    *)
(*                                                                         *)
(* Two calls break that: a failing step frees a VM under the statement     *)
(* that lent it, and an assignment to a statement forgets what it held.    *)
(* What SQLite is asked to do with a freed VM it refuses (SQLITE_MISUSE),  *)
(* unless the memory is a new VM's by then; the other outcome, a fault,    *)
(* ends everything.  The caller is taken to open a database object once    *)
(* and to destroy it after the queries and statements made from it.        *)
(***************************************************************************)
CONSTANTS
  Databases, Queries, Statements, \* the objects of the program
  Handles, VMs,                   \* what SQLite allocates; addresses are used again
  NONE                            \* the null pointer

\* What is taken for granted of the constants.
ConstantsAssumption ==
  /\ Queries \cap Statements = {}
  /\ NONE \notin VMs /\ NONE \notin Handles

VARIABLES
  mpDB,    \* the handle of each database object
  opened,  \* the handles SQLite holds open
  vm,      \* what the last step of each VM gave; "none" for one that is not allocated
  dbOf,    \* the handle it was compiled for
  qVM, mbEof, mbOwnVM, \* the members of the queries
  sVM,     \* mpVM of the statements
  leaked,  \* history: VMs a statement held that was assigned to
  spoiled  \* history: addresses freed while another object had them

vars == <<mpDB, opened, vm, dbOf, qVM, mbEof, mbOwnVM, sVM, leaked, spoiled>>
queries == <<qVM, mbEof, mbOwnVM>>
history == <<leaked, spoiled>>

Live == {v \in VMs : vm[v] # "none"}

TypeOK ==
  /\ mpDB \in [Databases -> Handles \cup {NONE}]
  /\ opened \subseteq Handles
  /\ vm \in [VMs -> {"none", "ready", "row", "done"}]
  /\ dbOf \in [VMs -> Handles \cup {NONE}]
  /\ qVM \in [Queries -> VMs \cup {NONE}]
  /\ mbEof \in [Queries -> BOOLEAN]
  /\ mbOwnVM \in [Queries -> BOOLEAN]
  /\ sVM \in [Statements -> VMs \cup {NONE}]
  /\ leaked \subseteq VMs /\ spoiled \subseteq VMs

Init ==
  /\ mpDB = [d \in Databases |-> NONE] /\ opened = {}
  /\ vm = [v \in VMs |-> "none"] /\ dbOf = [v \in VMs |-> NONE]
  /\ qVM = [q \in Queries |-> NONE] /\ sVM = [s \in Statements |-> NONE]
  /\ mbEof = [q \in Queries |-> TRUE] /\ mbOwnVM = [q \in Queries |-> FALSE]
  /\ leaked = {} /\ spoiled = {}

\* sqlite3_finalize of v, after which m is at each VM what m was and x at v; of the null
\* pointer it does nothing.
Freed(m, v, x) == [w \in VMs |-> IF w = v THEN x ELSE m[w]]
Frees(v) ==
  /\ vm' = Freed(vm, v, "none") /\ dbOf' = Freed(dbOf, v, NONE)
  /\ leaked' = leaked \ {v}

\* What finalize of the query frees.
Owned(q) == IF mbOwnVM[q] THEN qVM[q] ELSE NONE

\* The addresses spoiled when o frees v: v, if another object has it too.
Spoils(o, v) ==
  IF \/ \E q \in Queries \ {o} : qVM[q] = v
     \/ \E s \in Statements \ {o} : sVM[s] = v
  THEN {v} ELSE {}

-----------------------------------------------------------------------------
\* The database.  SQLite allocates a handle even for a file it cannot open.
Open(d) ==
  /\ mpDB[d] = NONE
  /\ \E h \in Handles \ opened :
       /\ mpDB' = [mpDB EXCEPT ![d] = h]
       /\ opened' = opened \cup {h}
  /\ UNCHANGED <<vm, dbOf, queries, sVM, history>>

\* Mutant of Close: the handle is forgotten also when SQLite refuses to close it.
CloseUnchecked(d) ==
  /\ mpDB[d] # NONE
  /\ opened' = IF \E v \in Live : dbOf[v] = mpDB[d] THEN opened ELSE opened \ {mpDB[d]}
  /\ mpDB' = [mpDB EXCEPT ![d] = NONE]
  /\ UNCHANGED <<vm, dbOf, queries, sVM, history>>

\* close, and the destructor; while a VM is left it throws and changes nothing.
Close(d) ==
  /\ mpDB[d] # NONE
  /\ \A v \in Live : dbOf[v] # mpDB[d]
  /\ opened' = opened \ {mpDB[d]}
  /\ mpDB' = [mpDB EXCEPT ![d] = NONE]
  /\ UNCHANGED <<vm, dbOf, queries, sVM, history>>

\* q = db.execQuery(sql).  A statement that does not compile or whose first step fails
\* throws and leaves nothing behind (execScalar always ends so).
ExecQuery(d, q) ==
  /\ mpDB[d] # NONE
  /\ \E v \in VMs \ Live, result \in {"row", "done"} :
       /\ vm' = Freed([vm EXCEPT ![v] = result], Owned(q), "none")
       /\ dbOf' = Freed([dbOf EXCEPT ![v] = mpDB[d]], Owned(q), NONE)
       /\ qVM' = [qVM EXCEPT ![q] = v]
       /\ mbEof' = [mbEof EXCEPT ![q] = (result = "done")]
  /\ mbOwnVM' = [mbOwnVM EXCEPT ![q] = TRUE]
  /\ leaked' = leaked \ {Owned(q)}
  /\ UNCHANGED <<mpDB, opened, sVM, spoiled>>

\* s = db.compileStatement(sql); what s held is not freed.
CompileStatement(d, s) ==
  /\ mpDB[d] # NONE
  /\ \E v \in VMs \ Live :
       /\ vm' = [vm EXCEPT ![v] = "ready"]
       /\ dbOf' = [dbOf EXCEPT ![v] = mpDB[d]]
       /\ sVM' = [sVM EXCEPT ![s] = v]
  /\ leaked' = leaked \cup ({sVM[s]} \cap Live)
  /\ UNCHANGED <<mpDB, opened, queries, spoiled>>

-----------------------------------------------------------------------------
\* The queries.
\* A VM at its end is rewound by the next step, and mbEof stays.
NextRow(q) ==
  /\ qVM[q] # NONE
  /\ \/ /\ qVM[q] \in Live
        /\ vm' = [vm EXCEPT ![qVM[q]] = "row"]
        /\ UNCHANGED <<dbOf, queries, history>>
     \/ /\ qVM[q] \in Live
        /\ vm' = [vm EXCEPT ![qVM[q]] = "done"]
        /\ mbEof' = [mbEof EXCEPT ![q] = TRUE]
        /\ UNCHANGED <<dbOf, qVM, mbOwnVM, history>>
     \/ \* the step fails: the VM is freed, whoever owns it
        /\ Frees(qVM[q])
        /\ spoiled' = spoiled \cup Spoils(q, qVM[q])
        /\ qVM' = [qVM EXCEPT ![q] = NONE]
        /\ UNCHANGED <<mbEof, mbOwnVM>>
  /\ UNCHANGED <<mpDB, opened, sVM>>

\* finalize: a borrowed VM is left alone, and kept.
FinalizeQuery(q) ==
  /\ qVM[q] # NONE /\ mbOwnVM[q]
  /\ Frees(qVM[q])
  /\ qVM' = [qVM EXCEPT ![q] = NONE]
  /\ UNCHANGED <<mpDB, opened, mbEof, mbOwnVM, sVM, spoiled>>

\* The destructor, and the slot's next object.
DestroyQuery(q) ==
  /\ Frees(Owned(q))
  /\ qVM' = [qVM EXCEPT ![q] = NONE]
  /\ mbEof' = [mbEof EXCEPT ![q] = TRUE]
  /\ mbOwnVM' = [mbOwnVM EXCEPT ![q] = FALSE]
  /\ UNCHANGED <<mpDB, opened, sVM, spoiled>>

\* Mutant of MoveQuery: both queries have the VM afterwards.
MoveQueryShares(q, r) ==
  /\ Frees(Owned(r))
  /\ qVM' = [qVM EXCEPT ![r] = qVM[q]]
  /\ mbEof' = [mbEof EXCEPT ![r] = mbEof[q]]
  /\ mbOwnVM' = [mbOwnVM EXCEPT ![r] = mbOwnVM[q]]
  /\ UNCHANGED <<mpDB, opened, sVM, spoiled>>

\* r = q, or r copied from q.  Of q = q only a query without a VM is left.
MoveQuery(q, r) ==
  /\ Frees(Owned(r))
  /\ qVM' = [qVM EXCEPT ![r] = qVM[q], ![q] = NONE]
  /\ mbEof' = [mbEof EXCEPT ![r] = mbEof[q]]
  /\ mbOwnVM' = [mbOwnVM EXCEPT ![r] = mbOwnVM[q]]
  /\ UNCHANGED <<mpDB, opened, sVM, spoiled>>

-----------------------------------------------------------------------------
\* The statements.
\* q = s.execQuery(): the step is made first, then what q held is freed.
StatementQuery(s, q) ==
  /\ sVM[s] \in Live
  /\ \E result \in {"row", "done"} :
       /\ vm' = Freed([vm EXCEPT ![sVM[s]] = result], Owned(q), "none")
       /\ mbEof' = [mbEof EXCEPT ![q] = (result = "done")]
  /\ dbOf' = Freed(dbOf, Owned(q), NONE) /\ leaked' = leaked \ {Owned(q)}
  /\ qVM' = [qVM EXCEPT ![q] = sVM[s]]
  /\ mbOwnVM' = [mbOwnVM EXCEPT ![q] = FALSE]
  /\ UNCHANGED <<mpDB, opened, sVM, spoiled>>

\* reset; execDML, and an execQuery whose step fails, end with the same.
Reset(s) ==
  /\ sVM[s] \in Live
  /\ vm' = [vm EXCEPT ![sVM[s]] = "ready"]
  /\ UNCHANGED <<mpDB, opened, dbOf, queries, sVM, history>>

\* finalize, and the destructor, whether a query made from it is still there or not.
FinalizeStatement(s) ==
  /\ sVM[s] # NONE
  /\ Frees(sVM[s])
  /\ spoiled' = spoiled \cup Spoils(s, sVM[s])
  /\ sVM' = [sVM EXCEPT ![s] = NONE]
  /\ UNCHANGED <<mpDB, opened, queries>>

\* t = s, s = s included.  What t held is not freed.
MoveStatement(s, t) ==
  /\ sVM' = [sVM EXCEPT ![t] = sVM[s], ![s] = NONE]
  /\ leaked' = leaked \cup ({sVM[t]} \cap Live)
  /\ UNCHANGED <<mpDB, opened, vm, dbOf, queries, spoiled>>

Next ==
  \/ \E d \in Databases :
       \/ Open(d) \/ Close(d)
       \/ \E q \in Queries : ExecQuery(d, q)
       \/ \E s \in Statements : CompileStatement(d, s)
  \/ \E q \in Queries :
       \/ NextRow(q) \/ FinalizeQuery(q) \/ DestroyQuery(q)
       \/ \E r \in Queries : MoveQuery(q, r)
  \/ \E s \in Statements :
       \/ Reset(s) \/ FinalizeStatement(s)
       \/ \E q \in Queries : StatementQuery(s, q)
       \/ \E t \in Statements : MoveStatement(s, t)

Spec == Init /\ [][Next]_vars

-----------------------------------------------------------------------------
Owns(o, v) == \/ o \in Queries /\ qVM[o] = v /\ mbOwnVM[o]
              \/ o \in Statements /\ sVM[o] = v

\* Addresses of VMs nobody has freed under another object.
Sound == VMs \ spoiled

\* Every VM that is allocated has an owner and only one: it is freed neither twice nor
\* never, whatever is copied, assigned to, finalized or destroyed in between.  Only what a
\* statement held that was assigned to (line 930) is nobody's any more.
OneOwner ==
  \A v \in Live \cap Sound :
    /\ v \in leaked <=> \A o \in Queries \cup Statements : ~Owns(o, v)
    /\ \A o, p \in Queries \cup Statements : Owns(o, v) /\ Owns(p, v) => o = p

\* No object, a borrower included, is left with the address of a VM that has been freed;
\* the memory may be another statement's by then.  Only two calls free a VM that another
\* object has, and spoil its address: nextRow of a borrower whose step fails (line 597), and
\* finalize of a statement while a query borrows from it.
NoStaleVM ==
  /\ \A q \in Queries : qVM[q] \in Live \cup {NONE} \cup spoiled
  /\ \A s \in Statements : sVM[s] \in Live \cup {NONE} \cup spoiled

\* A handle that SQLite keeps open belongs to one database object, which can still close
\* it once no VM is left, and a VM never outlives the handle it was compiled for: freed
\* addresses and VMs nobody has any more included.
HandlesHeld ==
  /\ \A h \in opened : \E d \in Databases : mpDB[d] = h
  /\ \A d, e \in Databases : mpDB[d] = mpDB[e] /\ mpDB[d] # NONE => d = e
  /\ \A d \in Databases : mpDB[d] \in opened \cup {NONE}
  /\ \A v \in VMs : IF v \in Live THEN dbOf[v] \in opened ELSE dbOf[v] = NONE

\* The loop "while (!query.eof())" reads a row: an owning query that is not at its end has
\* a VM that stands on one.
NotAtEofHasRow ==
  \A q \in Queries :
    qVM[q] \in Sound /\ mbOwnVM[q] /\ ~mbEof[q] => vm[qVM[q]] = "row"
=============================================================================
