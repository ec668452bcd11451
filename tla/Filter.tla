------------------------------- MODULE Filter -------------------------------
(***************************************************************************)
(* The post filter: the table regexps and its compiled copy in memory,     *)
(* which moderators change in two steps and every saved post is matched    *)
(* against (database/sqlite3.go, routes/admin.go).                         *)
(*                                                                         *)
(* A text is the set of patterns it matches.  The process may be restarted *)
(* at any time: by its owner, or by Go, which kills a process that writes  *)
(* a map while another goroutine uses it, as db.regexps allows.            *)
(*                                                                         *)
(* The names that every specification has begin with Filter here, because  *)
(* DeskProofs extends two.                                                 *)
(***************************************************************************)
EXTENDS Integers, FiniteSets

CONSTANTS
    Requests,      \* requests of moderators that may run at once
    Patterns,      \* regexps that compile
    NoPattern,     \* no pattern
    MaxId,         \* bound: the largest rowid
    MayFail        \* may a DELETE fail?

ASSUME FilterAssumption ==
    /\ NoPattern \notin Patterns
    /\ MaxId \in Nat
    /\ MayFail \in BOOLEAN

VARIABLES
    regexps,   \* the table: rowid -> pattern
    compiled,  \* db.regexps: number -> compiled pattern
    last,      \* last_insert_rowid of the connection, over all tables
    req,       \* each request: its next step and what it holds
    clean      \* history: has every change since the last start been made
               \* with no other under way, of a new pattern, without failure?

filterVars == <<regexps, compiled, last, req, clean>>

-----------------------------------------------------------------------------
Put(f, k, v) == [x \in DOMAIN f \cup {k} |-> IF x = k THEN v ELSE f[x]]

Drop(f, k) == [x \in DOMAIN f \ {k} |-> f[x]]

Stored == {regexps[id] : id \in DOMAIN regexps}
InForce == {compiled[id] : id \in DOMAIN compiled}

(* SavePostTx: a text passes unless a compiled pattern matches it.         *)
Passes(text) == InForce \cap text = {}

Idle == [pc |-> "idle", id |-> 0, pattern |-> NoPattern]
Settled == \A p \in Requests : req[p] = Idle

(* The rowid of a new row: above all that are there.  The key is not       *)
(* AUTOINCREMENT, so the number of a row that is gone may return.          *)
NextId(id) ==
    /\ \A x \in DOMAIN regexps : x < id
    /\ id = 1 \/ id - 1 \in DOMAIN regexps

-----------------------------------------------------------------------------
FilterInit ==
    /\ regexps = <<>> /\ compiled = <<>>
    /\ last = 0
    /\ req = [p \in Requests |-> Idle]
    /\ clean = TRUE

(* PostRegexp, AddRegexp: the pattern compiles and is inserted.            *)
AddRegexp(p, pattern) ==
    /\ req[p] = Idle
    /\ pattern \notin Stored
    /\ \E id \in 1 .. MaxId :
        /\ NextId(id)
        /\ regexps' = Put(regexps, id, pattern)
        /\ last' = id
        /\ req' = [req EXCEPT ![p] = [pc |-> "compile", id |-> id, pattern |-> pattern]]
    /\ clean' = (clean /\ Settled)
    /\ UNCHANGED compiled

(* INSERT OR IGNORE of a stored pattern: no row, and LastInsertId is what  *)
(* the last insert before it left.                                         *)
AddIgnored(p, pattern) ==
    /\ req[p] = Idle
    /\ pattern \in Stored
    /\ req' = [req EXCEPT ![p] = [pc |-> "compile", id |-> last, pattern |-> pattern]]
    /\ clean' = FALSE
    /\ UNCHANGED <<regexps, compiled, last>>

(* Slip: the compiled pattern is appended, not stored under its number. *)
SlipAdded(p) ==
    /\ req[p].pc = "compile"
    /\ compiled' = Put(compiled, Cardinality(DOMAIN compiled) + 1, req[p].pattern)
    /\ req' = [req EXCEPT ![p] = Idle]
    /\ UNCHANGED <<regexps, last, clean>>

(* db.regexps[id] = re                                                     *)
Added(p) ==
    /\ req[p].pc = "compile"
    /\ compiled' = Put(compiled, req[p].id, req[p].pattern)
    /\ req' = [req EXCEPT ![p] = Idle]
    /\ UNCHANGED <<regexps, last, clean>>

(* Slip: the row is deleted, the compiled pattern is forgotten. *)
SlipDeleteRegexp(p, id) ==
    /\ req[p] = Idle
    /\ req' = [req EXCEPT ![p] = [pc |-> "delete", id |-> id, pattern |-> NoPattern]]
    /\ clean' = (clean /\ Settled)
    /\ UNCHANGED <<regexps, compiled, last>>

(* GetRegexpDelete, DeleteRegexp: any number, the map first.               *)
DeleteRegexp(p, id) ==
    /\ req[p] = Idle
    /\ compiled' = Drop(compiled, id)
    /\ req' = [req EXCEPT ![p] = [pc |-> "delete", id |-> id, pattern |-> NoPattern]]
    /\ clean' = (clean /\ Settled)
    /\ UNCHANGED <<regexps, last>>

Deleted(p) ==
    /\ req[p].pc = "delete"
    /\ regexps' = Drop(regexps, req[p].id)
    /\ req' = [req EXCEPT ![p] = Idle]
    /\ UNCHANGED <<compiled, last, clean>>

(* The DELETE fails: the row stays, out of force until a restart.          *)
DeleteFails(p) ==
    /\ MayFail
    /\ req[p].pc = "delete"
    /\ req' = [req EXCEPT ![p] = Idle]
    /\ clean' = FALSE
    /\ UNCHANGED <<regexps, compiled, last>>

(* A post that passes, a report, a captcha, a record of moderation: an     *)
(* insert into another table.                                              *)
InsertElsewhere(id) ==
    /\ last' = id
    /\ UNCHANGED <<regexps, compiled, req, clean>>

(* The process ends and starts again: the table is read and compiled.      *)
Restart ==
    /\ compiled' = regexps
    /\ last' = 0
    /\ req' = [p \in Requests |-> Idle]
    /\ clean' = TRUE
    /\ UNCHANGED regexps

FilterNext ==
    \/ \E p \in Requests :
        \/ \E pattern \in Patterns : AddRegexp(p, pattern) \/ AddIgnored(p, pattern)
        \/ \E id \in 0 .. MaxId : DeleteRegexp(p, id)
        \/ Added(p) \/ Deleted(p) \/ DeleteFails(p)
    \/ \E id \in 1 .. MaxId : InsertElsewhere(id)
    \/ Restart

FilterSpec == FilterInit /\ [][FilterNext]_filterVars

-----------------------------------------------------------------------------
Maps(numbers) == UNION {[S -> Patterns] : S \in SUBSET numbers}

(* Every variable keeps its type: regexps holds patterns under rowids,     *)
(* db.regexps nothing but what was added.                                  *)
FilterTypeOK ==
    /\ regexps \in Maps(1 .. MaxId)
    /\ compiled \in Maps(0 .. MaxId)
    /\ last \in 0 .. MaxId
    /\ req \in [Requests -> [pc : {"idle", "compile", "delete"}, id : 0 .. MaxId,
                             pattern : Patterns \cup {NoPattern}]]
    /\ clean \in BOOLEAN

(* "These filters reject posts that match these regexps"                   *)
(* (views/admin/index.html:83): once changes are done, a post that matches *)
(* a listed pattern is rejected.                                           *)
ListedReject ==
    Settled => \A text \in SUBSET Patterns : Passes(text) => text \cap Stored = {}

(* After changes made one at a time, of new patterns, without failure, a   *)
(* post is rejected just if it matches a listed pattern, whatever numbers  *)
(* come back and wherever the process was restarted; and a restart puts    *)
(* right what other changes upset.                                         *)
Rejects ==
    (Settled /\ clean) =>
        \A text \in SUBSET Patterns : Passes(text) <=> text \cap Stored = {}

(* While such a change is under way only its own pattern is in doubt:      *)
(* SavePostTx, which may run between its two steps, treats all others as   *)
(* they are listed.                                                        *)
OnlyInDoubt ==
    clean => \A id \in DOMAIN regexps \cup DOMAIN compiled :
        \/ \E p \in Requests : req[p] # Idle /\ req[p].id = id
        \/ /\ id \in DOMAIN regexps \cap DOMAIN compiled
           /\ regexps[id] = compiled[id]
=============================================================================
