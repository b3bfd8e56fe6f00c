------------------------------ MODULE MCExpect ------------------------------
(* Small instances of Expect for TLC. *)
EXTENDS Expect, TLC

MCHash == [t \in Tuples |-> IF t = "t1" THEN 0 ELSE Size - 1]
MCHelper == [m \in Masters |-> "ftp"]
MCId == [e \in Exps |-> <<"id", e>>]
MCAddress == [e \in Exps |-> <<"address", e>>]

AMaster == CHOOSE m \in Masters : TRUE

Base == [op |-> "new", tuple |-> None, master |-> None, flags |-> {}, timeout |-> FALSE,
         id |-> None, name |-> None, fail |-> {}]
New(t, m, fl, fs) == [Base EXCEPT !.tuple = t, !.master = m, !.flags = fl, !.timeout = TRUE, !.fail = fs]
Dump(m) == [Base EXCEPT !.op = "dump", !.master = m]
Attach(m, fs) == [Base EXCEPT !.op = "attach", !.tuple = "t1", !.master = m, !.fail = fs]
DelReq(t, i) == [Base EXCEPT !.op = "del", !.tuple = t, !.id = i]

\* Requests that create, with everything that may go wrong, change, read and
\* delete, by tuple and identifier, by helper and all, and verdicts.
MCRequests ==
  {New(t, m, {"CREATE"}, {}) : t \in Tuples, m \in Masters}
  \cup {New("t1", AMaster, {"CREATE"}, fs) : fs \in {{"parse"}, {"create"}, {"helper"}, {"alloc"}, {"options"}}}
  \cup {New("t1", AMaster, {}, {})}
  \cup {New("t1", AMaster, {"CREATE", "EXCL"}, {})}
  \cup {[Base EXCEPT !.op = "get", !.tuple = "t1"]}
  \cup {DelReq("t1", i) : i \in {None, MCId[CHOOSE e \in Exps : TRUE]}}
  \cup {Attach(AMaster, fs) : fs \in {{}, {"helper"}}}
  \cup {[Base EXCEPT !.op = "del", !.name = n] : n \in {None, "ftp", "sip"}}

\* Some of them, for the dump.
DumpRequests ==
  {New("t1", m, {"CREATE"}, fs) : m \in Masters, fs \in {{}, {"options"}}}
  \cup {[Base EXCEPT !.op = "get", !.tuple = "t1"], DelReq("t1", None), [Base EXCEPT !.op = "del"]}
  \cup {Dump(m) : m \in Masters \cup {None}} \cup {[Dump(m) EXCEPT !.fail = {"helper"}] : m \in Masters}

\* Only the address tells two expectations apart, and no request asks for one.
ExpSymmetry == Permutations(Exps)
=============================================================================
