------------------------------ MODULE TextToSQL ------------------------------
(***************************************************************************)
(* ai/text_to_sql.py: what becomes of the query an LLM proposes.  sqlparse *)
(* and PostgreSQL are external and read a text by grammars of their own: a *)
(* query is what each of them makes of it, and neither follows from the    *)
(* other.                                                                  *)
(***************************************************************************)
LOCAL INSTANCE Sequences

(* sqlparse: stmts[i] is get_type(), words whether a forbidden keyword is  *)
(* among the tokens, barred whether the pattern occurs.  PostgreSQL:       *)
(* whether executing the text writes.                                      *)
Query == [stmts : {<<>>, <<"SELECT">>, <<"DELETE">>, <<"SELECT", "DELETE">>},
          words : BOOLEAN, barred : BOOLEAN, writes : BOOLEAN]

NoQuery == [stmts |-> <<>>, words |-> FALSE, barred |-> FALSE, writes |-> FALSE]

(* A DELETE is a forbidden keyword; the empty text is none and does none.  *)
Proposals ==
  {q \in Query : /\ q.stmts = <<>> => q = NoQuery
                 /\ q.stmts \notin {<<>>, <<"SELECT">>} => q.words}

(* validate_select_only                                                    *)
Accepted(q) == q.stmts = <<"SELECT">> /\ ~q.words /\ ~q.barred

=============================================================================
