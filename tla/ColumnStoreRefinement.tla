------------------------ MODULE ColumnStoreRefinement ------------------------
(***************************************************************************)
(* PostgreSQL's column mode implements SqlStore: seen through the joined   *)
(* SELECT, a transaction is one write of one row, at its COMMIT.           *)
(***************************************************************************)
EXTENDS ColumnStore

\* Inside its transaction a call has yet to write.
Stage == [p \in Procs |-> IF pc[p] # "tx" THEN pc[p]
                          ELSE IF req[p].op = "Delete" THEN "called" ELSE "write"]

Rows == INSTANCE SqlStore WITH
          table <- Table, pc <- Stage, Columns <- Attrs \ Extensions, FallbackLimit <- 0,
          PerSecond <- 1, Dialect <- "columns"

\* Create, Replace and Delete of a resource spread over several tables are
\* atomic, and no Get or List sees a part of one.
OneRow == Rows!Spec

=============================================================================
