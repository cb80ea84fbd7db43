-------------------------- MODULE MCMigrationText --------------------------
(* Every short text, and longer ones of the tokens that matter to the      *)
(* splitter alone and to the rules of the lint.                            *)
EXTENDS MigrationText

MCInputs ==
    { [alphabet |-> Tokens, length |-> 4],
      [alphabet |-> {";", "'", "$$", "$b$", "--", "nl", "a"}, length |-> 6],
      [alphabet |-> {";", "'", "$b1$", "dquote", "--", "nl", "a"}, length |-> 6],
      [alphabet |-> {";", "'", "--", " ", "nl", "drop", "lock_timeout"}, length |-> 6],
      [alphabet |-> {";", "'", "--", "nl", "add column", "not null", "lock_timeout"}, length |-> 6],
      [alphabet |-> {" ", "nl", "--allow baseline", "--allow index", "create index", "a"}, length |-> 7],
      [alphabet |-> {";", " ", "nl", "--notx", "create index", "concurrently", "lock_timeout", "a"}, length |-> 6],
      [alphabet |-> {";", "$$", "nl", "--notx", "BEGIN", "--allow drop", "lock_timeout"}, length |-> 6] }
=============================================================================
