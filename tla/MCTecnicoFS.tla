------------------------------ MODULE MCTecnicoFS ------------------------------
(* The instances TLC checks.                                                       *)
(*                                                                                 *)
(* No operation reads "reply", and none but tfs_read's reply reads "fs_data", so   *)
(* states that differ there only have the same future: the views leave them out    *)
(* of the fingerprint where the properties checked do not mention them either      *)
(* (action properties are checked on every step TLC generates, known state or not).*)
EXTENDS TecnicoFS, TLC

Symmetry ==
    Permutations(Names \ (BadNames \cup LongNames)) \cup Permutations(Bytes)

WithoutReply == <<disk, open_file_table, aborted>>
Structure ==
    <<inode_table, freeinode_ts, free_blocks, dir_entry, open_file_table, aborted>>
================================================================================
