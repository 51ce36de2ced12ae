---------------------------- MODULE MCFileWalk ----------------------------
(***************************************************************************)
(* A small file system for FileWalk: three levels of directories, regular  *)
(* files, a symbolic link back to the start, a directory whose path is too *)
(* long, and one that holds an entry of unknown type.                      *)
(***************************************************************************)
EXTENDS FileWalk

MCNames == {"top", "sub", "deep", "odd", "long", "file", "link", "note", "socket"}

MCKind ==
    [n \in MCNames |->
        IF n \in {"top", "sub", "deep", "odd", "long"} THEN "DIR"
        ELSE IF n \in {"file", "note"} THEN "REG"
        ELSE IF n = "socket" THEN "UNKNOWN" ELSE "OTHER"]

MCContents ==
    [n \in MCNames |->
        IF n \in {"top", "link"} THEN {"sub", "odd", "link", "note"}
        ELSE IF n = "sub" THEN {"long", "deep", "file"}
        ELSE IF n = "odd" THEN {"socket"} ELSE {}]

=============================================================================
