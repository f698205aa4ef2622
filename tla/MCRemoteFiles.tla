---------------------------- MODULE MCRemoteFiles ----------------------------
(* Two names.  Every call but two works on the first: a save has to cope    *)
(* with each other call on its file, an upload with each on its part.       *)
EXTENDS RemoteTransfers

CONSTANTS f, g, D, a, b, save1, save2, create, rename, delete, rmdir, list, search, searchFew, preview, put, putAll, putAsk, get, getAgain

MCSize == [v \in {a, b} |-> IF v = a THEN 2 ELSE 1]
MCTarget == [c \in Calls |-> IF c = rmdir THEN D ELSE f]
MCNewName == [c \in Renames |-> g]
MCEdition == [v \in {a, b} |-> IF v = a THEN 1 ELSE 2]
MCData == [s \in Saves |-> IF s = save1 THEN a ELSE b]
MCFilesOf == [t \in Transfers |-> IF t \in {putAll} THEN {f, g} ELSE {f}]
MCStrategy == [t \in Transfers |-> IF t \in {putAll} THEN "skip"
                                   ELSE IF t = putAsk THEN "ask" ELSE "overwrite"]
MCHitsIn == [n \in {f, g} |-> IF n = f THEN 2 ELSE 1]
MCMaxResults == [c \in Searches |-> IF c = search THEN 4 ELSE 2]
MCMixes ==
    {{search}, {searchFew}} \cup {{save1, c} : c \in {save2, put, delete, rmdir, rename, create, get, preview}}
    \cup {{put, c} : c \in {putAsk, rmdir}} \cup {{putAll}, {putAsk, delete}, {putAsk, rename}}
    \cup {{get, c} : c \in {getAgain, rename, delete}}
    \cup {{list, c} : c \in {create, rename, delete, rmdir, put}}
==============================================================================
