------------------------------ MODULE MCSession ------------------------------
(* One window, at most three connections, and beside them one or two of each *)
(* kind of call; the second connection goes through a jump host.             *)
EXTENDS SessionLifecycle

CONSTANTS c1, c2, c3, leave, shut, help1, help2, term1, term2, hang, see, film, cut, start1, start2,
          startR, stop, stopR, serve1, serve2, halt, gauge, L, R, k1,
          scan1, scan2, grab1, grab2, drop, root, sub, pic, clip, doc

MCKind == [t \in Tunnels |-> IF t = L THEN "dynamic" ELSE "remote"]
MCTunnelOf == [s \in Starts \cup Stops |-> IF s \in {startR, stopR} THEN R ELSE L]
MCTerminalOf == [x \in Hangups |-> term1]
MCFilmOf == [x \in Cuts |-> film]
MCServeOf == [x \in Halts |-> serve1]
MCListing == root :> <<pic, doc, sub>> @@ sub :> <<clip>>
MCSize == pic :> 2 @@ clip :> 2 @@ doc :> 1
MCRoot == scan1 :> root @@ scan2 :> sub @@ grab1 :> sub @@ grab2 :> pic @@ drop :> pic
MCMixes ==
    {{c1, c2, c} : c \in {shut, term2, start1, help1, gauge}}
    \cup {{c1, leave, serve1}, {c1, leave, shut, start1}}
    \cup {{c1, leave, c2, term1}, {c1, leave, start1, startR}, {c1, leave, start1, serve1}, {c1, leave, help1, help2}}
    \cup {{c1, term1, hang}, {c1, term1, term2, see}, {c1, film, cut}, {c1, shut, film}}
    \cup {{c1, start1, start2}, {c1, start1, stop}, {c1, startR, stopR}}
    \cup {{c1, serve1, serve2, halt}}
    \cup {{c1, scan1, scan2}, {c1, leave, scan1, grab1}, {c1, c2, scan1, grab2}, {c1, scan1, grab2, drop}}
    \cup {{c1, c2, c3, scan2}}
=============================================================================
