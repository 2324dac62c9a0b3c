--------------------------- MODULE MCEndpointHost ---------------------------
(***************************************************************************)
(* Five parts of the endpoint that share no variable, each checked for     *)
(* itself: focus is the part that moves, and the others stay where they    *)
(* began.                                                                  *)
(***************************************************************************)
EXTENDS LocalServices, ScannerCache, BrowserSignIn, DemoLab, HookAdapters

CONSTANTS r1, r2, c1, c2, t1, t2, w1, w2, e1, e2, p1, p2

VARIABLE focus

host == <<services, scanner, signIn, demo, hookFile>>

HostTypeOK ==
    ServicesTypeOK /\ ScannerTypeOK /\ SignInTypeOK /\ DemoTypeOK /\ HooksTypeOK

HostInit ==
    /\ focus \in {"services", "scanner", "sign-in", "demo", "hooks"}
    /\ ServicesInit /\ (focus = "services" \/ (~Linux /\ stray = "none" /\ export))
    /\ ScannerInit /\ SignInInit /\ DemoInit
    /\ HooksInit /\ (focus = "hooks" \/ (file = Absent /\ own))

ServicesMove == /\ focus = "services" /\ ServicesNext
                /\ UNCHANGED <<focus, scanner, signIn, demo, hookFile>>
ScannerRests == UNCHANGED <<focus, services, signIn, demo, hookFile>>
ScannerMoves == focus = "scanner" /\ ScannerNext /\ ScannerRests
SignInMoves == /\ focus = "sign-in" /\ SignInNext
               /\ UNCHANGED <<focus, services, scanner, demo, hookFile>>
DemoMoves == /\ focus = "demo" /\ DemoNext
             /\ UNCHANGED <<focus, services, scanner, signIn, hookFile>>
HooksMove == /\ focus = "hooks" /\ HooksNext
             /\ UNCHANGED <<focus, services, scanner, signIn, demo>>

HostNext == ServicesMove \/ ScannerMoves \/ SignInMoves \/ DemoMoves \/ HooksMove

HostSpec ==
    /\ HostInit /\ [][HostNext]_<<focus, host>>
    /\ WF_<<focus, host>>(focus = "scanner" /\ Advance /\ ScannerRests)
    /\ WF_<<focus, host>>(focus = "scanner" /\ Lapse /\ ScannerRests)

\* CacheConverges, where the scanner is what moves.
ScannerConverges == focus = "scanner" => CacheConverges
=============================================================================
