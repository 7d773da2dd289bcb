------------------------------ MODULE MCParts -------------------------------
(***************************************************************************)
(* The parts that share no state with each other, side by side: every      *)
(* behaviour is one of one part, and the others rest in an initial state.  *)
(***************************************************************************)
EXTENDS MCInstaller, TokenSource, LimitRefresher, MCScan, MCCodexProvenance, ToolCalls,
        SessionFigures, MCScreens, MCDecoder, MCFileEdits, LineLedger

VARIABLE part

allVars == <<part, installerVars, tokenVars, limitVars, scanVars, vars, toolVars, figureVars,
             calendarVars, homeVars, screenVars, pageVars, decoderVars, editVars, ledgerVars>>

Part == {"installer", "token", "limits", "scan", "provenance", "tools", "figures",
         "calendar", "home", "screen", "pages", "decoder", "edits", "ledger"}

RestingFile == CHOOSE f \in FileId : TRUE

\* Only the part that runs has all of its initial states.
Resting ==
    /\ part # "scan" => content = [f \in FileId |-> IF f = RestingFile THEN <<Meta, BadLine>> ELSE <<>>]
    /\ part # "tools" => given = [calls |-> TRUE, turns |-> TRUE]
    /\ part # "figures" => temporality = "delta"
    /\ part # "calendar" => zone = UTC /\ range = [first |-> 3, last |-> 3]
    /\ part # "home" => sessions = [s \in Session |-> NoSession] /\ surface = "snapshot"
    /\ part # "screen" => sessionRows = (CHOOSE db \in Databases : TRUE) /\ screen = "session"
    /\ part # "pages" => lines = [s \in Listed |-> NoLine] /\ asking = AllSessions
    /\ part # "decoder" => kind = "logs" /\ skip = FALSE
    /\ part # "edits" => patchText = <<>>

PartsInit ==
    /\ part \in Part /\ Resting
    /\ EditInit /\ DecoderInit /\ LedgerInit
    /\ InstallerInit /\ TokenInit /\ LimitInit /\ ScanInit /\ Init /\ ToolInit /\ FigureInit
    /\ CalendarInit /\ HomeInit /\ ScreenInit /\ PagesInit

OthersRest ==
    /\ part # "installer" => UNCHANGED installerVars
    /\ part # "token" => UNCHANGED tokenVars
    /\ part # "limits" => UNCHANGED limitVars
    /\ part # "scan" => UNCHANGED scanVars
    /\ part # "provenance" => UNCHANGED vars
    /\ part # "tools" => UNCHANGED toolVars
    /\ part # "figures" => UNCHANGED figureVars
    /\ part # "calendar" => UNCHANGED calendarVars
    /\ part # "home" => UNCHANGED homeVars
    /\ part # "screen" => UNCHANGED screenVars
    /\ part # "pages" => UNCHANGED pageVars
    /\ part # "decoder" => UNCHANGED decoderVars
    /\ part # "edits" => UNCHANGED editVars
    /\ part # "ledger" => UNCHANGED ledgerVars

PartsNext ==
    /\ UNCHANGED part /\ OthersRest
    /\ \/ part = "installer" /\ InstallerNext
       \/ part = "token" /\ TokenNext
       \/ part = "limits" /\ LimitNext
       \/ part = "scan" /\ ScanNext
       \/ part = "provenance" /\ Next
       \/ part = "tools" /\ ToolNext
       \/ part = "figures" /\ FigureNext
       \/ part = "calendar" /\ CalendarNext
       \/ part = "home" /\ HomeNext
       \/ part = "screen" /\ ScreenNext
       \/ part = "pages" /\ PagesNext
       \/ part = "decoder" /\ DecoderNext
       \/ part = "edits" /\ EditNext
       \/ part = "ledger" /\ LedgerNext

PartsSpec == PartsInit /\ [][PartsNext]_allVars
=============================================================================
