------------------------------ MODULE MCServices ------------------------------
(***************************************************************************)
(* Nine services that share no state, checked side by side: each behaviour *)
(* is one of one service, chosen at the start, while the others stay in    *)
(* their initial states.  The states add up instead of multiplying.        *)
(***************************************************************************)
EXTENDS CaptureLog, UiaClient, TriggerMachine, ThrottleGovernor, ReportDelivery, ModelDownload,
        SessionScheduler, HistoryPages, ApiServer

VARIABLE service    \* the one that moves

Services == {"log", "uia", "trigger", "throttle", "report", "download", "session", "pages", "api"}

CONSTANTS word, browser

\* What the screen shows: up to the first pass a word processor, at times; then
\* that, a browser or nothing.
WordThenAnything ==
    [t \in 1..LastInstant |-> IF t = 1 THEN {word}
                              ELSE IF t <= FirstPass THEN {word, NoApp}
                              ELSE {word, browser, NoApp}]

\* One initial state of each service that does not move; and the chats are
\* interchangeable.
Plainly ==
    /\ telegram.chat = CHOOSE c \in Chats : TRUE
    /\ service # "log" => unavailableBefore = LogHorizon
    /\ service # "trigger" => idleThreshold = CHOOSE t \in IdleThresholds : TRUE
    /\ service # "throttle" => ~throttleEnabled
    /\ service # "session" => \A t \in Instants : shot[t] # NoApp => t = 1
    /\ service # "pages" => feed = "frames"
    /\ service # "api" => saved = FirstLaunch

ServicesInit ==
    /\ service \in Services
    /\ LogInit
    /\ UiaInit
    /\ TriggerInit
    /\ ThrottleInit
    /\ ReportInit
    /\ DownloadInit
    /\ SessionInit
    /\ PagesInit
    /\ ApiInit
    /\ Plainly

servicesVars == <<service, logVars, uiaVars, triggerVars, throttleVars, reportVars,
                  downloadVars, sessionVars, pagesVars, apiVars>>

ServicesNext ==
    \/ service = "log" /\ LogNext
       /\ UNCHANGED <<service, uiaVars, triggerVars, throttleVars, reportVars, downloadVars,
                      sessionVars, pagesVars, apiVars>>
    \/ service = "uia" /\ UiaNext
       /\ UNCHANGED <<service, logVars, triggerVars, throttleVars, reportVars, downloadVars,
                      sessionVars, pagesVars, apiVars>>
    \/ service = "trigger" /\ TriggerNext
       /\ UNCHANGED <<service, logVars, uiaVars, throttleVars, reportVars, downloadVars,
                      sessionVars, pagesVars, apiVars>>
    \/ service = "throttle" /\ ThrottleNext
       /\ UNCHANGED <<service, logVars, uiaVars, triggerVars, reportVars, downloadVars, sessionVars,
                      pagesVars, apiVars>>
    \/ service = "report" /\ ReportNext
       /\ UNCHANGED <<service, logVars, uiaVars, triggerVars, throttleVars, downloadVars,
                      sessionVars, pagesVars, apiVars>>
    \/ service = "download" /\ DownloadNext
       /\ UNCHANGED <<service, logVars, uiaVars, triggerVars, throttleVars, reportVars, sessionVars,
                      pagesVars, apiVars>>
    \/ service = "session" /\ SessionNext
       /\ UNCHANGED <<service, logVars, uiaVars, triggerVars, throttleVars, reportVars,
                      downloadVars, pagesVars, apiVars>>
    \/ service = "pages" /\ PagesNext
       /\ UNCHANGED <<service, logVars, uiaVars, triggerVars, throttleVars, reportVars,
                      downloadVars, sessionVars, apiVars>>
    \/ service = "api" /\ ApiNext
       /\ UNCHANGED <<service, logVars, uiaVars, triggerVars, throttleVars, reportVars,
                      downloadVars, sessionVars, pagesVars>>

ServicesSpec == ServicesInit /\ [][ServicesNext]_servicesVars

\* The service that moves keeps its types.
ServicesTypeOK ==
    /\ service = "log" => LogTypeOK
    /\ service = "uia" => UiaTypeOK
    /\ service = "trigger" => TriggerTypeOK
    /\ service = "throttle" => ThrottleTypeOK
    /\ service = "report" => ReportTypeOK
    /\ service = "download" => DownloadTypeOK
    /\ service = "session" => SessionTypeOK
    /\ service = "pages" => PagesTypeOK
    /\ service = "api" => ApiTypeOK
=============================================================================
