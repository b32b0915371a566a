----------------------------- MODULE StatusText -----------------------------
(***************************************************************************)
(* The sequential code behind the status text: reading the configuration   *)
(* (Config), choosing a world (WorldQuery) and building the document       *)
(* (XmlBuilder).  A behaviour runs one of the three; the variables of the  *)
(* others are None.                                                        *)
(***************************************************************************)
EXTENDS WorldQuery, XmlBuilder, Config

None == "none"

NoQuery ==
    /\ pc = None /\ world_name = None /\ sent = None /\ worlds = None
    /\ num_worlds = None /\ i = None /\ out_world = None /\ status = None

NoDocument ==
    /\ builder = None /\ document = None /\ call = None /\ p = None
    /\ arg = None /\ data = None /\ position = None /\ renderings = None

NoConfig ==
    /\ setting = None /\ env = None /\ config = None /\ motd = None
    /\ transport_mode = None /\ preview = None /\ shown = None

StatusTextInit ==
    \/ WorldInit /\ NoDocument /\ NoConfig
    \/ NoQuery /\ XmlInit /\ NoConfig
    \/ NoQuery /\ NoDocument /\ ConfigInit

ChooseWorld == WorldNext /\ UNCHANGED <<xmlVars, configVars>>
BuildDocument == XmlNext /\ UNCHANGED <<worldVars, configVars>>
ReadSettings == ConfigNext /\ UNCHANGED <<worldVars, xmlVars>>

StatusTextNext == ChooseWorld \/ BuildDocument \/ ReadSettings

statusTextVars == <<worldVars, xmlVars, configVars>>

\* Nothing that builds the document waits for anything.
StatusTextSpec ==
    StatusTextInit /\ [][StatusTextNext]_statusTextVars /\ WF_statusTextVars(BuildDocument)

-----------------------------------------------------------------------------
\* Every document is finished by xml_null_terminate, also one with a format that ends
\* within a specifier.
DocumentEnds == builder = "build" ~> builder = "idle"

=============================================================================
