-------------------------- MODULE RegionSwitchProof --------------------------
(***************************************************************************)
(* No interleaving of the main loop, the timer interrupt, the requests of  *)
(* the PC and the watchdog loses a reload: Settled holds for every set of  *)
(* groups and every number of switch turns and requests.                   *)
(***************************************************************************)
EXTENDS RegionSwitch, TLAPS

Versions == (0..MaxOps) \cup {Torn}

(* The places at which main has not touched, or has finished with, the      *)
(* layers: nothing is half done there.                                      *)
AtRest == {"top", "io", "l0", "getL0", "test", "flag", "getL1", "l1", "check"}

(* Where the value in force is about to be overwritten the reload that      *)
(* repairs it is already requested.                                         *)
Requested == {"bootLoad", "getValue", "value", "clear"}

(* What holds of the layers at each place of main while no reload is        *)
(* pending.  A reload in progress has loaded the layers below arg.l; a      *)
(* layer being rewritten in the EEPROM only concerns its own group.         *)
Progress ==
    /\ pc \in AtRest => (pcSelected \/ InForce(value)) /\ reported = value
    /\ pc \notin Requested
    /\ pc = "load" => \A l \in 0..(arg.l - 1) : l \notin missed => fpga[l] = Contents(value, l)
    /\ pc = "report" => InForce(value)
    /\ pc = "set" => pcSelected /\ reported = value
    /\ pc \in {"write", "written"} =>
          (pcSelected \/ value = arg.g \/ InForce(value)) /\ reported = value

(* Only the first packet of a load can be eaten, and that is layer 0.       *)
Eaten ==
    /\ missed \subseteq {0}
    /\ swallow /\ pc \in {"bootLoad", "set", "load"} => arg.l = 0
    /\ pc \notin {"bootLoad", "set", "load", "write", "written"} => arg.l = 0

ReloadNotLost == flag = 0 /\ pc # "boot" => Progress

IInv == TypeOK /\ Eaten /\ ReloadNotLost

-----------------------------------------------------------------------------
LoadTypes ==
    /\ fpga \in [Layers -> [grp : Groups, ver : Versions] \cup {Nothing, Garbage}]
    /\ missed \subseteq Layers
    /\ arg \in [l : Layers, g : Groups]

(* Loading a layer and moving on to the next one keeps the types. *)
LEMMA LoadTypesStep ==
    ASSUME TypeOK, NEW g \in Groups, NEW from, NEW done,
           LoadLayer(g), NextLayer(from, done)
    PROVE  LoadTypes'
  <1>1. arg.l \in Layers /\ arg.g \in Groups /\ arg \in [l : Layers, g : Groups]
    BY DEF TypeOK
  <1>2. Contents(g, arg.l) \in [grp : Groups, ver : Versions]
    BY <1>1 DEF TypeOK, Contents, Versions
  <1>3. fpga' \in [Layers -> [grp : Groups, ver : Versions] \cup {Nothing, Garbage}]
    BY <1>1, <1>2 DEF TypeOK, LoadLayer, Versions
  <1>4. missed' \subseteq Layers
    BY <1>1 DEF TypeOK, LoadLayer
  <1>5. arg' \in [l : Layers, g : Groups]
    BY <1>1, RegionAssumption DEF NextLayer
  <1>6. QED
    BY <1>3, <1>4, <1>5 DEF LoadTypes

(* Every step keeps the types. *)
LEMMA TypeStep ==
    ASSUME TypeOK, [Next]_vars
    PROVE  TypeOK'
  <1>1. CASE TurnSwitch
    BY <1>1, RegionAssumption DEF TurnSwitch, link, told, TypeOK, Places
  <1>2. CASE TimerIsr
    BY <1>2, RegionAssumption DEF TimerIsr, link, told, TypeOK, Places
  <1>3. CASE Boot
    BY <1>3, RegionAssumption DEF Boot, Goto, Env, link, TypeOK, Places
  <1>4. CASE BootLoad
    <2>1. value \in Groups /\ LoadLayer(value) /\ NextLayer("bootLoad", "top")
      BY <1>4 DEF BootLoad, TypeOK
    <2>2. LoadTypes'
      BY <2>1, LoadTypesStep
    <2>3. swallow' \in BOOLEAN /\ isr' \in BOOLEAN
      BY <1>4 DEF BootLoad, TypeOK
    <2>4. pc' \in Places
      BY <1>4 DEF BootLoad, NextLayer, Places
    <2>5. QED
      BY <1>4, <2>2, <2>3, <2>4 DEF BootLoad, Env, told, TypeOK, LoadTypes, Versions
  <1>5. CASE PcSetLoad
    <2>1. arg.g \in Groups /\ LoadLayer(arg.g) /\ NextLayer("set", "top")
      BY <1>5 DEF PcSetLoad, TypeOK
    <2>2. LoadTypes'
      BY <2>1, LoadTypesStep
    <2>3. swallow' \in BOOLEAN /\ isr' \in BOOLEAN
      BY <1>5 DEF PcSetLoad, TypeOK
    <2>4. pc' \in Places
      BY <1>5 DEF PcSetLoad, NextLayer, Places
    <2>5. QED
      BY <1>5, <2>2, <2>3, <2>4 DEF PcSetLoad, Env, told, TypeOK, LoadTypes, Versions
  <1>6. CASE RomWritten
    BY <1>6, RegionAssumption DEF RomWritten, Goto, Env, link, told, TypeOK, Places
  <1>7. CASE CompareValue
    BY <1>7, RegionAssumption DEF CompareValue, Env, link, told, TypeOK, Places
  <1>8. CASE RaiseFlag
    BY <1>8, RegionAssumption DEF RaiseFlag, Goto, Env, link, told, TypeOK, Places
  <1>9. CASE Served
    BY <1>9, RegionAssumption DEF Served, Goto, Env, link, told, TypeOK, Places
  <1>10. CASE ReadIo
    BY <1>10, RegionAssumption DEF ReadIo, Goto, Env, globals, link, told, Rest,
        TypeOK, Places
  <1>11. CASE StoreL0
    BY <1>11, RegionAssumption DEF StoreL0, Goto, Env, link, told, Rest, TypeOK,
        Places
  <1>12. CASE GetL0
    BY <1>12, RegionAssumption DEF GetL0, Goto, Env, globals, link, told, Rest,
        TypeOK, Places
  <1>13. CASE TestL1
    BY <1>13, RegionAssumption DEF TestL1, Env, link, told, Rest, TypeOK, Places
  <1>14. CASE StoreFlag
    BY <1>14, RegionAssumption DEF StoreFlag, Goto, Env, link, told, Rest, TypeOK,
        Places
  <1>15. CASE GetValue
    BY <1>15, RegionAssumption DEF GetValue, Goto, Env, globals, link, told, Rest,
        TypeOK, Places
  <1>16. CASE StoreValue
    BY <1>16, RegionAssumption DEF StoreValue, Goto, Env, link, told, Rest, TypeOK,
        Places
  <1>17. CASE GetL1
    BY <1>17, RegionAssumption DEF GetL1, Goto, Env, globals, link, told, Rest,
        TypeOK, Places
  <1>18. CASE StoreL1
    BY <1>18, RegionAssumption DEF StoreL1, Goto, Env, link, told, Rest, TypeOK,
        Places
  <1>19. CASE PowerUpReport
    BY <1>19, RegionAssumption DEF PowerUpReport, Env, link, TypeOK, Places
  <1>20. CASE CheckFlag
    BY <1>20, RegionAssumption DEF CheckFlag, Env, link, told, Rest, TypeOK, Places
  <1>21. CASE ClearFlag
    BY <1>21, RegionAssumption DEF ClearFlag, Goto, Env, link, told, TypeOK, Places
  <1>22. CASE ReloadLayer
    <2>1. value \in Groups /\ LoadLayer(value) /\ NextLayer("load", "report")
      BY <1>22 DEF ReloadLayer, TypeOK
    <2>2. LoadTypes'
      BY <2>1, LoadTypesStep
    <2>3. swallow' \in BOOLEAN /\ isr' \in BOOLEAN
      BY <1>22 DEF ReloadLayer, TypeOK
    <2>4. pc' \in Places
      BY <1>22 DEF ReloadLayer, NextLayer, Places
    <2>5. QED
      BY <1>22, <2>2, <2>3, <2>4 DEF ReloadLayer, Env, told, TypeOK, LoadTypes, Versions
  <1>23. CASE Report
    BY <1>23, RegionAssumption DEF Report, Goto, Env, link, TypeOK, Places
  <1>24. CASE PcSetRegion
    BY <1>24, RegionAssumption DEF PcSetRegion, Env, link, told, Request, TypeOK,
        Places
  <1>25. CASE PcLoadRegion
    BY <1>25, RegionAssumption DEF PcLoadRegion, Env, link, told, Request, TypeOK,
        Places
  <1>26. CASE UdpSearch
    BY <1>26, RegionAssumption DEF UdpSearch, Env, link, Request, TypeOK, Places
  <1>27. CASE PcReset
    BY <1>27, RegionAssumption DEF PcReset, Env, link, told, Request, TypeOK, Places
  <1>28. CASE WatchdogReset
    <2>1. fpga' \in [Layers -> [grp : Groups, ver : Versions] \cup {Nothing, Garbage}]
      BY <1>28 DEF WatchdogReset, TypeOK, Versions
    <2>2. arg' \in [l : Layers, g : Groups] /\ 0 \in Groups
      BY <1>28, RegionAssumption DEF WatchdogReset
    <2>3. swallow' \in BOOLEAN /\ isr' \in BOOLEAN /\ reset_nios' \in BOOLEAN
      BY <1>28 DEF WatchdogReset, TypeOK
    <2>4. QED
      BY <1>28, <2>1, <2>2, <2>3 DEF WatchdogReset, Env, TypeOK, Versions, Places
  <1>29. CASE UNCHANGED vars
    BY <1>29 DEF vars, TypeOK, Places
  <1>30. QED
    BY <1>1, <1>2, <1>3, <1>4, <1>5, <1>6, <1>7, <1>8, <1>9, <1>10, <1>11, <1>12,
       <1>13, <1>14, <1>15, <1>16, <1>17, <1>18, <1>19, <1>20, <1>21, <1>22, <1>23,
       <1>24, <1>25, <1>26, <1>27, <1>28, <1>29 DEF Next, Main, Pc

(* Every step keeps the account of eaten packets. *)
LEMMA EatenStep ==
    ASSUME TypeOK, Eaten, [Next]_vars
    PROVE  Eaten'
  <1>1. CASE TurnSwitch
    BY <1>1, RegionAssumption DEF TurnSwitch, link, told, TypeOK, Eaten
  <1>2. CASE TimerIsr
    BY <1>2, RegionAssumption DEF TimerIsr, link, told, TypeOK, Eaten
  <1>3. CASE Boot
    BY <1>3, RegionAssumption DEF Boot, Goto, Env, link, TypeOK, Eaten
  <1>4. CASE BootLoad
    BY <1>4, RegionAssumption DEF BootLoad, Env, told, NextLayer, LoadLayer, Contents,
        TypeOK, Eaten
  <1>5. CASE PcSetLoad
    BY <1>5, RegionAssumption DEF PcSetLoad, Env, told, NextLayer, LoadLayer,
        Contents, TypeOK, Eaten
  <1>6. CASE RomWritten
    BY <1>6, RegionAssumption DEF RomWritten, Goto, Env, link, told, TypeOK, Eaten
  <1>7. CASE CompareValue
    BY <1>7, RegionAssumption DEF CompareValue, Env, link, told, TypeOK, Eaten
  <1>8. CASE RaiseFlag
    BY <1>8, RegionAssumption DEF RaiseFlag, Goto, Env, link, told, TypeOK, Eaten
  <1>9. CASE Served
    BY <1>9, RegionAssumption DEF Served, Goto, Env, link, told, TypeOK, Eaten
  <1>10. CASE ReadIo
    BY <1>10, RegionAssumption DEF ReadIo, Goto, Env, globals, link, told, Rest,
        TypeOK, Eaten
  <1>11. CASE StoreL0
    BY <1>11, RegionAssumption DEF StoreL0, Goto, Env, link, told, Rest, TypeOK, Eaten
  <1>12. CASE GetL0
    BY <1>12, RegionAssumption DEF GetL0, Goto, Env, globals, link, told, Rest,
        TypeOK, Eaten
  <1>13. CASE TestL1
    BY <1>13, RegionAssumption DEF TestL1, Env, link, told, Rest, TypeOK, Eaten
  <1>14. CASE StoreFlag
    BY <1>14, RegionAssumption DEF StoreFlag, Goto, Env, link, told, Rest, TypeOK,
        Eaten
  <1>15. CASE GetValue
    BY <1>15, RegionAssumption DEF GetValue, Goto, Env, globals, link, told, Rest,
        TypeOK, Eaten
  <1>16. CASE StoreValue
    BY <1>16, RegionAssumption DEF StoreValue, Goto, Env, link, told, Rest, TypeOK,
        Eaten
  <1>17. CASE GetL1
    BY <1>17, RegionAssumption DEF GetL1, Goto, Env, globals, link, told, Rest,
        TypeOK, Eaten
  <1>18. CASE StoreL1
    BY <1>18, RegionAssumption DEF StoreL1, Goto, Env, link, told, Rest, TypeOK, Eaten
  <1>19. CASE PowerUpReport
    BY <1>19, RegionAssumption DEF PowerUpReport, Env, link, TypeOK, Eaten
  <1>20. CASE CheckFlag
    BY <1>20, RegionAssumption DEF CheckFlag, Env, link, told, Rest, TypeOK, Eaten
  <1>21. CASE ClearFlag
    BY <1>21, RegionAssumption DEF ClearFlag, Goto, Env, link, told, TypeOK, Eaten
  <1>22. CASE ReloadLayer
    BY <1>22, RegionAssumption DEF ReloadLayer, Env, told, NextLayer, LoadLayer,
        Contents, TypeOK, Eaten
  <1>23. CASE Report
    BY <1>23, RegionAssumption DEF Report, Goto, Env, link, TypeOK, Eaten
  <1>24. CASE PcSetRegion
    BY <1>24, RegionAssumption DEF PcSetRegion, Env, link, told, Request, TypeOK,
        Eaten
  <1>25. CASE PcLoadRegion
    BY <1>25, RegionAssumption DEF PcLoadRegion, Env, link, told, Request, TypeOK,
        Eaten
  <1>26. CASE UdpSearch
    BY <1>26, RegionAssumption DEF UdpSearch, Env, link, Request, TypeOK, Eaten
  <1>27. CASE PcReset
    BY <1>27, RegionAssumption DEF PcReset, Env, link, told, Request, TypeOK, Eaten
  <1>28. CASE WatchdogReset
    BY <1>28, RegionAssumption DEF WatchdogReset, Env, TypeOK, Eaten
  <1>29. CASE UNCHANGED vars
    BY <1>29 DEF vars, TypeOK, Eaten
  <1>30. QED
    BY <1>1, <1>2, <1>3, <1>4, <1>5, <1>6, <1>7, <1>8, <1>9, <1>10, <1>11, <1>12,
       <1>13, <1>14, <1>15, <1>16, <1>17, <1>18, <1>19, <1>20, <1>21, <1>22, <1>23,
       <1>24, <1>25, <1>26, <1>27, <1>28, <1>29 DEF Next, Main, Pc

(* Every step keeps the account of what is loaded. *)
LEMMA ReloadStep ==
    ASSUME TypeOK, Eaten, ReloadNotLost, [Next]_vars
    PROVE  ReloadNotLost'
  <1>1. CASE TurnSwitch
    BY <1>1, RegionAssumption DEF TurnSwitch, link, told, ReloadNotLost, Progress,
        InForce, Contents, AtRest, Requested, TypeOK, Eaten
  <1>2. CASE TimerIsr
    BY <1>2, RegionAssumption DEF TimerIsr, link, told, ReloadNotLost, Progress,
        InForce, Contents, AtRest, Requested, TypeOK, Eaten
  <1>3. CASE Boot
    BY <1>3, RegionAssumption DEF Boot, Goto, Env, link, ReloadNotLost, Progress,
        InForce, Contents, AtRest, Requested, TypeOK, Eaten
  <1>4. CASE BootLoad
    BY <1>4, RegionAssumption DEF BootLoad, Env, told, NextLayer, LoadLayer, Contents,
        ReloadNotLost, Progress, InForce, AtRest, Requested, TypeOK, Eaten
  <1>5. CASE PcSetLoad
    BY <1>5, RegionAssumption DEF PcSetLoad, Env, told, NextLayer, LoadLayer,
        Contents, ReloadNotLost, Progress, InForce, AtRest, Requested, TypeOK, Eaten
  <1>6. CASE RomWritten
    BY <1>6, RegionAssumption DEF RomWritten, Goto, Env, link, told, ReloadNotLost,
        Progress, InForce, Contents, AtRest, Requested, TypeOK, Eaten
  <1>7. CASE CompareValue
    BY <1>7, RegionAssumption DEF CompareValue, Env, link, told, ReloadNotLost,
        Progress, InForce, Contents, AtRest, Requested, TypeOK, Eaten
  <1>8. CASE RaiseFlag
    BY <1>8, RegionAssumption DEF RaiseFlag, Goto, Env, link, told, ReloadNotLost,
        Progress, InForce, Contents, AtRest, Requested, TypeOK, Eaten
  <1>9. CASE Served
    BY <1>9, RegionAssumption DEF Served, Goto, Env, link, told, ReloadNotLost,
        Progress, InForce, Contents, AtRest, Requested, TypeOK, Eaten
  <1>10. CASE ReadIo
    BY <1>10, RegionAssumption DEF ReadIo, Goto, Env, globals, link, told, Rest,
        ReloadNotLost, Progress, InForce, Contents, AtRest, Requested, TypeOK, Eaten
  <1>11. CASE StoreL0
    BY <1>11, RegionAssumption DEF StoreL0, Goto, Env, link, told, Rest,
        ReloadNotLost, Progress, InForce, Contents, AtRest, Requested, TypeOK, Eaten
  <1>12. CASE GetL0
    BY <1>12, RegionAssumption DEF GetL0, Goto, Env, globals, link, told, Rest,
        ReloadNotLost, Progress, InForce, Contents, AtRest, Requested, TypeOK, Eaten
  <1>13. CASE TestL1
    BY <1>13, RegionAssumption DEF TestL1, Env, link, told, Rest, ReloadNotLost,
        Progress, InForce, Contents, AtRest, Requested, TypeOK, Eaten
  <1>14. CASE StoreFlag
    BY <1>14, RegionAssumption DEF StoreFlag, Goto, Env, link, told, Rest,
        ReloadNotLost, Progress, InForce, Contents, AtRest, Requested, TypeOK, Eaten
  <1>15. CASE GetValue
    BY <1>15, RegionAssumption DEF GetValue, Goto, Env, globals, link, told, Rest,
        ReloadNotLost, Progress, InForce, Contents, AtRest, Requested, TypeOK, Eaten
  <1>16. CASE StoreValue
    BY <1>16, RegionAssumption DEF StoreValue, Goto, Env, link, told, Rest,
        ReloadNotLost, Progress, InForce, Contents, AtRest, Requested, TypeOK, Eaten
  <1>17. CASE GetL1
    BY <1>17, RegionAssumption DEF GetL1, Goto, Env, globals, link, told, Rest,
        ReloadNotLost, Progress, InForce, Contents, AtRest, Requested, TypeOK, Eaten
  <1>18. CASE StoreL1
    BY <1>18, RegionAssumption DEF StoreL1, Goto, Env, link, told, Rest,
        ReloadNotLost, Progress, InForce, Contents, AtRest, Requested, TypeOK, Eaten
  <1>19. CASE PowerUpReport
    BY <1>19, RegionAssumption DEF PowerUpReport, Env, link, ReloadNotLost, Progress,
        InForce, Contents, AtRest, Requested, TypeOK, Eaten
  <1>20. CASE CheckFlag
    BY <1>20, RegionAssumption DEF CheckFlag, Env, link, told, Rest, ReloadNotLost,
        Progress, InForce, Contents, AtRest, Requested, TypeOK, Eaten
  <1>21. CASE ClearFlag
    BY <1>21, RegionAssumption DEF ClearFlag, Goto, Env, link, told, ReloadNotLost,
        Progress, InForce, Contents, AtRest, Requested, TypeOK, Eaten
  <1>22. CASE ReloadLayer
    BY <1>22, RegionAssumption DEF ReloadLayer, Env, told, NextLayer, LoadLayer,
        Contents, ReloadNotLost, Progress, InForce, AtRest, Requested, TypeOK, Eaten
  <1>23. CASE Report
    BY <1>23, RegionAssumption DEF Report, Goto, Env, link, ReloadNotLost, Progress,
        InForce, Contents, AtRest, Requested, TypeOK, Eaten
  <1>24. CASE PcSetRegion
    BY <1>24, RegionAssumption DEF PcSetRegion, Env, link, told, Request,
        ReloadNotLost, Progress, InForce, Contents, AtRest, Requested, TypeOK, Eaten
  <1>25. CASE PcLoadRegion
    BY <1>25, RegionAssumption DEF PcLoadRegion, Env, link, told, Request,
        ReloadNotLost, Progress, InForce, Contents, AtRest, Requested, TypeOK, Eaten
  <1>26. CASE UdpSearch
    BY <1>26, RegionAssumption DEF UdpSearch, Env, link, Request, ReloadNotLost,
        Progress, InForce, Contents, AtRest, Requested, TypeOK, Eaten
  <1>27. CASE PcReset
    BY <1>27, RegionAssumption DEF PcReset, Env, link, told, Request, ReloadNotLost,
        Progress, InForce, Contents, AtRest, Requested, TypeOK, Eaten
  <1>28. CASE WatchdogReset
    BY <1>28, RegionAssumption DEF WatchdogReset, Env, ReloadNotLost, Progress,
        InForce, Contents, AtRest, Requested, TypeOK, Eaten
  <1>29. CASE UNCHANGED vars
    BY <1>29 DEF vars, ReloadNotLost, Progress, InForce, Contents, AtRest, Requested, TypeOK, Eaten
  <1>30. QED
    BY <1>1, <1>2, <1>3, <1>4, <1>5, <1>6, <1>7, <1>8, <1>9, <1>10, <1>11, <1>12,
       <1>13, <1>14, <1>15, <1>16, <1>17, <1>18, <1>19, <1>20, <1>21, <1>22, <1>23,
       <1>24, <1>25, <1>26, <1>27, <1>28, <1>29 DEF Next, Main, Pc

LEMMA InitIInv ==
    ASSUME Init
    PROVE  IInv
  <1>1. TypeOK
    <2>1. 0 \in Groups /\ 0 \in Layers /\ 0 \in 0..MaxOps /\ 0 \in 0..MaxTurns
      BY RegionAssumption
    <2>2. /\ pcSelected \in BOOLEAN /\ reset_nios \in BOOLEAN /\ isr \in BOOLEAN
          /\ swallow \in BOOLEAN
      BY DEF Init
    <2>3. QED
      BY <2>1, <2>2 DEF Init, TypeOK, Places
  <1>2. Eaten
    BY DEF Init, Eaten
  <1>3. ReloadNotLost
    BY DEF Init, ReloadNotLost
  <1>4. QED
    BY <1>1, <1>2, <1>3 DEF IInv

LEMMA Inductive == Spec => []IInv
  <1>1. Init => IInv
    BY InitIInv
  <1>2. IInv /\ [Next]_vars => IInv'
    BY TypeStep, EatenStep, ReloadStep DEF IInv
  <1>3. QED
    BY <1>1, <1>2, PTL DEF Spec

(* TypeOK: the globals of alarm_region only ever hold positions of the      *)
(* switch, and the layer number stays within the three region RAMs.         *)
THEOREM TypeCorrect == Spec => []TypeOK
  <1>1. IInv => TypeOK
    BY DEF IInv
  <1>2. QED
    BY <1>1, Inductive, PTL

(* Settled: however the timer interrupt falls between the accesses of the   *)
(* main loop, whatever the PC asks for and wherever the watchdog strikes,   *)
(* a main loop without a pending reload has the layers of                   *)
(* change_region_value in the FPGA and has reported that group, except the  *)
(* innermost layer when the link ate its packet.                            *)
THEOREM NoReloadLost == Spec => []Settled
  <1>1. IInv => Settled
    BY DEF IInv, Settled, ReloadNotLost, Progress, AtRest, Eaten
  <1>2. QED
    BY <1>1, Inductive, PTL

=============================================================================
