SPECIFICATION ContractSpec
CONSTANTS
    MaxOdd = 1
    SwitchedOff = {{}}
    Denials = {{}, {"spawn_subrun"}}
INVARIANT DelegationsRun
