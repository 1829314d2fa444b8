SPECIFICATION TemplateSpec
CONSTANTS
    PathTokens <- MCPathTokens
    Targets <- MCTargets
    PlainTargets <- MCPlainTargets
    PathOf <- MCPathOf
    IndexOf <- MCIndexOf
    Keys = {1, 2}
    Words = {"w1"}
    NOVALUE = NOVALUE
    Authored <- MCAuthored
    Inputs <- MCInputs
CHECK_DEADLOCK FALSE
INVARIANTS
    RendersTemplateWithInputs
    AnswersAreStable
