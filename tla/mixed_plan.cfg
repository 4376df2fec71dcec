\* Every query subject, step outcome and order of completion.
CONSTANTS
    MaxDocs = 3
    StepOutcomes <- AllOutcomes
SPECIFICATION Spec
INVARIANTS KnownCitationsKeep MergedInPlanOrder AnsweredMeansAllRequired
           RetriedWhenSwallowed RulesMeetPlans
