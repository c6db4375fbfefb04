\* What horizon builds from small pipelines, and every map over four components.
CONSTANTS
  FEATURE_INITIALIZER = "feature_initializer"
  Pipelines <- MCPipelines
  HandWritten <- MCHandWritten
SPECIFICATION OnboardingSpec
INVARIANTS
  KahnDecidesAcyclicity
  GeneratedSingleRooted
  ExecutableComponentsResolved
