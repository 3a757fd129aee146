CONSTANT Setups <- MCSetups
SPECIFICATION Spec
INVARIANTS
  TypeOK
  StreamedText
  StreamedCalls
  StreamedReasoning
  MetricsAddUp
  OneEnd
PROPERTY Served
CHECK_DEADLOCK FALSE
