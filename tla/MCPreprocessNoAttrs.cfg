\* mkextmod's preprocessing of a file without .ARM.attributes.
CONSTANTS
  NoNode = NoNode
  NoTag = NoTag
  Unbound = Unbound
  Inputs <- MCInputsNoAttrs
  CpuConfig <- MCCpuConfig
SPECIFICATION Spec
INVARIANT CpuChecked
CHECK_DEADLOCK FALSE
