SPECIFICATION Spec
INVARIANT AssemblesOperands
