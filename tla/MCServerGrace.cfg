SPECIFICATION Spec
CONSTANT
    Connection = {c1}
PROPERTY
    NoSSEUsesUpTheGrace
