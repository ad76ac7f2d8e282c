CONSTANTS
    w1 = w1
    w2 = w2
    w3 = w3
    w4 = w4
    v1 = v1
    v2 = v2
    v3 = v3
SYMMETRY Symmetry
SPECIFICATION Spec
INVARIANTS EditsValidate PlansApply MovesTravel EdgesAgree DropsLand
PROPERTIES ImplementsTreeSpec RatiosKept
